# Parallel connected components: a TLA+ verification project

This directory models the four connected-components programs of the repository,
checks them with TLC on small instances, and proves with TLAPS what holds for
every instance. Paths below are relative to the repository.

## 1. The system

Four programs read an undirected graph (number of vertices, number of edges, one
edge per line) and print the number of connected components.

| component | source | state | operations | hard because |
|---|---|---|---|---|
| edges and input | `*/utils/Edge.hpp`, `*/utils/GraphInputIterator.hpp`, read loops of the `main`s | file position, edge vector | `normalize`, iterator, `loadSlice` | boundaries: no edge, slices that do not divide |
| serial program | `Serial/serial_cc.cpp`, `utils/DisjointSets.hpp` (over vendored boost) | parents and ranks | `unify`, `find` | `link` is called with vertices that are not representatives |
| MPI program | `CSE613-MPI/my_MPI_cc.cpp`, `utils/mpi_parallel_cc_utils.cpp` | rank 0: all edges and labels; every rank: a slice and a copy of the labels | `master`, `slave`, `hook_nodes`, `find_roots`, `compute_next_edges` | two functions that must make the same collective calls; stale copies; uneven slices |
| deterministic OpenMP program | `CSE613-OpenMP/deterministic_OPENMP_cc.cpp`, `utils/cse613_utils.cpp` | shared edges and labels | `par_deterministic_cc`, `find_roots`, `find_rank_and_remove_edges` | plain racing stores and loads |
| randomized OpenMP program | `CSE613-OpenMP/randomized_OPENMP_cc.cpp`, `utils/cse613_utils.cpp` | shared labels, coins, one edge list per level of recursion | `par_randomized_cc`, `coin_toss_and_child_hook`, `map_results_back`, `configure_RNG` | races on the way down and up, progress depends on coins |
| sparse sampling (PPoPP 2018) | `PPoPP_2018/ppopp_MPI_cc.cpp`, `utils/SparseSampling.hpp` | a slice per rank, vertex count, labels at the root | `connectedComponents`, `edgesToSamplePerProcessor`, sampling and mapping | unsigned arithmetic at limits, root and ranks in different code |

All but the serial program work in rounds. A round merges labels along the
remaining edges, rewrites the edges by the new labels and drops those that have
become internal to a component. The programs differ in how labels are merged:
maximum over hooks (MPI), last store wins (deterministic OpenMP), coin tosses
(randomized OpenMP), union at the root (sampling). No program handles failures:
there are no retries, timeouts or restarts, and nothing is stored, so the hazards
are interleavings, the order of collective calls, progress, and boundaries.
`PROJECT.json` lists each hazard at its line.

What makes each component correct:

* every parallel program: equal labels exactly for connected vertices when it
  returns; no merge across components at any time; no edge forgotten; bounded rounds;
* MPI: master and slave agree on every collective call and its size; distributing
  the work computes what one process would; every rank reaches `MPI_Finalize`;
* OpenMP: racing jumps stay inside a tree and end at its root; racing hooks build
  no cycle; racing copies have slots of their own; mapping back moves no root;
* sampling: shares add up to the sample and fit into the slices; labels stay dense.

## 2. Modules

    Sums                sums over ranks, as cardinalities (operators)
    Ranks               the processes of an MPI program (operators)
    Graph               edges, connectivity, compaction, the read loop, slices (operators)
    Forest              labels as a forest: what is reached by following them (operators)
    GraphTheorems       connectivity, compaction, forests, disjoint sets, numberings (proved)
    Contraction         abstract specification: one step per round
    ContractionProofs   Contraction returns the connected components (proved)
    FindRoots           pointer jumping by racing threads
    FindRootsProofs     it returns the roots, in logarithmically many passes (proved)
    Collectives         rooted MPI collectives as channels
    MpiCC               the MPI program; implements Contraction
    MpiCCProofs         the calls agree, the result, the rounds, the counts (proved)
    OmpRound            the edges that find_rank_and_remove_edges returns (operators)
    OmpFilter           find_rank_and_remove_edges, loop by loop (actions)
    OmpDeterministic    the deterministic OpenMP program, over OmpFilter; implements Contraction
    OmpDeterministicTeam        it with the threads of FindRoots racing inside find_roots
    OmpDeterministicProofs      acyclic hooks, the filter, the result, the rounds, the team (proved)
    OmpRandomized       the randomized OpenMP program; implements Contraction
    OmpRandomizedProofs stars, the way back up, the result, the coins (proved)
    CoinTosses          its generators and its coins, packed into words
    SampleShares        the shares of the sample in closed form (operators)
    SampleAllocation    the loops that compute them, in bounded integers
    DisjointSets        union by rank, path compression (operators)
    PrefixComponents    components of the sampled edges, at the root (actions)
    SparseSampling      the sampling program, over PrefixComponents; implements Contraction
    SparseSamplingProofs        the calls agree, dense maps, the result, the shares (proved)
    GraphInput          the file iterator and loadSlice
    SerialCC            the serial program, over GraphInput
    SerialProofs        slices, disjoint sets and the printed count (proved)
    MC*                 instances for TLC

No module uses a recursive operator. Connectivity is defined without paths: `u`
and `v` are connected if no set of vertices that every edge is inside or outside
of separates them. The order-preserving filter (`Compact`) is defined by counting.
Definitions named `Bug...` are plausible slips in the definition after them. No
specification uses them; putting one in place of the original must make the
property it is paired with in `PROJECT.json` fail.

### Contraction

`input`, `edges` and `labels` are the graph, the remaining edges and the labels.
`Contract` is a round: `labels'` is any merge along remaining edges that names
each component by a member (`Merges`), and the edges are rewritten (`MergedPairs`).
`Return` is the base case. Any program whose rounds are `Contract` steps is
correct, which is proved; that the four programs' rounds are `Contract` steps is the
property `Contracts` of each. A round that changes nothing is a stuttering step and
satisfies `Contracts`: progress is the subject of `RoundsBounded`, `TossPays` and
`Termination`.

### FindRoots

`find_roots` of `cse613_utils.cpp` (active branch, lines 142-149). Neither
`labels` nor the flag `found` is atomic, which C++ calls a data race; the
outcomes a build can produce are modelled by letting a store become visible at any
time before the barrier that ends the pass, in any order, while the storing
thread sees it at once (`pending`, `Commit`). This is weaker than the store buffers
of x86. A 32-bit access is not torn, and `found` is written at once (only TRUE is
ever written in a pass and it is read after the barrier, so a delay shows no
more). `StartPass` and `Return` are the two outcomes of `while(found)`, `Jump` and
`Check` the two statements of the loop. `Chunk` gives every iteration to one thread.
With one thread it is `find_roots` of the MPI program, at any delay; `MpiCC` runs
that version vertex by vertex itself.

### Collectives, MpiCC

`pc[r]` names the next MPI call of rank `r`. There is one action per collective
call and side, with the computation up to the next call in it: `MasterHook` is the
broadcast of the labels and `hook_nodes`, `SlaveScatter` is the receipt of the
count and the base case, and so on; `MpiCC`'s comments name the calls. A broadcast
or scatter appends a message to a channel per slave (`SendDown`), the slave takes
it when it gets there (`TakeDown`); a reduction or gather works the other way
(`SendUp`, `TakeUp`). The channels are FIFO, as MPI matches collective calls in
order. `Buffer` is how many messages the library holds before a sender waits, which
MPI leaves open. The vectors that a frame of the recursion keeps but no longer
reads are not kept.

### OmpRound, OmpFilter, OmpDeterministic, OmpRandomized

`find_roots` is a call that returns `Roots` (of `Forest`); `FindRoots` shows that it does
(`ReturnsRoots`, proved). What `FindRoots` assumes of its input, labels that point
upwards, is `Acyclic` of `OmpDeterministic`. `OmpDeterministicTeam` joins the two: its
steps are those of `OmpDeterministic`, with `FindRootsCall`, the steps of `FindRoots`
(`INSTANCE` with the vector of the program as `memory`) and `FindRootsReturn` in place
of the one step `FindRoots`. `labels` keeps what `find_roots` was called with until it
returns, so `Implements`, the specification of `OmpDeterministic` as a property, says
that the call as a whole is that one step.

`OmpFilter` holds the variables and steps of `find_rank_and_remove_edges`: two
parallel loops, the scan, the `single` construct. `OmpDeterministic` extends it,
enters it after `find_roots` (`RemoveEdgesCall`) and leaves it into the recursive
call (`Recurse`). `ReturnsCrossing` says that it returns `RemoveEdges` of `OmpRound`,
for the edges and labels that this program calls it with; `OmpRandomized` uses the
operator in its place.

The iterations of a parallel loop run in any order, each as if in a thread of its
own; that includes every team and schedule. In the hooking loop of the
deterministic program an iteration is one store. In the randomized program an
iteration reads first and writes later, in separate steps, in both loops
(`HookTest`, `MapTestFrom`, `MapTestTo`, `MapLoad`, `Store`). `map` is a reference to
`labels`, so `map_results_back` works on one vector. `callers` is the recursion.

### CoinTosses

`OmpRandomized` lets every coin fall either way in every round, which needs no more
than that the tossing loop writes some coins. `CoinTosses` is what comes before:
`configure_RNG` (`Test`, `Exit` and `Seed` are the steps of one thread; what is read
past the end of the vector of primes is any value), and then the tossing loop, where
an assignment to an element of `vector<bool>` is a load and a store of a word
(`LoadWord`, `StoreWord`), so that threads whose chunks meet inside a word race for it.

### SampleShares, SampleAllocation, PrefixComponents, SparseSampling

`SampleAllocation` has the three loops of `edgesToSamplePerProcessor`, one iteration
per step, with unsigned subtraction that wraps and a conversion from double that
is undefined out of range (`Converted`). The code's integers have 32 bits; `Width`
is smaller, because TLC's own integers have no more, but large enough that
nothing wraps unless it does in 32 bits too (`AvailableAssumption`: the edges of a
round fit the signed type). The threshold and the target are floating-point
formulas of the number of ranks and vertices; they are constants, and the comment
at `ShareAssumption` gives real values. `SampleShares` is the result in closed form;
`ServableShares` says that the two agree.

`PrefixComponents` holds the variables and steps of `prefixConnectedComponents`: the
union loop with its two reasons to stop, and the relabelling. `SparseSampling`
extends it and runs it at rank 0 between gathering the samples and broadcasting the
map (`MasterUnite` to `MasterMapped`); `MapsDensely` says what it returns.

`SparseSampling` is every rank's loop of sampling rounds over the
channels of `Collectives`. The one collective without a root, `MPI_Allreduce`, is
the history `local_edges`: a rank gets the sum of a round once every rank has
contributed to that round. A draw with replacement of `k` edges is any nonempty
set of at most `k` edges of the slice. The samples travel as sets: rank 0 shuffles
them, and as the target is one component it unites them all, or stops when
one component is left; neither order nor repetition shows. The exception of
`edgesToSamplePerProcessor` is not caught, so it ends the job (`aborted`), which
`Termination` accepts as an end; when it is thrown is the
subject of `SampleAllocation`: never while the sparse processors fit
(`RemainingCanBePlaced`), else it can be (`CapacityRemains` is violated).
`Contracts` is a refinement with a twist: the vertices are renumbered from 0 in
every round, on different ranks at different times, so an edge counts as
what its rank will have made of it at the end of the round (`Remaining`), and a
number stands for the smallest vertex that carries it (`Name`).

### DisjointSets, SerialCC, GraphInput

`DisjointSets` is the class over boost's `disjoint_sets` (in the repository, under
`boost_1_83_0`): `link_sets` finds both representatives with full compression and
hangs one under the other. Compression runs along a whole path at once.

In `GraphInput` the position in the file (`read_`) and the index of the edge
(`position_`) belong to two classes, as in the code, and the stream throws at the end of
the file. Its users are `loadSlice`, whose ranks have a stream each and do not interact, so
they are run one after the other, and the loop of a `main`. `SerialCC` extends it with the
serial `main`: the loop over the file (`MainLoop`), `unify` along the edges it kept, the
count. The file may declare another number of edges than it holds. The parallel programs
read the same way; their modules begin with a file that holds what it declares.

## 3. Runs

| run | instance | shows |
|---|---|---|
| `find_roots` | 5 vertices, 3 threads, all upward forests | racing pointer jumping with late stores: the roots, the number of passes for the height of the trees, termination |
| `mpi` | 4 vertices, 3 ranks, lists of at most 3 edges, `Buffer` 5 | collective calls match, counts fit the integers, distribution changes nothing, rounds bounded, all ranks finish with the components; implements Contraction |
| `omp_deterministic` | 4 vertices, all simple graphs, all lists of 2 edges, all lists of 3 upward edges | any store may win: no cycle, same result, at most N rounds; copies have slots of their own; implements Contraction |
| `omp_deterministic_team` | 4 vertices, all simple graphs, 3 threads | with the threads racing inside `find_roots`, every call returns the roots of what the hooks left, in every round, and the program returns |
| `omp_randomized` | simple graphs of 3 edges on 4 vertices, lists of 2 and 3 edges on 3, one useless toss | all coins and interleavings, down and up; implements Contraction |
| `coin_tosses` | 2 primes, teams of up to 4 threads, 4 coins, words of 2, all divisions of the loop | enough seeds: all differ; two too few: exit. A toss is lost only in a shared word, and then to head |
| `coin_tosses_race` | 2 threads, 2 coins in one word | finding: a toss can be lost |
| `coin_tosses_seeds` | 2 primes, teams of up to 3 | finding: one seed too few is not noticed |
| `sample_allocation` | 3 ranks, up to 8 edges each in every combination, threshold 3, target 5, 8 bits | the shares are the closed form, add up and fit, and the last loop does not run out of ranks, whenever the sparse ranks fit into the sample |
| `sample_allocation_complete_graph` | 2 ranks with 5 edges each, the real threshold 59 and target 6, 12 bits | finding: the subtraction wraps and the last loop throws |
| `sparse_sampling` | 4 vertices, 3 ranks, `Buffer` 1, threshold 1, target 2; all simple graphs; files of one or two edges with a self loop; files of five edges in slices of 1, 1 and 3; files of nine edges in slices of 3 | collectives match, maps are dense and fit the edges they are applied to, all ranks return the components, or the job aborts; implements Contraction |
| `serial` | `main`: 4 vertices, files of up to 3 edges either way round with a self loop, files of 4 normalized edges; `loadSlice`: files of up to 9 edges, 1 to 4 ranks; from no edge declared to one more than the file holds | every declared edge is loaded exactly once; position and stream agree, also when the iterator throws; sets are the components of the edges so far, trees balanced, count right for what the file declares |

Bounds and why they are enough. Four vertices are the fewest on which a chain of
hooks needs a second pass of `find_roots` in the order of the loop, and on which two
merged components merge again. Three vertices already give edges that come out of
`compute_next_edges` pointing down, the reason rounds may make no progress:
`RoundsBounded` of `MpiCC` is reached exactly there (edges 0-1, 0-2 take four
rounds). Files of one and two edges are shorter than the number of ranks, and counts
that do not divide occur from the first round on. A file of self loops takes the base
case at once. Five vertices and three threads give every thread a neighbour that
overwrites what it reads, and uneven chunks. `MaxEdges` is the length of the file in `mpi` and
of the file of `main` in `serial`; `MaxLines` that of the file of `loadSlice`, which is enough for
every remainder by four. The order of a file matters where slices are made, and `mpi` has all
orders of up to three edges. `MaxIdle` bounds the tosses that separate no edge, which
change nothing but the depth. `IntMax` is the largest `int` in the
counts of the MPI program; 2 makes files of three edges one too long for an `int`. Two primes
and two coins per word stand for 199 and 64:
teams that have enough seeds, one too few and two too few, and chunks that do and do
not begin at a word all occur. Deadlock is checked in every run; `Terminated` is the
only stop.

A buffer of 5 in `mpi` lets rank 0 run as far ahead as it can (it makes five calls
before it waits for the slaves), so every behaviour of a smaller buffer is
one of this instance and the safety properties cover it. Whether a library that
hardly buffers can get stuck is asked in `sparse_sampling`, with a buffer of 1.

In `sparse_sampling` the threshold and the target are small, so that slices of two
edges are already proportional shares and two sparse ranks can hold more than is
wanted, which ends the job. With slices of 1, 1 and 3, rank 2 draws a true sample
after two whole slices; with slices of 3 each, rank 0 alone is asked, and the other
ranks send nothing. The instances take up to three sampling rounds, with ranks
that have run out of edges while others have not.

The rounds of the MPI program grow slower than the bound (six rounds on five
vertices, eight on eight), but not logarithmically in the vertices for every
graph; `2 * (N - 1)` is what the argument "a merge at least every second round"
gives.

Fairness. `FindRoots`: weak fairness of each thread and each store, as OpenMP
runs the team it forks to the barrier and stores reach memory. `OmpDeterministicTeam`: the same,
and weak fairness of the program outside of `find_roots`, which the initial thread and the teams
of the other loops run on. `MpiCC` and
`SparseSampling`: weak fairness of each process; MPI guarantees progress of
matching collective calls. No fairness is assumed of a sample: a share is never all
loops, since loops are dropped after the first round, and whatever is drawn from
then on merges something, so the rounds of `SparseSampling` end by themselves. (In
the first round loops may be drawn only; all of them are gone after it.) The other
specifications state no fairness: their runs bound the rounds instead, and
the randomized program terminates only with probability one (`TossPays` is the
step of that argument that does not depend on chance).

## 4. Proofs

Every theorem is about the specification that the runs check, for every value of its
constants. The modules that hold them extend `GraphTheorems`, whose lemmas they cite:

* connectivity is an equivalence relation, and is not changed by the self loops that
  `main` drops;
* the inclusive prefix sum of a set of marks takes every value up to their number
  exactly once (`UptoInjective`, `UptoInRange`, `UptoOnto`), so `Compact` keeps every
  marked element in one place of its own; exclusive prefix sums add up (`PrefixSums`), and
  sums follow their terms: added, compared, changed at one place, scaled (`SumPlus` to
  `SumProportion`);
* labels form a forest if they point upwards (`UpwardsForest`), or to higher levels
  (`RankedForest`); the root of a vertex is unique, and is not changed by shortcuts
  (`ShortcutsKeepRoots`). Hooks along edges merge components and no more (`RootsMerge`):
  a set of vertices that no edge leaves is not left by following labels either;
* `unify` joins two trees of disjoint sets and keeps them balanced (`UnifyTrees`). The
  powers of two in `RanksBalance` are cardinalities of power sets (`PowersOfTwo`);
* one more edge merges two components and no others (`ConnectedByOneMore`), and a map that
  gives every component its number when its smallest vertex comes by is `DenseMap`
  (`DenseMapInOrder`).

**Contraction.** `ContractionCorrect`: `Spec => []Correct`, for every set of vertices
and every graph. The inductive invariant says that a vertex and its label are
connected by the input (`NeverTooFar`), that an input edge has equal labels or an edge
between its labels remains (`NothingForgotten`), that remaining edges join connected
vertices and that labels are their own labels. The result needs all four: the first
gives one direction, the second the other once no edge remains, by the closed set of
the vertices that carry one label. There is no run for it: the refinements of the four
programs are checked instead, and the programs below are proved correct through it.
The part that does not need `Return`, `MergedWhenDone`, is what the sampling program uses,
whose ranks learn one after the other that no edge remains.

**FindRoots.** `FindRootsInv`, `FindRootsCorrect`, `FindRootsOnlyUpwards`, `FewPasses`:
for every number of vertices, every team, schedule and delay. Readable values are
ancestors (`StaysInTree`) and strictly above a vertex unless it is a root
(`RootsAreStable`): so the test of the loop cannot take an inner vertex for a root on a
stale read. While `found` is not set, every vertex this pass has dealt with is at its
root (`DoneAreAtRoot`); for the vertex between its two statements this needs
`JumpedIsNewest`. `StoresRise` gives `OnlyUpwards`: no store moves a label down. The
number of passes needs distances: what a thread reads in pass `k` is a root or at least
`2^(k-1)` steps up, and what it stores twice as far (`Halving`), whichever stores it has
seen; a distance is bounded from below by the ancestors left behind (`Far`). The bound is
in the height of the highest tree of the labels at the call (`Height`), not in the
number of vertices.

**MpiCC.** `CollectivesAgree`, `Sequential`, `ProgramContracts`, `ProgramCorrect`,
`RoundsBound`, `IntsAreEnough`: for every graph, number of ranks and capacity of the
channels. The invariant places every slave against rank 0: before the reduction of a
round it follows rank 0, and its channel holds exactly the messages of the calls that
rank 0 has made since (`Following`); then it has sent its labels and waits for the roots
(`Awaiting`); then it has relabelled its edges and may be ahead of rank 0 (`Gathering`).
Because the messages are those of the round, with its data, every rank holds what it
should (`Told`), and the matching of the calls, which a type invariant cannot see, is
inductive. That the ranks together compute what one process would rests on the slices
being consecutive stretches (`Below`): the maximum over the ranks of what each hooks is what
one process hooks, and the gathered edges are the compaction of all edges, in order.
`RoundsBound`: a round with an edge that points up takes a vertex out of the labels; a
round without turns all its edges round, so that the next one has one (`RoundsLeft`).
`IntsAreEnough`: the first round drops an edge (`Dropping`), after which no count reaches
that of the file.

**OmpDeterministic, with its team.** `TypeCorrect`, `HooksBuildNoCycle`,
`FilterIsSequential`. The types are not inductive: that the edges of the next round are
between vertices and point upwards needs every slot of `nextEdges` written with an edge
that crosses. So the invariant follows the filter loop by loop (`Marked`: the marks so
far; `Summed`: the sums are places; `Copied`: the copies so far, each in its place), and
says that labels point upwards, that a hooked label is the end of an edge
(`HooksAlongEdges`) and that the ends of a round's edges were their own labels when it
began (`RoundsSettle`). `ProgramContracts`: the step of `find_roots` is a `Contract` step,
the call without an edge is `Return`, all others stutter. `ProgramCorrect` follows from
`ContractionCorrect`, and, as labels point upwards, the common label of a component is
its largest vertex. `RoundsBound`: the number of vertices that are their own label, plus
the rounds begun, never grows (`RoundsLeft`): the smaller end of every edge of a round
stops being its own label (`HooksStay`: no later store undoes a hook, as all stores go
up). `TeamImplements`, `TeamSpec => Implements`, and `TeamCorrect`: the invariant is that
of the program and, while `find_roots` runs, that of `FindRoots` (`TeamInv`); between calls
no thread and no store is left in it (`AtRest`). The labels point upwards when the call is
made, which makes them a state `FindRoots` may start from; all steps inside leave the
program as it is; and the step that ends the last pass finds every label at the root of
what the call was made with, so it is the step of the program. Every proof on
`OmpDeterministic` holds with the threads.

**OmpRandomized.** `HooksBuildStars`, `TossTakesARoot`, `MapBackKeepsRoots`,
`ProgramContracts`, `ProgramCorrect`: for every graph, all coins, interleavings and depths
of the recursion. Labels do not point upwards here. The invariant gives every vertex a
level, the call in which it has hooked or the innermost one (`Levels`): a label is at a
higher level, along an edge that the caller of its level still holds. So labels form no
cycle (`RankedForest`), and on the way up an iteration that will map the vertex is still
there (`WillMap`); what an iteration has read before others wrote is the root of its
target all the same (`MapIteration`). The levels are in no variable, so the invariant
says that they exist (`IInv`), and every step is shown to keep them or to extend them by
the vertices that have just hooked.

**CoinTosses.** `EnoughSeeds`, `TossesKept`, `NoForeignTail`, at the end of
`OmpRandomizedProofs` (which is why the two specifications share no names): for every number
of seeds and coins, every word size, team and division of the loop. A thread has a seed only after the
test, and then the one at its index if there is one (`SeedsByIndex`), so a team with all its
seeds has at most one thread too many. A coin is tossed once (`TossedOnce`); what a thread
has loaded is its new toss and copies (`Loaded`), which show no tail that was not tossed and
are up to date when no other thread writes to the word; so a store undoes no finished
iteration of the same thread (`Stored`).

**SparseSampling.** `CollectivesAgree`, `EndsStayInRange`, `MapsAreDense`,
`ProgramContracts`, `ProgramCorrect`: for every graph and file, number of ranks, capacity of
the channels, threshold, target and sample. The invariant places every rank against rank 0
(`Agrees`): both are at the sum of one round (`Summing`), or at the last sum (`Ending`), or
rank 0 waits for the samples and unites them (`Sampling`), or the map and the count are on
their way and the rank may already be counting edges for the next round while others still
hold edges with the old numbers (`Renaming`); each with exactly the messages that lie between
the two. What holds the ranks together is the one collective without a root: a rank has the
sum of a round only when all have contributed (`Rounds`), so no rank is more than one sum
ahead. With the places go the numbers: the ends of a rank's edges are below the count it has,
or within the map it is about to apply (`Numbering`), which is `EndsInRange`. At rank 0 the
invariant follows `prefixConnectedComponents` (`InPrefix`): the sets are the components of
the edges united so far and `components_active` counts their roots (`Uniting`); stopping at
one set loses nothing, as all is connected by then; the numbers given so far are in the order
of the smallest vertices (`Relabelling`). `Currents` says that the numbers of rank 0's own
vector are in order as well, so composing the two is dense again. For `ProgramContracts` the
step that ends the relabelling is the round: every edge that any rank holds, or
will hold, is renamed by the map at once (`Renumbered`), by whatever rank later does
it; what was drawn is part of what remains, so it is a merge along remaining edges; that a
rank applies the map afterwards changes no edge (`SlaveRemaining`). A rank returns when the
sum is zero, and then no rank has an edge left (`NoneRemain`). An aborted job has returned
nothing; it stays aborted.

**SampleAllocation.** `SharesServable`, `RemainingPlaced`, at the end of
`SparseSamplingProofs`: for every number of ranks, threshold, target, vector of available
edges and width of the integers that holds their sum - so for the 32 bits of the code, which
TLC cannot evaluate. Each loop turns one vector into the next, rank by rank: nothing into the
shares of the sparse ranks, these into the proportional shares, these into the shares that
are returned (`LoopsShare`). Each vector is at least the one before and at most what the
ranks have; the proportional shares add up to no more than is wanted, as divisions lose
(`Proportions`); and after `k` steps of the last loop the sum is what is wanted or, if that is
less, what the ranks would send if the first `k` sent all they have (`FinalSums`). So the
difference that `remaining_edges` holds stays between zero and what is wanted, nothing wraps
(`Iteration`, `NothingWraps`), and when all ranks have been asked nothing remains.
If the sparse ranks do not fit, the invariant says nothing: this is where
`sample_allocation_complete_graph` finds the exception.

**SerialCC, GraphInput.** `IteratorFollowsStream`, `SlicesMakeTheFile`,
`TreesAreBalanced`, `UnifiedSets`, `PrintedCount`: for every file, declared count, number
of vertices and number of ranks. The invariant relates the three counters of the iterator
(`InStep`), says that a rank has as much of its slice as it has passed (`Slices`), that
the pairs kept are those of the edges passed (`Kept`), that the sets are the components of
the edges unified (`Sets`) and that the counts are those of the vertices passed by their
roots (`Counting`), which compression does not move.

The assumptions are named `ASSUME`s: for `FindRoots` and `OmpDeterministicTeam`, that every
iteration belongs to exactly one thread; for the programs, that there is a vertex, and
that a file has at least one line (`begin()` throws on others), each with two vertices (also for
`SparseSampling`);
for `CoinTosses`, that there is a seed, that a word holds a coin, and that the threads are
numbered from 0 and share out the iterations; for the MPI programs (`Ranks`,
`Collectives`), that there is a rank and a channel holds a message; for `MpiCC`, that
ranks are counted by an `int`; for `SampleShares`, that threshold and target are positive;
for `SampleAllocation`, that some rank has an edge and all edges together fit the signed
type; for `GraphInput`, that there is a rank. The theorems on
`OmpDeterministic` take `find_roots` as one step that returns `Roots`, which
`TeamImplements` justifies; the randomized program does not call it.

Every safety property and every refinement that a run checks is a theorem, but for those that
a run finds violated. Only model-checked: liveness (`Termination`, `Returns`), which is out of
the prover's reach.

## 5. Not modelled

`MPIEdge` (a memory layout), printing, timing, plots and build files have no
behaviour to check. `reopen` of `GraphInputIterator` has no caller; it would leave what
opening the file leaves. The floating-point formulas for the threshold and target of a
sample are constants. Integers have a width in `SampleAllocation` and a largest value in
`IntsSuffice` of `MpiCC`, which covers edge lists up to one edge more than an `int` counts, on several ranks;
with twice as many the counts of the MPI program overflow, and the model says
nothing. Elsewhere sizes are unbounded. A file without an edge makes
`GraphInputIterator::begin()` throw (`GraphInput`) before any other modelled code
runs; so `nNodes == 0`, and the exception of `DisjointSets` on no elements, cannot occur.
The quality of the random
numbers, and with it the expected number of rounds, is out of a model checker's reach.

## 6. Plan

A bound on the rounds, as `RoundsBound` gives it for `MpiCC` and `OmpDeterministic`, is
missing for `SparseSampling`. After the first round no loop is left, so each round merges
something, as the argument for its liveness above says; the model would have to count
rounds to state it.
