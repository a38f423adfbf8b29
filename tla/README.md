# A verification development for cfcol

cfcol solves the *double-partition colouring problem* (DPCP): given a graph and
two partitions P and Q of its vertices, select one vertex of every P-part and
colour the selected vertices with as few colours as possible, so that adjacent
ones differ and those of one Q-part agree.  Its exact solver is a
branch-and-price search in C++, which calls exactcolors, a branch-and-price
solver for graph colouring in C that is part of the repository.  This directory
holds TLA+ models of both, the TLC configurations that check them, and theorems
that TLAPS proves.

## Files

| file | what it is |
| --- | --- |
| `ExactSearch.tla` | what an exact solver promises, whatever search it runs (abstract specification) |
| `BranchAndPrice.tla` | the tree search of `src/src/bp.cpp` |
| `MCBranchAndPrice.tla`, `bp_*.cfg` | its constants for TLC and its runs |
| `BranchAndPriceProofs.tla` | theorems about it, proved by TLAPS |
| `Dpcp.tla` | the instance of a node: construction, removal, preprocessing, branching (`src/src/graph.cpp`) |
| `MCDpcp.tla`, `dpcp_*.cfg` | its constants and runs |
| `NodeLP.tla` | the relaxation of a node: `LP::solve`, its pricing pipeline, the columns its sons inherit (`src/src/lp.cpp`) |
| `MCNodeLP.tla`, `node_lp.cfg` | its constants and run |
| `NodeLPProofs.tla` | theorems about it |
| `Pricing.tla` | one round of pricing: pool, greedy, P,Q-MWSSP, P-MWSSP, exact model (`src/src/pricing.cpp`) |
| `MCPricing.tla`, `pricing.cfg`, `pricing_dense.cfg` | its constants and runs |
| `PricingProofs.tla` | theorems about it |
| `Heuristics.tla` | the heuristics, the feasibility checks and `Col` on an instance of `Dpcp` (`src/src/heur.cpp`, `feas.cpp`, `col.cpp`) |
| `GreedyColouring.tla` | DSATUR (`src/exactcolors/greedy.c`), which they call |
| `MCHeuristics.tla`, `heuristics.cfg`, `feas_*.cfg` | their constants and runs |
| `HeuristicsProofs.tla` | theorems about `Dpcp`, `Heuristics` and `GreedyColouring` |
| `ColorNodes.tla` | the nodes of the tree of exactcolors: bounds, collection, heap order, branching (`src/exactcolors/color.c`) |
| `ColorNodesProofs.tla` | lemmas about them that the proofs about both searches use |
| `ColorTree.tla` | its sequential search, with backups, crashes and restarts (`color.c`, `color_backup.c`, `color_main.c`) |
| `MCColorTree.tla`, `color_tree.cfg`, `color_bound.cfg`, `color_estimate.cfg`, `color_torn.cfg` | its constants and runs |
| `ColorTreeProofs.tla` | theorems about it, up to a crash |
| `ColorBoss.tla` | its parallel search: boss, workers, job killer (`color.c`, `color_worker.c`, `color_jobkiller.c`) |
| `MCColorBoss.tla`, `color_boss.cfg`, `color_answer.cfg`, `color_lost.cfg` | its constants and runs |
| `ColorBossProofs.tla` | theorems about it |
| `ColorGraph.tla`, `color_graph.cfg` | what branching does to graphs, stable sets and colourings (`color.c`, `graph.c`), and its run |
| `ColorGraphProofs.tla` | theorems about it |
| `WeightedGraph.tla`, `NwtHeap.tla` | the instance of a stable set problem; the binary heap (`heap.c`) |
| `LocalSearch.tla` | greedy, swaps, paths and the rounding of weights (`mwis_grdy.c`) |
| `Wstable.tla` | branch and bound for a heaviest stable set (`mwis_sewell/wstable.c`) |
| `CliqueEnum.tla` | the two clique searches (`cliq_enum.c`) |
| `StableSets.tla` | `COLORstable_wrapper`, which composes the three (`mwis.c`) |
| `MCStableSets.tla`, `stable_sets.cfg`, `ls_basis.cfg`, `stable_value.cfg` | its constants and runs |
| `PROJECT.json` | components, runs, mutants, the map to the source, hazards, findings, theorems |

## Inventory of the system

cfcol is one process with one thread; its asserts are active (the Makefile
builds with -O3 and without NDEBUG).  It sends no messages and persists nothing
between runs.  Inside cfcol, what is hard is not concurrency but *long sequences of
legal steps*: a list whose order is relied upon far from where it is kept, index
maps that removals must keep in step with the parts, flags that are computed
once and copied, limits that can strike between any two steps, optional
strategies that change which steps happen, and doubles that are compared with
tolerances.

exactcolors is a library to cfcol and a set of programs of its own.  As a
program it writes its tree to a backup directory and restarts from it, and it
can hand the nodes of its tree to workers over sockets: there crashes, lost and
late results and jobs given out twice are part of the code's life.

| component | state | operations | interacts with |
| --- | --- | --- | --- |
| **Tree search** `bp.cpp` | list `L` of open nodes, `primal_bound`, `best_integer_solution`, `rootval`, node counters | `solve`, `push`, `pop`, `update_primal_bound`, `calculate_dual_bound`, `return_stats`, `Node::branch` | asks each node's LP for an LP state, a colouring, an objective value; its own clock |
| **Node relaxation** `lp.cpp` | CPLEX model, columns, `posVars`, `objVal`, initial colouring, branching vertex | `solve`: settle by flags (infeasible, trivial, GCP), heuristic, feasibility check, column generation, integrality test, choice of branching vertex; `branch` | instance, heuristics, feasibility checks, pricing, exactcolors |
| **Pricing** `pricing.cpp` | four pricing problems (greedy, P, P,Q, exact), their pools of stables | find columns of negative reduced cost | LP's duals in, stables out; the stable set solver of exactcolors |
| **Instance** `graph.cpp` | graph, parts of P and Q, index maps, isolated vertices, flags `isInfeasible`, `hasTrivialSolution`, `isGCP` | read, construct, copy, `remove_vertex`, `preprocess` (4 steps), `preselect_vertex`, `forbid_vertex` | everybody reads it; branching copies and reduces it |
| **Colouring** `col.cpp` | `coloring` (vertex to colour), `classes` (colour to vertices), `colorP`, `colorQ` | `set_color`, `reset_coloring`, `color_isolated_vertices`, `check_coloring`, `get_stable`, `translate_coloring`, `write_coloring` | produced by heuristics, LP and exactcolors |
| **Heuristics** `heur.cpp` | per call: removed vertices, open P-parts, selected vertices, adjacency of Q-parts, adjacent colours | one-step and two-step greedy colourings, semigreedy repetitions | called at the root and in the nodes; DSATUR of exactcolors |
| **Feasibility** `feas.cpp` | a copy of the instance without the edges between parts, a stable set problem or an ILP | decide whether a selection exists, and colour it | called per node, or alone |
| **Compact ILP** `compact_ilp.cpp` | a CPLEX model of the compact formulation | build and solve | driver only |
| **Driver** `main.cpp`, `params.hpp` | parameters, output files | parse, read instances, run the chosen solver | all |
| **Statistics** `stats.cpp` | counters and states | textual names, csv lines | all |
| **exactcolors: tree search and backups** `color.c`, `color_backup.c` | a tree of `colordata`, the branching heap, the global bound, one file per node | branch on a node, solve a child, pass bounds up, collect and free finished subtrees, write and read backups | called by `LP::gcp_solve` and by the program `color` |
| **exactcolors: boss and workers** `color.c`, `color_worker.c`, `color_jobkiller.c` | the same tree and heap, the list of jobs that are out, a count of them | send a job, receive a result, take a job back, send a worker home | workers, one connection at a time |
| **exactcolors: branching on graphs** `color.c`, `graph.c` | of each node: graph, names of its vertices, stable sets, decision | contract, join, cut stable sets to fit, free and recover edge lists, lift colourings | the tree search |
| **exactcolors: stable sets** `mwis*.c`, `cliq_enum.c`, `wstable.c` | a solution with counters kept by hand, rounded weights, the frames of a recursion | local search, rounding, two exact searches | called with the duals by both branch-and-price codes |
| **exactcolors: greedy colourings** `greedy.c` | a partial colouring | DSATUR, greedy | heuristics, start of the tree search |
| **exactcolors: other** `dsatur.c`, `stable.c`, `bbsafe.c`, LP wrappers | | programs of their own, socket input and output, interfaces to LP solvers | |
| **heur_backup.cpp** | not compiled | | |

What would make each component correct:

* tree search: an optimal colouring is never lost, whatever order nodes are
  handled in, however often the bound improves, and the reported answer is true;
* node relaxation: the answer the search is given is right (an infeasible state
  only for an infeasible subproblem, a fractional value never above the
  optimum), the column generation ends, and no column is generated twice;
* pricing: "no column" is only concluded when there is none, and every column
  that is added is a stable set worth what it is said to be worth;
* instance: parts and index maps agree after every removal, the reductions keep
  the optimum, the two sons split the colourings of the node;
* colouring: a colouring of a reduced instance extends to the input;
* heuristics: a colouring that is reported is complete and proper;
* feasibility: the two checks agree with the definition;
* tree of exactcolors: a bound that is passed up is valid, a subtree is freed
  only when its best colouring has been taken, a restart forgets nothing that
  was not found;
* boss and workers: every job is accounted for, results in any order give the
  optimum, the boss ends;
* branching on graphs: what a child inherits fits it, what is thrown away can be
  recovered, no colouring is lost by a decision;
* stable sets: the counters agree with the set, rounding keeps the bound, the
  exact searches are exact, every loop ends.

The hazards behind these, each at its line and with the properties that would
show it, are listed in `PROJECT.json`.

## The models and the code

### cfcol

**`BranchAndPrice`** follows `BP::solve`.  `L` is the list of open nodes with the
next one at the back, `pending` the nodes that have been created and are still
to be pushed (the root, then two sons at a time, left first), `primal` and
`best` the bound and the saved colouring, `report` the `Stats` that `solve`
returns.  `push` is one action per outcome of `LP::solve`: `PushInfeasible`,
`PushInteger` (also GCP and trivial nodes), `PushFractional` (prune or insert in
the order of the search mode), `PushLimit` (the five limit states return at
once), `PushUnknown` (`LP_UNKNOWN` falls through), `PushUndecided` (the
feasibility ILP ran out of time) and `PushStuck` (no vertex to branch on).  All
but three begin with the heuristic colouring, its effect on the bound and the
erasure of `update_primal_bound`.  `pop` is `PopPruned` or `PopBranch`; `Finish`
is the end of `solve`.  A node is the optimum `val` of its subproblem and the
number `free` of its undecided vertices; neither is known to the program, both
only restrict what `LP::solve` may answer.  Objective values are in thousandths
so that `EPSILON_BP` is one unit.  `dropped` and `opt` are not in the program.

**`ExactSearch`** is the contract of an exact solver: an incumbent that improves,
perhaps from a heuristic's before the search, then an answer that is true of the
instance, or none.  It has two implementations here: `Refinement` in
`BranchAndPrice` is this specification with `opt`, `best` and an answer computed
from `report`; `Refinement` in `ColorBoss` with the chromatic number, the global
upper bound and an answer computed from the bounds of the root.

**`Dpcp`** follows one path of the search tree, from the input to a node.
`DPCPInst` is the constructor; `RemoveVertex`, `Step1` to `Step4`,
`PreselectVertex` and `ForbidVertex` are the methods; `Prepare` is what each
solver does before it starts and `PrepareAborts` the assertion of step 3;
`BranchLeft` and `BranchRight` are the constructor of a son's LP.  A vertex is
its original id: descriptors and current ids are recomputed by every removal and
copy.  Edges are a set, so repeated edges are out of the model.

**`NodeLP`** follows `LP::solve` along a path of nodes: `stage` is the place in
it.  `Infeasible`, `Trivial`, `Gcp`, `Heuristic`, `FeasibilitySkipped`,
`FeasibilityPassed`, `FeasibilityFailed` settle or prepare the node,
`AddInitialColumns` opens the LP, `OptimizeLP` and `LPLimit` are CPLEX's answers,
`Price(s)` the stages of `pricing` in the order of the method, `PriceProves`,
`PriceMisses` and `PriceLimit` its ways out, `DummyUsed`, `Integral`, `Fractional` the verdict,
`Branch` a son with the columns that its inheritance mode gives it.  CPLEX is
abstracted to what its callers use: an objective value, and which columns have
negative reduced cost (none that is in the LP; when there is none at all, the
value is that of the whole relaxation).  `PriceMisses` is a 0 of P-MWSSP that is no
proof (see `Pricing`): the loop ends with an attractive column outside the LP, which
the variable `missed`, not in the program, remembers.  Values are in halves of a
colour; a column is the set of its vertices.

**`Pricing`** is one round of `LP::pricing` with given duals.  The pool is read an
entry per step (`PoolEntry`, with the bounded heap of the best entries, then
`AddFromPool`), the greedy `heur_solve` builds its set a vertex per step from a
restricted candidate list (`StartHeur`, `HeurVertex`, `EndHeur`, `AddFromGreedy`),
with the costs of the candidates kept up to date as the code does it;
`PricePQ` and `PriceP` call the stable set solver on weights made of the duals;
`Stopped`, `Optimal` and `Limit` are the ways the exact model ends, the first
through the callback that stops CPLEX at a good candidate.  Duals are integers in
tenths, so the scaling before the stable set solver is left out.  What that solver
may answer is what `StableSets` shows of it: a heaviest set (`Heaviest`) on sparse
graphs; on dense ones, and on those too large for Sewell's search, the set of the
clique search (`CliqueAnswers`), which is a heaviest one among those of several
vertices with weight although a single vertex may be heavier.  Only the set is
returned, and P-MWSSP concludes from its weight that no column is left.

**`Heuristics`** extends `Dpcp`: once an instance is prepared, `LP::solve` or
`main` calls a heuristic and a check.  `SelectVertex` is a turn of `first_step`,
`PassFails` and `PassSucceeds` the end of a pass of a 2-step heuristic (the greedy
one makes one pass, the semigreedy one `MaxPasses`); `ColourVertex`,
`SingleStepFails` and `SingleStepEnds` are `single_step`; `DecideFeasible`,
`DecideInfeasible` and `CheckTimesOut` are the two checks.  `col` is
`Col::coloring`; `classes`, `colorP` and `colorQ` follow from it, and so do the
adjacent colours and Q-degrees that the 1-step heuristic keeps per vertex, for the
vertices that are not removed.  The 2-step heuristics may select any candidate of
any smallest P-part: their degrees, the tie-breaking and the random choice are
left out, as nothing claimed here depends on them.  **`GreedyColouring`** is the
DSATUR they call: the most saturated node next, the least colour that no neighbour
has; a tie is left open, since its callers' order of the nodes is not kept.

### exactcolors

**`ColorNodes`** is what both searches do to the tree of `colordata`.  A node is
abstracted to the chromatic number `opt` of its graph, its fractional chromatic
number `lp` rounded up, the bound `est` that its LP has when `compute_lower_bound`
stops, the bounds and status the code keeps, the best colouring's size, and its
children; `MaxDepth` is where every graph is complete.  `est` is `lp` if the column
generation converges within its 1000 iterations (`color.c:2477`); if not it is the
value of a restricted LP, up to `slack` above `lp` and perhaps above `opt`, and
`Relaxed` allows for that.  The status of a node is `LP_bound_estimated` either way:
the stable set solver always returns a set (`mwis.c:130`, `210`), so the loop never
notices that it has converged, except with `upper_bounds_only`.  `trigger_lb_changes`
walks up the tree, `remove_finished_subtree` collects and frees,
`insert_into_branching_heap` and `COLORNWTheap_min` give the order of the three
strategies (depth first, hybrid, best bound), `Branchings` what a node's children
may be worth: each of the two numbers stays or grows by one, and one child keeps
the optimum.  For the optimum that is `BranchingIsExact` of `ColorGraph`, a theorem.

**`ColorTree`** is `COLORexact_coloring` on one process.  A step takes a node from
the heap (`Skip` when the bound has made it useless, `Solve` when it is complete,
`Branch`) and does all that follows; `Closes` has the assertion that the node's
bounds have not crossed.  `TimeLimit` and `EmptyHeap` end the search.  With a backup
directory every step writes files in the order of the code.  `Crash` keeps a prefix
of the last step's files and may tear the next one (`Beginnings`): what follows the
last whole line keeps the value `init_colordata` gave it, so that a root may come
back with its edges and without its bounds, its stable sets, its colouring or its
children.  `Restarts` is what `COLORexact_coloring` does then: the root's LP is solved
again unless its status says that its bound was computed, or `prefill_heap` decides
which nodes must be branched on again; `Resolved` solves the LP of a node that came
without stable sets, `Break` meets a node that came without its decision.  A file that
is cut before its bounds or inside a line is `CrashUnreadable`: `color_main.c:253`
ignores the result of the recovery, the program fails or goes on with a part of the
graph (`pc` is `broken`), and no property says what it answers; `torn` is set, which
`AnswerIsExact` excludes by name.  A number is taken to be written whole or not at
all.  What is on disk between steps is `disk`, which is left out when no crash can
follow; the files of the step in progress are `problem.files`.

**`ColorBoss`** is `parallel_branching` with its workers, started with any of the three
strategies (the default is depth first, `color_parms.c:34`).  The boss serves one
connection at a time, so a request with its answer is one step: `SendJob`,
`AnswerNo`, `AnswerExit`, `Receive`, `RemoveJob`.  The faults are `SendFails`,
`ReceiveFails`, `WorkerDies`, `BadConnection`, and `RemoveJob` itself: who takes a slow
worker for a dead one makes two workers branch on the same node, and the second result
is `ReceiveUnknown`.  `ReceiveFails` breaks off after the id: the job has left the list,
and the fields of the node are overwritten one after the other with those that have
arrived (`Overwritten`: depth, status, bounds, colouring), then its children, the last
of them perhaps half-way (`Arrived`).  The children that were allocated and not reached
have no defined contents; they are left out, since no walk of the boss comes to them: a
walk starts at a node that was given out and goes up, and none below this one ever is.
`lost` has the nodes that nobody will branch on
after that, `cut` says that it has happened.  Between the requests a worker computes on
its own copy with the bounds of the moment it was sent.  The LPs are taken to converge
here.

**`ColorGraph`** follows one path from the root to a node and back, with real
graphs: `create_same` (contraction), `create_differ` (an edge) and
`create_same_seq`, each with the stable sets the child inherits
(`transfer_same_cclasses`, `transfer_differ_cclasses`); `Wait` frees the edge list
of a node in the heap, `Recover` replays the decisions of the path;
`grab_integral_solution` and `collect_children` lift a colouring up.  `graph` and
`names` of a node are not in the program: they are what the recovery is compared
with.

**`StableSets`** is a call of `COLORstable_wrapper`, from the local search to the
exact answer, composed of three modules that share the graph of
**`WeightedGraph`**.  **`LocalSearch`** has the solution the code keeps by hand (a
permutation in three regions, tightness counters) with its greedy algorithms, the
two-improvements, the paths of one-tight vertices, and the rounding of the weights
over the binary heap of **`NwtHeap`**.  **`Wstable`** has one frame per recursive
call: the active vertices, the vertices excluded on the way, the clique cover that
bounds.  **`CliqueEnum`** has the two clique searches on the complement as
functions of a graph.  Iterations of loops are steps, so that `Terminates` is about
the loops.

### How they fit together

`BranchAndPrice` assumes that two sons split a node (`Sons`) and that a node's
answer is right (the guards of `Push...`).  `BranchingSplits` of `Dpcp` checks the
first on real instances; `AnswerIsRight` of `NodeLP` the second.  `NodeLP` assumes
that a heuristic colouring is one, which `HeuristicIsColouring` of `Heuristics` says
of the 2-step heuristics and of a 1-step heuristic that succeeds, and that the
pricing stages find attractive columns or prove that there is none, which
`AddedColumnsFit` and `NothingMissed` of `Pricing` say.  All five are theorems.
`Pricing` takes what the stable set solver may return from `PricingIsExact` of
`StableSets`.  Three premises do not always hold, and each has its configuration:
P-MWSSP may miss a column on dense graphs (`pricing_dense`), so that `AnswerIsRight`
leaves the value of a node open once it has, and `BranchAndPrice`, which takes the
answers for right, is about searches in which it has not; without preprocessing an
edge inside a Q-part goes unnoticed (`GcpGraphIsExact`, on which `Gcp` of `NodeLP`
rests); and an LP of exactcolors may stop before it converges (`color_estimate`).
`ColorTree` and `ColorBoss` share `ColorNodes`, whose bounds rest on `ColorGraph`.
Where cfcol calls exactcolors on a node that is a graph colouring instance (`Gcp`),
`NodeLP` assumes the answer that `AnswerIsExact` of `ColorTree` checks.

## The runs

| run | bounds | what it checks and shows |
| --- | --- | --- |
| `bp_search` | optima 1..3 or none, 3 undecided vertices at the root, relaxations of 1, 1.5, 2 + noise, 2.5, two kinds of limit, both search modes | the list stays below the bound, the optimum is never lost, the dual bound of depth-first search is valid, the answers are true (`Refinement`), the search stops (`Terminates`) |
| `bp_options` | as above with 2 undecided vertices, `--relax`, every `--ub`, failing pricing, check that times out | what OPTIMAL, INFEASIBLE and FEASIBLE still guarantee |
| `dpcp_node` | all problems of 4 vertices up to their names (every graph, every Q, every shape of P), all solvers, preprocessing on and off | the index maps follow the partitions, completed cliques last, preprocessing keeps the optimum, the sons split the colourings, colourings lift to the input; the graph handed to the colouring solver is worth what the node is, and has a loop only without preprocessing, exactly when the node has no solution and nobody has noticed; 115,944 states |
| `node_lp` | 2 vertices with 3 columns, an undecided vertex, relaxations of 1, 1.5, 2 and 3 (the last is the dummy's), the automatic method on dense and sparse graphs (5 and 2, the longest pipelines without and with the parts swapped), 5 inheritance modes, 1 attractive column at a time, up to 2 columns per stage | the answer about a node is right unless P-MWSSP has missed a column, every pricing brings a new column, column generation ends; 638,314 states |
| `pricing` | every graph on 4 vertices, two pairs of partitions, 5 duals of P-parts and 3 of Q-parts (at, above and below the threshold of 1.0 and that of the callback), 3 pools, 8 sets of options (every method, 1 and 2 columns per round, 1 to 3 greedy calls, greedy and random); graphs of at least 80 % density are dense, as in the code | added columns are stable and worth what is said, "no column" is only concluded when there is none, or none but those that P-MWSSP misses on a dense graph: sets in which one vertex alone has a P-part with a dual; pool and greedy keep the best; 839,044 states |
| `heuristics` | all problems of 4 vertices, all solvers, preprocessing on and off, all heuristics and checks, 2 semigreedy passes | reported colourings are colourings of the input, the checks of the search are exact |
| `color_tree` | chromatic numbers 3 and 4, depth 2, DSATUR at the optimum or 1 above, LPs that converge or whose bounds are up to 1 too high, an initial bound of 3, of 4 or none, three strategies, both ways to branch, one crash when there are backups, with and without `upper_bounds_only` then | in runs whose LPs converge: meeting bounds mean an optimal colouring, also after a restart unless a file was torn before its colouring; no lower bound exceeds the chromatic number of its node before a crash; no optimal colouring is freed or forgotten; in all runs the search ends; 476,471 states |
| `color_boss` | the same trees with LPs that converge, three strategies, 2 workers, one fault | jobs are accounted for whatever breaks off; the boss with its workers is an exact solver (`Refinement`: the bound always, the optimality when no result has broken off); the root has an optimal colouring when the last worker is sent home and no result has broken off; the boss ends; 341,982 states |
| `color_graph` | every graph of 4 nodes, covers of up to one set more than needed | inherited sets fit, recovery is exact, lifted colourings are colourings, branching keeps the chromatic number in one child |
| `stable_sets` | 12 graphs of 6 nodes of every density with 59 lists of weights, cutoff 9; the thresholds of the code scaled to that size (paths from 6 nodes, 20 % and 80 % density, 2 failures of the local search) | the counters agree with the set, the branch and bound loses nothing and returns a heaviest set, both clique searches find the heaviest value, and return the heaviest set of several vertices, rounding keeps the bound, every loop ends; no deadlock; 127,961 states |

These bounds reach what the properties are about.  Three undecided vertices give
lists of three nodes, hence insertions at the front, in the middle and at the back
and erasures that stop half-way; bounds improve up to three times; two limit states
are enough because the program treats all five alike.  Four vertices allow a
P-part and a Q-part to disappear in one step, parts behind them to move, forced
removals in a chain, an odd cycle, and the two Q-parts that make the 1-step
heuristic fail; a contraction whose vertices have common and own neighbours, and
two decisions in a row.  Two vertices in `NodeLP` give a column that dominates
another, a translation that makes columns coincide or empty, and a pool that returns
them.  Depth 2 gives grandchildren, so bounds travel over two levels, a subtree is
collected while its sibling is open, and a restart meets a tree that is half written
and a file that is half written; two workers give two results that overtake each
other and a node that is computed twice.  Six nodes give swaps, paths, covers of
several cliques and rounding that empties the heap.  Every property of these runs is refuted by a plausible bug
in a mapped definition (the operators commented "Faulty variant" or "As a slip" in
the modules; `PROJECT.json` pairs them).

Deadlock is only checked by `stable_sets`, whose call must return: elsewhere a
search, a path or a call that is done has no next step.

Beside the properties of these runs the modules state others: the type invariants
`TypeOK` and `HTypeOK`; `SortedList`, `IncumbentIsPrimal` and
`DfsListIsShort` of `BranchAndPrice`, which are theorems; `ColoursAreConsecutive`,
`SelectionFits`, `CandidatesFit`, `UnknownNeedsConflict` and `BestIsKept` of
`Heuristics`; `EndsSolved` of `ColorTree`, `HeapFits` of
`StableSets`.  TLC finds no violation of any of them under the same
configurations.

## Disagreements between the code and what is said of it

Two are runs of `PROJECT.json` that TLC shows to be violated:

| run | what the code does |
| --- | --- |
| `feas_colouring` | the feasibility checks look adjacencies up in the graph they have emptied, so their colouring may be improper (`feas.cpp:76`) |
| `color_answer` | with three workers the boss may claim "Opt Colors" for a colouring that is not optimal (`color_main.c:260`) |

Further configurations show a violation when they are run:

| configuration | what the code does |
| --- | --- |
| `ls_basis` | a path of the local search that fills the work array has no end mark, and what was in the array before is taken for its nodes (`mwis_grdy.c:989-992`); graphs of fewer than 10 nodes are spared by the guard at 936-938 |
| `bp_dual_bound` | in best-bound search the reported lower bound is the largest value of an open node (`bp.cpp:309`) |
| `bp_ub_optimal` | with `--ub` equal to the optimum the answer is OPTIMAL without a colouring (`bp.cpp:217`) |
| `bp_feasibility_timeout` | a feasibility ILP that times out prunes the node as infeasible (`lp.cpp:546`) |
| `bp_branching_vertex` | a node whose P-parts are all single vertices is not recognised, and a fractional relaxation leaves nothing to branch on (`lp.cpp:1103`) |
| `dpcp_isolated_assert` | without completed cliques the assertion of step 3 fails (`graph.cpp:289`, callers `main.cpp:358, 391, 398`) |
| `feas_decision` | the solvers `feas-enum` and `feas-ilp` decide on P-parts that are no cliques (`main.cpp:391`) |
| `color_bound` | with an initial bound below the relaxation of the root the bounds do not meet, and `gcp_solve` reports a time limit that was not reached (`lp.cpp:437-463`) |
| `color_estimate` | column generation stops after 1000 iterations, and the bound of the LP it has then, which may exceed the chromatic number, prunes and meets the upper bound: a wrong "Opt Colors" with the default options (`color.c:2477`, `2555-2584`) |
| `color_torn` | a root whose file was torn after its bounds and before its colouring is searched without a colouring of its own; when DSATUR had found the optimum nothing better turns up, and color prints "Opt Colors: 0" (`color_main.c:252-261`) |
| `color_lost` | a result of the root that breaks off leaves its bounds without its colouring, and the boss may print "Opt Colors" of a worse one at the cpu limit (`color.c:3058`) |
| `pricing_dense` | P-MWSSP takes the set of a clique search for "an optimal stable set" (`pricing.cpp:384`); on a dense graph a single vertex may be heavier, and its 0 ends column generation although a column is attractive |
| `stable_value` | the value that a clique search reports may exceed the weight of the clique it returns (`cliq_enum.c:390-394`) |

The case of `color_answer` needs nodes of three different ages.  Let the chromatic
number be 3 and DSATUR's bound 5; the strategy is the default.  Two workers branch on
grandchildren of the root and a third on a child of the root, all sent under the bound
5.  One of the grandchildren is solved with 3 colours and freed; its parent keeps the
colouring until its other child is done.  That child's result arrives with children
whose bound is 4: they are inserted, for they were made under the bound 5, and the
bound 4 goes up to the root, since the children with the bound 3 are gone.  The child
of the root is solved with 4 colours and freed, and the root has 4 colours and the
upper bound 4.  The bounds of the root agree at 4; if the cpu limit strikes now, `color_main.c:261` prints "Opt Colors: 4".  The
global bound is 3, so `Refinement` holds all the same, and when the boss goes on to the
end the colouring with 3 colours is collected (`OptimumIsFound`).

Seen while modelling, without a configuration of its own:

* `InfeasibilityProven` fails with `RelaxModes = {TRUE}`: with `--relax` a
  fractional root without a heuristic colouring is reported as infeasible
  (`bp.cpp:145`).
* `HeurSolutionIsColouring` also fails with `N = 4`, `Preprocessing = {FALSE}`,
  `Algorithms = {1}` and `Checks = {0}`: a 1-step heuristic that fails leaves a
  partial colouring that counts as a solution (`heur.cpp:671`, `lp.hpp:60`).
  With preprocessing no instance of four vertices makes the 1-step heuristic of a
  node fail; larger ones were not checked.
* `color -u` with a bound that is not above the chromatic number prints the number
  of colours it has as optimal (`color_main.c:260`); line 263 cannot be reached.
  `AnswerIsExact` of `ColorTree` says what remains true.
* The boss writes backups and never reads any; a torn file of the root takes the
  graph with it, and the recovery's failure is ignored (`color_main.c:253`); after two crashes new nodes may reuse the ids of old files; a crash
  between the "finished" files of a child and of its parent leaves an unfinished
  tree with nothing in the heap, which ends at once.  A result for a job that was
  taken back, or a worker that cannot be written to, aborts the boss; a result that
  breaks off loses its node and the children that have arrived (`lost`), so that the
  boss may end without an answer.  Among nodes of different ages the bounds of the
  root may cross; the assertion at `color.c:3085` only looks at the node received.
* An edge inside a Q-part makes `get_gcp_graph` add a loop (`graph.cpp:191-194`).
  Preprocessing finds such an instance infeasible before; with `--preproc-off`
  (`main.cpp:201`) the graph goes to exactcolors (`lp.cpp:414`), and what it makes of
  a loop is not modelled.
* A condition of both exact stable set searches is switched off (`mwis.c:129-130,
  209-210`), so that they return a set even when none is above the cutoff, and the
  loop of `compute_lower_bound`, which goes on while there are new sets, only ends at
  its 1000 iterations: no status is ever `LP_bound_computed` but with
  `upper_bounds_only`.  Hence a restart solves the LP of the root again and
  `prefill_heap` is only reached with a finished root or that option.
* The sequence of same children never gets its differ edges
  (`color.c`, `i + 1 > degree`), and its sets are resized in the wrong unit and
  counted twice (`color.c:1551-1555`); recovery fails for a root without edges
  (`color.c:1744`); `--pricing-max-cols-per-iter 0` reads the top of an empty heap;
  P-MWSSP hands a graph without edges to the stable set solver, which P,Q-MWSSP
  avoids; one round of P,Q-MWSSP may add a column twice.

## Fairness

`BranchAndPrice` and `NodeLP` assume `WF_vars(Next)`: the program is one sequential
thread, so while it has a step to make it makes one; the calls of CPLEX and of the
pricing routines have time limits and return.  `Terminates` needs no fairness
between actions: every turn of the tree search uses up undecided vertices or a node
of the list, every turn of column generation a column.  `StableSets` assumes the
same, with the states in which a step can change something written out, since TLC
is slow to find them; that they are these is what the absence of deadlocks shows.
`ColorTree` assumes it of the turns of the loop only, the one that leaves the loop
with a node that could not be branched (`Break`) included: the time limit and
crashes may happen or not.  `ColorBoss` assumes of every worker that while it lives it asks
again after an answer and reports its job, which is the loop of `color_worker.c`;
the boss itself only answers.  `Terminates` there is about executions in which no
worker dies: the boss waits for a dead worker's job until somebody takes it back.
The other specifications state no fairness and claim no liveness.

## What is proved

`BranchAndPriceProofs` proves, for every value of the constants that satisfies
`BPAssumption` (any bound on colours and undecided vertices, any set of
objective values in Nat, any subset of limit states, modes and options):

* `Invariance`: the inductive invariant `IInv`.  It is needed because
  `ListBelowPrimal` alone is not inductive: the erasure of best-bound search stops
  at the first node below the bound, which is enough only when the list is sorted,
  and the list stays sorted only because insertions go where they do.  `ListInv`
  holds both, and that an open node has something left to branch on and a value
  that bounds its subproblem.  `StackInv` says that in depth-first search a node
  deeper in the list has fewer undecided vertices, which bounds its length.
  `OptimumCovered` and `IncumbentIsPrimal` relate list, bound and incumbent;
  `AnswerInv` says what each reported state means.
* `TypeCorrect`, `ListSorted`, `OpenNodesBelowPrimal`, `OptimumNeverLost`,
  `PrimalIsIncumbent`, `AnswersAreTrue`, `InfeasibleIsTrue`, `DfsListBounded`,
  `DfsDualBound`: the invariants, from `IInv`.
* `Implementation`: `Spec => Refinement`, the search implements `ExactSearch`, when
  `RelaxModes = {FALSE}`, `InitialBounds = {DBLMAX}`, `PricingMayFail = FALSE` and
  `FeasibilityMayTimeOut = FALSE`.  Each of these assumptions is needed: the runs
  and remarks above show it for three of them, and with `PricingMayFail = TRUE`
  `InfeasibilityProven` fails as well, since a node whose exact pricing fails is
  dropped as if it had been pruned.  Whether a pricing does fail is up to CPLEX.

The argument: each action either leaves the bound or lowers it to the value of a
colouring; `ErasedIsPruned` says what the erased list still holds, and
`PrunedCovers` that a node with an optimal colouring survives while the bound is
above the optimum; `InsertedIsOrdered` says that an insertion keeps the order.  One
lemma per action (`PushIntegerKeeps`, ..., `FinishKeeps`) combines them.

`NodeLPProofs` proves, for any finite set of vertices and any assignment of
relaxation values, pipelines and inheritance modes that `NodeLPAssumption` allows:

* `Invariance`: `IInv` is the type invariant, `AnswerIsRight` and two parts that make
  it inductive.  `Pricing` says that while the stages of a round follow each other,
  none of the attractive columns is in the LP, and if there are none the LP's value is
  that of the whole relaxation; `Converged` that the verdict is on that value, or on a
  higher one if P-MWSSP has missed a column.  `PipelineOrder` says that every method's
  stages end with the exact one.
* `AnswersAreRight`: `AnswerIsRight`.
* `PricingBringsColumns`: the action property `PricedColumnsAreNew`, which is why
  column generation ends.

`ColorGraphProofs` proves all four properties of `color_graph` for graphs of any
size: `ChildrenInheritCovers`, `RecoveryIsExact`, `CollectedColoursFit` and
`BranchingKeepsOptimum`.  The invariant `PathInv` links each node of the path to its
parent by its decision.  `StepsRecover` shows, by a least counterexample, that
replaying the decisions gives every node of the path its edges and names.  That a
contraction or an edge keeps the chromatic number in one child and raises it by one
at most follows from lemmas about colourings as sets of classes: a colouring in which
two vertices agree is one of the contraction, one in which they differ is one of the
joined graph, and one more class repairs a colouring of the parent.

`HeuristicsProofs` starts with the instances of the nodes.  It proves, for every set of input problems that `DpcpAssumption` allows
(any finite graph, any two partitions of its vertices):

* `Inductive`: every instance on a path from the input to a node is `Sound` (the parts
  of P and Q partition the vertices, the index maps name them, edges join two
  vertices), its vertices and its saved isolated vertices are vertices of the input
  and never the same, and the P-parts of the branch-and-price solver's nodes are
  cliques.  `RemovalAligns` is the heart of it: when a part empties, what `Without`
  moves and what `Reindexed` tells the vertices agree, in P and in Q independently.
  `Reduces` says how an instance relates to the one it was made from: vertices are
  gone, edges and parts of the others are as before.  It is transitive, every removal
  is one, and so are all steps of the preprocessing, the decisions and the sons.
* `TypeCorrect`, `PartitionsAgree`, `CliquesStay`: `TypeOK`, `Consistent` and
  `CliquesLast`.  Cliques are not restored in a son; they stay since a reduction keeps
  the edges between the vertices that remain.
* `BranchingDecides`: `SonsAreSmaller`, the second conjunct of `BranchingSplits`, on
  which the termination of the search in `BranchAndPrice` rests.
* `Step2Settles`: step 2, which starts again after every removal, ends, and where it
  ends nothing is forced any more; `Dpcp` counts on it when it makes as many passes as
  there are vertices.

The folds of `RemoveAll` and the passes of step 2 are recursive functions: that they
exist, and what they keep, is shown by a least counterexample.

It goes on to what an instance is worth:

* `PathFaithful`: `PathInv` says that the instance of a node has, in any set of its
  vertices and with any number of colours, a solution exactly if the input has one in
  that set together with what the preprocessing removed, among the vertices that the
  decisions on the path have left (`Faithful`).  It is about every set and not just
  the optimum, because the next decision takes vertices away from both sides: equal
  optima would not be inductive.  `Keeps` says the same of one step, and is proved of
  each of the four: a completed clique loses no selection, a vertex next to a forced
  one in its Q-part is in none, an isolated vertex can always be selected and takes
  the colour of its Q-part.
* `NodesAreExact`: `NodeIsExact`, from `PathInv` and two lemmas that identify the
  optimum of the model, a minimum over selections and colourings, with the least
  number of colours of a solution.  It assumes that every input has a vertex: the
  model gives an empty instance no optimum.
* `BranchingIsExact`: `BranchingSplits`.  A selection has the vertex or it has not.
* `ColouringsLift`: `ColouringLifts`; `GcpGraphsAreExact`: `GcpGraphIsExact`, with
  `NoLoops` of `PathInv`: since step 2 left nothing forced, a preprocessed node with
  single-vertex P-parts has no edge inside a Q-part.  Without preprocessing there may be
  one; then nothing can be coloured, and if there is none the graph is worth what the
  node is.

`PricingProofs` is about one round, for any instances and options that
`PricingAssumption` allows (finite graphs with duals in Nat, any number of columns,
any method; the pool holds stable sets; a Q-part of one vertex has the dual 0, as no
column ever enters its row (`lp.cpp:916`); the callback's threshold is above the
reduced-cost threshold):

* `RoundIsSound`: the inductive invariant `PricingInv`.  Entries of the heap belong to
  sets of the pool, the list of the greedy has columns that match their sets, what is
  added is in `Worthies`; `Building` says of the greedy's unfinished set that the
  candidates are the vertices it may still take, each with the cost at which it would
  be taken now, which the code updates rather than computes.
* `ColumnsFit`, `ZeroProves`: `AddedColumnsFit` and `NothingMissed`.  The first needs
  that maximalising a set (`Joined`, a fold over its vertices in an order) leaves a
  stable set that is worth no less, the second that the weights handed to the stable
  set solver bound the value of every set, and, where the clique search answers, that a
  set with several vertices of positive weight weighs no more than what it returned.
* `BestAreKept`: `KeepsTheBest`, from a second invariant, `BestInv`: the heap holds
  the best of what was read, and the sorted list of the greedy has no duplicates and
  nothing worse than what it refused, at its limit of `k` as well as below.

Its last part is about the heuristics and checks on every node of `Dpcp`:

* `HeuristicsAreSound`: the inductive invariant `HInv`.  `PassFits` is about a pass of
  the first step: the selected vertices, the P-parts still open, the candidates that
  remain in each and the recorded pairs of Q-parts fit; `StepFits` about the partial
  colouring of the 1-step heuristic, whose colours are consecutive, and which leaves
  every vertex that is not removed the colour of its Q-part or a free choice;
  `ReportFits` says that what is reported is a colouring of a whole selection.  `PathInv` is a part of it.
* `HeuristicColours`: `HeuristicIsColouring`, for the 2-step heuristics from
  `DsaturColours`: what DSATUR colours is always coloured properly with consecutive
  colours, and it ends with all nodes coloured; for the collapsed graph of the
  selected Q-parts this gives a colouring of the instance (`CollapsedIsWhole`), which
  lifts to the input (`WholeLifts`).
* `ChecksAreRight`: `DecisionIsExact`.  A stable set of the graph of the check has as
  many vertices as there are P-parts exactly if it is a selection; this uses that the
  P-parts of the nodes of the search are cliques.

`ColorBossProofs` is about the boss of exactcolors with any number of workers, any
depth, any branching strategies and any number of faults; the LPs converge:

* `BossInvariant`: the inductive invariant `BossInv`.  `JobsAreAccounted` alone is not
  inductive: whether a node is open depends on its children, and the walk that collects
  finished subtrees frees nodes.  `Tree` says that the nodes in memory form a tree
  (children and parents know each other, the two branches have no child in common,
  nothing is below a finished node) whose ids `ncolordata` has counted, `Accounts` that
  the open nodes are those of the heap and those that are out, and `IsJob` what a
  worker's copy of a node is.
* `JobsAreAlwaysAccounted`: `JobsAreAccounted`.
* `SolvingInvariant`: the inductive invariant `Solving`, about what the bounds are
  worth.  Its part `Modest` holds whatever happens: no node promises fewer colours than
  the instance needs, nor does a result, so that a bound that has arrived without its
  colouring is still no lie about the instance.  Its part `Valued` holds as long as no
  result has broken off (`cut`).  There `Worth` says of a node that nothing in its subtree has fewer colours than the
  instance needs, that no bound or colouring beats the global bound, and that its lower
  bound is right unless the node is of no use (it cannot improve the global bound);
  `Lineage` that a node with children has a child with its chromatic number, unless it
  is of no use; `Quiet` that every branch that is still in memory has a node that is not
  finished, and that a node that was given out had bounds that did not meet.  Once the
  global bound is optimal some node has a colouring that is.  `Fits` says what an old
  copy of a node, in the hands of a worker, still has in common with the node.
* `OptimumIsAlwaysFound`: `OptimumIsFound`.  No node is open when a worker is sent home
  (`Left`); the deepest node with children would have one (`AllClosed`), so the root is alone and
  finished.
* `BossImplementation`: `Spec => Refinement`.  Where the bounds of the root agree, the
  global bound is optimal (`RootDecides`), although the root's colouring need not be;
  this needs `Valued`, while the bound improves and stays one of the instance by `Modest`.

`Solving` is too strong for the states inside a step, so `Sound` has a parameter: the
node at which the walk is, where there may be something left to collect, and the number
of colours of the best colouring known, which a result may lower before
`adapt_global_upper_bound` does.  Every operation has a lemma about `Sound`
(`InsertIsSound`, `CollectedIsSound`, `RemoveIsSound`, `ReportIsSound`, ...) and one step
of the boss is their composition (`ReceiveIsSound`, `SendIsSound`).  `Kept` and `KeptOld`
say what stays of the other nodes.  The one assumption on numbers is
`MaxOpt + DsaturExcess < COLORNWT_MAX`: DSATUR colours with at most as many colours as
there are vertices, an `int` like `COLORNWT_MAX`, which the model writes as 99.

The walks of the code (up the tree to raise bounds, up the tree to free subtrees, over
the children to insert them, over the heap to drop useless nodes) are recursive
functions.  `WalkExists` shows, by a least counterexample, that every walk that takes n
steps exists; each walk then has a lemma about one step and an induction over its
steps (`TriggerKeeps`, `RemoveAccounts`, `InsertAllAccounts`, `PrunedAccounts`).  While
`remove_finished_subtree` is at a node, that node alone may be unaccounted for
(`Nearly`), which is why the walk must go on until it finds a node with children.
`ReceiveGrows` says that a result is grafted where its node was.

`ColorTreeProofs` is about the sequential search in runs without a crash whose LPs
converge (`slack = 0`), with any depth, strategy and options:

* `SearchInvariant`: the inductive invariant `Searching`, which is about `crashes = 0`
  and, in its part `Right`, about `slack = 0`.  It has the `Accounts` of the boss, with nothing
  given out: the open nodes are those of the heap.  `Right` says what the values are
  worth: nothing has fewer colours than the instance needs, lower bounds do not exceed
  chromatic numbers, and what is finished cannot beat the bound of the search (`Valued`);
  a node that never had children still has the bound of its LP (`Fresh`); a node with
  children has a child with its chromatic number, unless it cannot beat the search, and
  its children are younger (`Descends`); the root's colouring fits its upper bound,
  unless that is still the given one (`Rooted`).  While the root is in the heap it is
  alone and has the bound of the search.
* `LowerBoundsAreAlwaysValid`: `LowerBoundsAreValid`.  `trigger_lb_changes` takes the
  least bound of the children in memory, from which freed ones are missing.  If a child
  with the node's chromatic number is among them, its bound is low enough; if not, the
  node is worth no less than the bound of the search, which no bound that travels up
  exceeds (`TriggerIsRight`).
* `AnswerIsExactBeforeCrash`: `crashes = 0 => AnswerIsExact`, from `Valued` and `Rooted`
  at the root.
* `OptimumIsKeptBeforeCrash`: `crashes = 0 => OptimumIsKept`.  Of the nodes with the
  chromatic number of the root the youngest has no such child (`Descends`), so it is open
  and waits in the heap.  Before a crash the search thus never depends on a colouring
  that is stored but not collected.

The bounds of the boss need other relations than these, since its nodes may be older than
its bound; the walks are the same.  What each operation does to the places of the nodes,
and that the open ones stay accounted for while bounds travel up and subtrees are freed,
is in `ColorNodesProofs` (`TriggerKeeps`, `InsertAllAccounts`, `RemoveAccounts`,
`FreedCollapses`), which both proofs extend.

## What is only model-checked

* Liveness (`Terminates` of five specifications), which is outside the proof system.
* `AnswerIsExact` and `OptimumIsKept` of `ColorTree` after a crash: what a restart finds
  depends on which files of the last step were written and how far, and the bounds of a tree that is
  put together from files of different moments need not be those of any earlier state.
* `StableSets` and the modules it uses: recursive searches and iterations of a heap are
  recursive operators there, and what they compute is a matter of induction over data,
  which the provers cannot do.
* The invariants of `Heuristics` that no run lists, and `BestIsKept`; the parts of
  `HInv` that are about the same state are theorems.

## What is not modelled

* `compact_ilp.cpp`, the output files, the loop over instances and the resume check
  of `main.cpp` (an interrupted execution may leave a stat file without a colouring,
  and is skipped when it is resumed), the counters and texts of `stats.cpp`;
* the scores of the branching rules of both solvers: any vertex of a larger P-part,
  any pair of vertices that a rule admits may be chosen; the second rule of
  exactcolors, and its option to colour greedily at the start;
* repeated edges in the input, out-of-memory outside CPLEX, the clock's values (a
  limit may strike wherever the code looks at the clock); in exactcolors the sending
  of a node over a socket, numbers that a torn file has in part, and the parsing of
  options;
* LPs that do not converge under the boss (`ColorTree` has them for one process), and
  what exactcolors does with a loop in its graph;
* an instance without P-parts (all vertices isolated): `NodeIsExact` pins down what
  it is worth, but not what CPLEX and the stable set solver answer for empty models;
* the numbers behind the duals: scaling to integers, safe bounds, tolerances of
  CPLEX; values are integers or halves, thousandths in the tree search;
* `dsatur.c` and `stable.c`, programs of their own that cfcol does not link,
  `bbsafe.c`, the wrappers of LP solvers, CPLEX, and `heur_backup.cpp`, which no file
  calls.

## What could follow

1. `AnswerIsExact` and `OptimumIsKept` of `ColorTree` after a restart: an invariant that
   relates the files on disk to the tree in memory.
2. Two crashes in `ColorTree`, with the ids of the files that the first one leaves.
3. The driver: the loop over instances, the resume check and the output files of
   `main.cpp`, with a crash between two files.
