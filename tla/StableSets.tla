----------------------------- MODULE StableSets -----------------------------
(***************************************************************************)
(* One pricing call of exactcolors, COLORstable_wrapper (exactcolors/      *)
(* mwis.c): local search for stable sets heavier than Cutoff, and if it    *)
(* finds none, rounding of the weights and an exact search.                *)
(***************************************************************************)
EXTENDS LocalSearch, CliqueEnum, Wstable

CONSTANTS
  DenseDensity, \* from this percentage on, cliques of the complement are searched
  NodeLimit,    \* MAX_NODES: with more vertices they are searched, too
  SwitchOff,    \* max_ngreedy_switchoff_fails
  Instances     \* pairs of adjacency lists and weights

ASSUME StableSetsAssumption ==
  /\ NCount > 1 /\ DenseDensity \in 0 .. 100
  /\ NodeLimit \in Nat /\ SwitchOff \in Nat
  /\ \A i \in Instances : i.weights \in [0 .. NCount - 1 -> Nat]

VARIABLES
  pc,            \* where the call is
  ngreedy_fails, \* (*env)->ngreedy_fails
  sol,           \* the solution of the local search
  cclasses,      \* the sets it has stored
  best_sval,     \* its best value so far
  ls,            \* where repeated_greedy_followed_by_ls is
  rounding,      \* where COLORstable_round_down_weights is
  newsets,       \* the sets that are returned
  objval         \* the value of an exact answer

ls_vars == <<sol, cclasses, best_sval, ls>>
vars == <<adj, nweights, wstable_vars, ls_vars, pc, ngreedy_fails, rounding, newsets, objval>>

num_transferred_sets == 5
IsThin == EdgeEnds * 100 < DenseDensity * MaxEnds
SewellIsUsed == IsThin /\ NCount <= NodeLimit
Graph == [ncount |-> NCount, weights |-> nweights, adj |-> [v \in Vertices |-> Neighbours(v)]]
NoSolution ==
  [nperm |-> [i \in 1 .. NCount |-> i - 1], tightness |-> [v \in Vertices |-> 0],
   solcount |-> 0, freecount |-> NCount, grdy |-> [v \in Vertices |-> 0]]
AtRest == [algorithm |-> "none", start |-> 0, starts |-> 0, nsoldatas |-> 0,
           i |-> 1, swapped |-> FALSE, todo |-> << >>, changed |-> FALSE]

Init ==
  /\ \E i \in Instances : adj = i.adj /\ nweights = i.weights
  /\ ngreedy_fails \in 0 .. SwitchOff
  /\ pc = "called"
  /\ sol = NoSolution /\ cclasses = << >> /\ best_sval = 0 /\ ls = AtRest
  /\ rounding = [w |-> nweights, lb_frac |-> 0, heap |-> COLORNWTheap_reset(NCount),
                 heapref |-> [v \in Vertices |-> 0]]
  /\ frames = << >> /\ best = [z |-> 0, sol |-> {}] /\ goal = 0
  /\ newsets = {} /\ objval = 0

(***************************************************************************)
(* The order of the parts of the call.                                     *)
(***************************************************************************)
\* Rounding first, if it is forced.
Begin ==
  /\ pc = "called"
  /\ \/ pc' = "local search" /\ UNCHANGED rounding
     \/ pc' = "forced rounding" /\ rounding' = RoundingHeap(nweights)
  /\ UNCHANGED <<adj, nweights, wstable_vars, ls_vars, ngreedy_fails, newsets, objval>>

\* After it, or before the exact search.
Round ==
  /\ pc \in {"forced rounding", "rounding"}
  /\ IF rounding.lb_frac > 0 /\ rounding.heap.end > 0
     THEN /\ rounding' = RoundAt(rounding)
          /\ nweights' = rounding'.w
          /\ UNCHANGED pc
     ELSE /\ pc' = IF pc = "rounding" THEN "exact" ELSE "local search"
          /\ UNCHANGED <<nweights, rounding>>
  /\ UNCHANGED <<adj, wstable_vars, ls_vars, ngreedy_fails, newsets, objval>>

\* COLORstable_LS, unless the graph is dense or it has failed too often.
StartLS ==
  /\ pc = "local search"
  /\ IF IsThin /\ ngreedy_fails < SwitchOff
     THEN /\ pc' = "start"
          /\ sol' = reinit_soldatas(sol) /\ cclasses' = << >> /\ best_sval' = 0
          /\ ls' = [AtRest EXCEPT !.algorithm = "max_nweight", !.starts = NCount]
     ELSE pc' = "result" /\ UNCHANGED ls_vars
  /\ UNCHANGED <<adj, nweights, wstable_vars, ngreedy_fails, rounding, newsets, objval>>

\* The last sets are transferred, or the weights are rounded for the search.
Result ==
  /\ pc = "result"
  /\ \/ /\ cclasses # << >>
        /\ newsets' = ToSet(SubSeq(cclasses, Max({1, Len(cclasses) - num_transferred_sets + 1}),
                                   Len(cclasses)))
        /\ cclasses' = << >>
        /\ ngreedy_fails' = 0
        /\ pc' = "done"
        /\ UNCHANGED <<nweights, rounding>>
     \/ /\ cclasses = << >> /\ IsThin  \* greedy_only
        /\ pc' = "done"
        /\ UNCHANGED <<nweights, rounding, cclasses, newsets, ngreedy_fails>>
     \/ /\ cclasses = << >>
        /\ ngreedy_fails' = ngreedy_fails + 1
        /\ \/ pc' = "exact" /\ UNCHANGED <<nweights, rounding>>
           \/ pc' = "exact" /\ nweights' = round_down_weights_uniformly(nweights)
              /\ UNCHANGED rounding
           \/ pc' = "rounding" /\ rounding' = RoundingHeap(nweights) /\ UNCHANGED nweights
        /\ UNCHANGED <<cclasses, newsets>>
  /\ UNCHANGED <<adj, wstable_vars, sol, best_sval, ls, objval>>

\* COLORstable_sewell, or COLORstable_clique_enum in dense and large graphs.
\* What they find is returned whether it is heavier than Cutoff or not.
StartExact ==
  /\ pc = "exact" /\ SewellIsUsed
  /\ StartSearch(Cutoff + 1)
  /\ pc' = "sewell"
  /\ UNCHANGED <<adj, nweights, ls_vars, ngreedy_fails, rounding, newsets, objval>>

Sewell ==
  /\ pc = "sewell" /\ Search
  /\ UNCHANGED <<adj, nweights, pc, ls_vars, ngreedy_fails, rounding, newsets, objval>>

EndExact ==
  /\ pc = "sewell" /\ Idle
  /\ newsets' = {best.sol} /\ objval' = Weight(best.sol)
  /\ pc' = "done"
  /\ UNCHANGED <<adj, nweights, wstable_vars, ls_vars, ngreedy_fails, rounding>>

EnumerateCliques ==
  /\ pc = "exact" /\ ~SewellIsUsed
  /\ LET answer == COLORstable_clique_enum(Graph, Cutoff)
     IN  newsets' = {answer.set} /\ objval' = answer.pval
  /\ pc' = "done"
  /\ UNCHANGED <<adj, nweights, wstable_vars, ls_vars, ngreedy_fails, rounding>>

(***************************************************************************)
(* repeated_greedy_followed_by_ls, for one greedy algorithm after another. *)
(***************************************************************************)
Unsearched == UNCHANGED <<adj, nweights, wstable_vars, ngreedy_fails, rounding, newsets, objval>>

\* Fewer starts for sparse graphs, and fewer once there are sets.
Thinned(n) == IF EdgeEnds * 20 < MaxEnds THEN (n * EdgeEnds) \div MaxEnds ELSE n
Starts == IF cclasses = << >> THEN NCount ELSE Thinned(NCount \div 20)

NextAlgorithm ==
  /\ pc = "start" /\ ls.start >= ls.starts
  /\ \E a \in {"dyn_max_surplus", "max_surplus"} :
       /\ IF ls.algorithm = "max_nweight" THEN a = "dyn_max_surplus"
          ELSE ls.algorithm = "dyn_max_surplus" /\ cclasses = << >> /\ a = "max_surplus"
       /\ ls' = [AtRest EXCEPT !.algorithm = a, !.starts = Starts, !.nsoldatas = Len(cclasses)]
  /\ UNCHANGED <<pc, sol, cclasses, best_sval>> /\ Unsearched

EndLS ==
  /\ pc = "start" /\ ls.start >= ls.starts
  /\ ls.algorithm = "max_surplus" \/ (ls.algorithm = "dyn_max_surplus" /\ cclasses # << >>)
  /\ pc' = "result"
  /\ UNCHANGED ls_vars /\ Unsearched

\* A greedy solution, unless it is empty.
Start ==
  LET greedy == Greedy(reinit_soldatas(sol), ls.algorithm, ls.start)
  IN  /\ pc = "start" /\ ls.start < ls.starts
      /\ sol' = greedy
      /\ IF greedy.solcount = 0
         THEN ls' = [ls EXCEPT !.start = @ + 1] /\ UNCHANGED pc
         ELSE /\ ls' = [ls EXCEPT !.i = 1, !.swapped = FALSE, !.changed = FALSE]
              /\ pc' = "2-improvements"
      /\ UNCHANGED <<cclasses, best_sval>> /\ Unsearched

\* The basis is scanned on from where the last improvement was made.
Improvable == {i \in ls.i .. sol.solcount : ImprovingPairs(sol, sol.nperm[i]) # {}}

TwoImprovement ==
  LET i == Min(Improvable)
  IN  /\ pc = "2-improvements" /\ Improvable # {}
      /\ sol' = perform_2_improvement(sol, sol.nperm[i])
      /\ ls' = [ls EXCEPT !.i = i, !.swapped = TRUE]
      /\ UNCHANGED <<pc, cclasses, best_sval>> /\ Unsearched

\* Another scan if there was one, else the paths.
EndOfScan ==
  /\ pc = "2-improvements" /\ Improvable = {}
  /\ IF ls.swapped
     THEN /\ sol' = Greedy(sol, ls.algorithm, 0)
          /\ ls' = [ls EXCEPT !.i = 1, !.swapped = FALSE, !.changed = TRUE]
          /\ UNCHANGED pc
     ELSE /\ sol' = PathSort(sol)
          /\ ls' = [ls EXCEPT !.todo = PathStarts(sol)]
          /\ pc' = "1-2-paths"
  /\ UNCHANGED <<cclasses, best_sval>> /\ Unsearched

Replaceable ==
  {i \in DOMAIN ls.todo : IsPathStart(sol, ls.todo[i]) /\ PathImproves(sol, ls.todo[i])}

\* The assertion of remove_from_soldata stops the program when the path has
\* no end marker.
Path ==
  LET i == Min(Replaceable)
      v == ls.todo[i]
  IN  /\ pc = "1-2-paths" /\ Replaceable # {}
      /\ IF PathFillsWork(sol, v)
         THEN pc' = "aborted" /\ UNCHANGED <<sol, ls>>
         ELSE /\ sol' = perform_1_2_path(sol, v)
              /\ ls' = [ls EXCEPT !.todo = SubSeq(@, i + 1, Len(@)), !.swapped = TRUE]
              /\ UNCHANGED pc
      /\ UNCHANGED <<cclasses, best_sval>> /\ Unsearched

\* From the beginning if anything has changed, else the set is looked at.
EndOfPaths ==
  /\ pc = "1-2-paths" /\ Replaceable = {}
  /\ sol' = IF ls.swapped THEN Greedy(sol, ls.algorithm, 0) ELSE sol
  /\ pc' = IF ls.swapped \/ ls.changed THEN "2-improvements" ELSE "inspect"
  /\ ls' = [ls EXCEPT !.i = 1, !.swapped = FALSE, !.changed = FALSE]
  /\ UNCHANGED <<cclasses, best_sval>> /\ Unsearched

\* inspect_soldata, and fewer starts after a new set.
Inspect ==
  LET sval == Weight(Basis(sol))
      full == add_zero_weigthed(sol)
      new  == sval > Cutoff /\ sval > best_sval
  IN  /\ pc = "inspect"
      /\ best_sval' = Max({best_sval, sval})
      /\ IF new
         THEN /\ cclasses' = Append(cclasses, Basis(full))
              /\ sol' = remove_zero_weigthed(full)
         ELSE UNCHANGED <<cclasses, sol>>
      /\ ls' = IF Len(cclasses') > ls.nsoldatas
               THEN [ls EXCEPT !.start = @ + 1, !.nsoldatas = Len(cclasses'),
                               !.starts = Thinned((@ * 6667) \div 10000)]
               ELSE [ls EXCEPT !.start = @ + 1]
      /\ pc' = "start"
      /\ Unsearched

\* The call has returned, or the program has been stopped.
Ends == {"done", "aborted"}
Ended == pc \in Ends /\ UNCHANGED vars

LS == \/ NextAlgorithm \/ EndLS \/ Start \/ TwoImprovement \/ EndOfScan
      \/ Path \/ EndOfPaths \/ Inspect

Next == \/ Begin \/ Round \/ StartLS \/ LS \/ Result
        \/ StartExact \/ Sewell \/ EndExact \/ EnumerateCliques \/ Ended

\* The call runs until it returns: weak fairness of Next, with the states in
\* which a step can change something written out (the absence of deadlocks
\* shows that they are these).
Runs == []<>(pc \in Ends) \/ []<><<Next>>_vars
Spec == Init /\ [][Next]_vars /\ Runs
-----------------------------------------------------------------------------
(***************************************************************************)
(* What has to hold.                                                       *)
(***************************************************************************)
\* After any sequence of insertions, swaps and paths, the counters that are
\* updated neighbour by neighbour still fit the set: the permutation is one,
\* the basis is stable, the tightness of a vertex is the number of its
\* neighbours in the basis, and the free vertices are those of tightness 0.
SolutionIsConsistent ==
  /\ ToSet(sol.nperm) = Vertices
  /\ Stable(Basis(sol))
  /\ \A v \in Vertices :
       /\ sol.tightness[v] = Cardinality(Neighbours(v) \cap Basis(sol))
       /\ is_free(sol, v) <=> v \notin Basis(sol) /\ sol.tightness[v] = 0

\* The comment of COLORstable_round_down_weights: rounding lowers weights and
\* does not change the integral lower bound ceil(sum of the weights / Cutoff).
BoundOf(w) == (MapThenSumSet(LAMBDA v : w[v], Vertices) + Cutoff - 1) \div Cutoff
BoundIsKept ==
  [][/\ BoundOf(nweights') = BoundOf(nweights)
     /\ \A v \in Vertices : nweights'[v] \in 0 .. nweights[v]]_nweights

\* While the weights are rounded, vertices leave the heap and others get new
\* keys: the heap stays in order, holds only vertices that have weight, each
\* where heapref says, by 1 + the number of its neighbours that have weight.
HeapFits ==
  pc \in {"forced rounding", "rounding"} =>
    LET h == rounding.heap
    IN  /\ InHeapOrder(h)
        /\ \A v \in Vertices : rounding.heapref[v] # 0 =>
             LET href == rounding.heapref[v]
             IN  /\ nweights[v] > 0 /\ h.obj[href] = v /\ iperm(h, href) <= h.end
                 /\ h.key[href] = 1 + num_weighted_neighbors(nweights, v)
        /\ h.end = Cardinality({v \in Vertices : rounding.heapref[v] # 0})

\* What a call returns: stable sets; from the local search only sets that are
\* heavier than Cutoff; from the search of Sewell a heaviest one, or one that
\* is heavier than Cutoff.  The clique searches find the heaviest value, or one
\* above Cutoff, but the set that comes with it is the heaviest of those with
\* several vertices, if there are any: a vertex alone may be heavier.
Several == {S \in SUBSET {v \in Vertices : nweights[v] > 0} : Stable(S) /\ Cardinality(S) > 1}
IsHeaviest(S) == Weight(S) = HeaviestStable
PricingIsExact ==
  pc = "done" =>
    /\ \A S \in newsets : Stable(S) /\ S # {}
    /\ objval = 0 => \A S \in newsets : Weight(S) > Cutoff
    /\ objval # 0 => IF HeaviestStable > Cutoff THEN objval > Cutoff
                     ELSE objval = HeaviestStable
    /\ objval # 0 => \A S \in newsets :
         \/ Weight(S) > Cutoff
         \/ SewellIsUsed /\ IsHeaviest(S)
         \/ /\ ~SewellIsUsed
            /\ IF Several = {} THEN IsHeaviest(S)
               ELSE \/ S \in Several /\ Weight(S) = Max({Weight(T) : T \in Several})
                    \/ \E v \in Vertices : nweights[v] > Cutoff

\* COLORclique_enum and COLORclique_ostergard agree with the definition of a
\* heaviest clique of positive weight, unless they stop beyond the cutoff.
HeaviestClique == Max({TotalWeight(Graph, S) : S \in {T \in SUBSET Vertices : Clique(Graph, T)}})
CliquesAreHeaviest ==
  pc = "called" =>
    \A answer \in {COLORclique_enum(Graph, Cutoff),
                   COLORclique_ostergard(Graph, Cutoff + 1, NCount)} :
      IF HeaviestClique > Cutoff THEN answer.pval > Cutoff ELSE answer.pval = HeaviestClique

\* The call returns: the improvements do not undo each other for ever, and
\* the searches end.
Terminates == <>(pc = "done")

\* "-pval returns the weight of the clique (can be NULL)" (cliq_enum.c, of
\* COLORclique_enum and COLORclique_ostergard): the value of an answer is the
\* weight of the set that comes with it.
OsterValueIsWeight ==
  pc = "done" /\ objval # 0 => \A S \in newsets : Weight(S) = objval

\* assert(is_basis(sol,v)) in remove_from_soldata: a path removes only
\* vertices of the basis.
RemovedAreInBasis == pc # "aborted"
=============================================================================
