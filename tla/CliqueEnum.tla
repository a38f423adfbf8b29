----------------------------- MODULE CliqueEnum -----------------------------
(***************************************************************************)
(* The clique searches of exactcolors (exactcolors/cliq_enum.c), and the   *)
(* pricing that runs one of them on the complement (exactcolors/mwis.c).   *)
(*                                                                         *)
(* A graph is a record g of ncount, adj (the set of neighbours of a vertex *)
(* 0 .. ncount - 1) and weights; an answer a record of pval and the set.   *)
(***************************************************************************)
EXTENDS Integers, Sequences, SequencesExt, FiniteSetsExt

Vs(g) == 0 .. g.ncount - 1
TotalWeight(g, S) == MapThenSumSet(LAMBDA v : g.weights[v], S)
EdgeCount(g) == MapThenSumSet(LAMBDA v : Cardinality(g.adj[v]), Vs(g)) \div 2
Clique(g, S) == \A v \in S : S \ {v} \subseteq g.adj[v]

\* The first of the heaviest vertices of a list.
Heaviest(g, U) ==
  LET best == CHOOSE v \in ToSet(U) : \A u \in ToSet(U) :
                g.weights[v] > g.weights[u] \/ (g.weights[v] = g.weights[u] /\ v <= u)
  IN  [pval |-> g.weights[best], set |-> {best}]

max_weighted_node(g) == Heaviest(g, [i \in 1 .. g.ncount |-> i - 1])

(***************************************************************************)
(* The order: lightest first, and of those the one with the heaviest       *)
(* neighbourhood.  When the i-th vertex of the order is chosen, the        *)
(* neighbourhoods lose the weight of vertex i, not that of the chosen one. *)
(***************************************************************************)
max_unmarked(g, marks, sweights) ==
  CHOOSE k \in Vs(g) \ marks : \A u \in Vs(g) \ marks :
    \/ g.weights[k] < g.weights[u]
    \/ g.weights[k] = g.weights[u] /\ sweights[k] > sweights[u]
    \/ g.weights[k] = g.weights[u] /\ sweights[k] = sweights[u] /\ k <= u

ostergard_order(g) ==
  LET choose(r, i) ==
        LET k == max_unmarked(g, ToSet(r.order), r.sweights)
        IN  [order |-> Append(r.order, k),
             sweights |-> [v \in Vs(g) |-> IF v \in g.adj[k]
                                           THEN r.sweights[v] - g.weights[i]
                                           ELSE r.sweights[v]]]
  IN  FoldLeft(choose,
               [order |-> << >>, sweights |-> [v \in Vs(g) |-> TotalWeight(g, g.adj[v])]],
               [i \in 1 .. g.ncount |-> i - 1]).order

permute_nodes(g, order) ==
  [ncount |-> g.ncount,
   weights |-> [i \in Vs(g) |-> g.weights[order[i + 1]]],
   adj |-> [i \in Vs(g) |-> {j \in Vs(g) : order[j + 1] \in g.adj[order[i + 1]]}]]

\* build_directed_adj: the neighbours that come earlier, the last first.
Earlier(g, i) == SetToSortSeq({j \in g.adj[i] : j < i}, LAMBDA a, b : a > b)

(***************************************************************************)
(* The search.  C[i + 1] bounds the weight of a clique in the vertices     *)
(* 0 .. i; best is the heaviest clique so far, big its weight.             *)
(***************************************************************************)
Improved(best, pset, psum) ==
  IF psum > best.big THEN [big |-> psum, set |-> pset] ELSE best

\* As a slip: U[i] is bounded by what was found before it.
BoundedBefore(g, U, psum, C, big) ==
  \/ psum + TotalWeight(g, ToSet(U)) <= big
  \/ Head(U) > 0 /\ psum + C[Head(U)] <= big

Bounded(g, U, psum, C, big) ==
  \/ psum + TotalWeight(g, ToSet(U)) <= big
  \/ psum + C[Head(U) + 1] <= big

\* One candidate alone is treated without the bounds, which would exclude it
\* only if it is no improvement.
RECURSIVE run_ostergard(_, _, _, _, _, _)
run_ostergard(g, U, pset, psum, C, best) ==
  IF U = << >> \/ Bounded(g, U, psum, C, best.big) THEN best
  ELSE LET k    == Head(U)
           newU == SelectSeq(Earlier(g, k), LAMBDA u : u \in ToSet(Tail(U)))
           with == IF newU = << >>
                   THEN Improved(best, pset \cup {k}, psum + g.weights[k])
                   ELSE run_ostergard(g, newU, pset \cup {k}, psum + g.weights[k], C, best)
       IN  run_ostergard(g, Tail(U), pset, psum, C, with)

\* A vertex without earlier neighbours raises big, and the set stays.
main_ostergard(g, cutoff, nrbranches) ==
  LET branch(r, i) ==
        LET best == IF Earlier(g, i) = << >>
                    THEN [r.best EXCEPT !.big = Max({@, g.weights[i]})]
                    ELSE run_ostergard(g, Earlier(g, i), {i}, g.weights[i], r.C, r.best)
        IN  IF r.best.big >= cutoff \/ i >= nrbranches THEN r
            ELSE [C |-> Append(r.C, best.big), best |-> best]
  IN  FoldLeft(branch,
               [C |-> <<g.weights[0]>>, best |-> [big |-> g.weights[0], set |-> {0}]],
               [i \in 1 .. g.ncount - 1 |-> i]).best

COLORclique_ostergard(g, cutoff, nrbranches) ==
  LET order == ostergard_order(g)
      best  == main_ostergard(permute_nodes(g, order), cutoff, nrbranches)
  IN  [pval |-> best.big, set |-> {order[i + 1] : i \in best.set}]

(***************************************************************************)
(* COLORclique_enum: the first vertex with the best of its neighbours, or  *)
(* the best of the others.  U is the list of vertices left.                *)
(***************************************************************************)
RECURSIVE run_clique_enum(_, _, _)
run_clique_enum(g, U, cutoff) ==
  LET first == Head(U)
      nbrs  == SelectSeq(Tail(U), LAMBDA u : u \in g.adj[first])
      below == run_clique_enum(g, nbrs, cutoff)
      with  == IF nbrs = << >> THEN [pval |-> g.weights[first], set |-> {first}]
               ELSE [pval |-> g.weights[first] + below.pval, set |-> below.set \cup {first}]
      rest  == run_clique_enum(g, Tail(U), cutoff)
      edges == \E u, v \in ToSet(U) : u \in g.adj[v]
  IN  IF ~edges THEN Heaviest(g, U)
      ELSE IF with.pval > cutoff THEN with
      ELSE IF rest.pval > with.pval THEN rest ELSE with

COLORclique_enum(g, cutoff) ==
  run_clique_enum(g, [i \in 1 .. g.ncount |-> i - 1], cutoff)

(***************************************************************************)
(* Pricing by cliques in the complement, without the vertices of weight 0. *)
(***************************************************************************)
\* The vertices that are left, by their old numbers.
Weighted(g) == SetToSortSeq({v \in Vs(g) : g.weights[v] > 0}, <)

delete_unweighted(g) ==
  LET kept == Weighted(g)
  IN  [ncount |-> Len(kept),
       weights |-> [i \in 0 .. Len(kept) - 1 |-> g.weights[kept[i + 1]]],
       adj |-> [i \in 0 .. Len(kept) - 1 |->
                  {j \in 0 .. Len(kept) - 1 : kept[j + 1] \in g.adj[kept[i + 1]]}]]

build_complement(g) == [g EXCEPT !.adj = [v \in Vs(g) |-> Vs(g) \ (@[v] \cup {v})]]

COLORstable_clique_enum(g, cutoff) ==
  LET gc   == build_complement(delete_unweighted(g))
      best == IF EdgeCount(gc) > 0 THEN COLORclique_ostergard(gc, cutoff + 1, g.ncount)
              ELSE max_weighted_node(gc)
  IN  [pval |-> best.pval, set |-> {Weighted(g)[i + 1] : i \in best.set}]
=============================================================================
