---------------------------- MODULE LocalSearch ----------------------------
(***************************************************************************)
(* The local search for heavy stable sets of exactcolors                   *)
(* (exactcolors/mwis_grdy.c): the solution it keeps, and what the greedy   *)
(* algorithms and the improvements do to it.                               *)
(*                                                                         *)
(* A solution s is a permutation of the vertices, s.nperm: the first       *)
(* s.solcount are the stable set (the basis), the next s.freecount are     *)
(* free, the others are not; s.tightness counts the basis neighbours of a  *)
(* vertex.  The inverse permutation is not stored.                         *)
(***************************************************************************)
EXTENDS WeightedGraph, NwtHeap

CONSTANT PathNodes  \* graphs with fewer vertices are not searched for paths

ASSUME LocalSearchAssumption == PathNodes \in Nat

Basis(s) == ToSet(SubSeq(s.nperm, 1, s.solcount))
FreeList(s) == SubSeq(s.nperm, s.solcount + 1, s.solcount + s.freecount)
NonFreeList(s) == SubSeq(s.nperm, s.solcount + s.freecount + 1, NCount)
is_basis(s, v) == v \in Basis(s)
is_free(s, v) == v \in ToSet(FreeList(s))
is_onetight(s, v) == s.tightness[v] = 1

reinit_soldatas(s) ==
  [s EXCEPT !.solcount = 0, !.freecount = NCount,
            !.nperm = [i \in 1 .. NCount |-> i - 1],
            !.tightness = [v \in Vertices |-> 0]]

(***************************************************************************)
(* Vertices enter and leave the basis.                                     *)
(***************************************************************************)
swap_nodelist(s, v, w) ==
  [s EXCEPT !.nperm = [i \in 1 .. NCount |->
      IF @[i] = v THEN w ELSE IF @[i] = w THEN v ELSE @[i]]]

tighten_neighbours(s, v) ==
  LET tighten(r, k) ==
        LET t == [r EXCEPT !.tightness[k] = @ + 1]
        IN  IF is_free(r, k)
            THEN [swap_nodelist(t, k, t.nperm[t.solcount + t.freecount])
                    EXCEPT !.freecount = @ - 1]
            ELSE t
  IN  FoldLeft(tighten, s, adj[v])

\* As a slip: also a vertex of the basis is freed when it is not tight.
relax_neighbours_all(s, v) ==
  LET relax(r, k) ==
        LET t == [r EXCEPT !.tightness[k] = @ - 1]
        IN  IF t.tightness[k] = 0
            THEN [swap_nodelist(t, k, t.nperm[t.solcount + t.freecount + 1])
                    EXCEPT !.freecount = @ + 1]
            ELSE t
  IN  FoldLeft(relax, s, adj[v])

relax_neighbours(s, v) ==
  LET relax(r, k) ==
        LET t == [r EXCEPT !.tightness[k] = @ - 1]
        IN  IF t.tightness[k] = 0 /\ ~ is_basis(t, k)
            THEN [swap_nodelist(t, k, t.nperm[t.solcount + t.freecount + 1])
                    EXCEPT !.freecount = @ + 1]
            ELSE t
  IN  FoldLeft(relax, s, adj[v])

add_iff_free(s, v) ==
  IF is_free(s, v)
  THEN tighten_neighbours([swap_nodelist(s, v, s.nperm[s.solcount + 1])
         EXCEPT !.solcount = @ + 1, !.freecount = @ - 1], v)
  ELSE s

add_to_soldata(s, v) ==
  LET t == tighten_neighbours(s, v)
  IN  [swap_nodelist(t, v, t.nperm[t.solcount + 1])
         EXCEPT !.solcount = @ + 1, !.freecount = @ - 1]

remove_from_soldata(s, v) ==
  LET r == relax_neighbours(s, v)
  IN  [swap_nodelist(r, v, r.nperm[r.solcount])
         EXCEPT !.solcount = @ - 1, !.freecount = @ + 1]

(***************************************************************************)
(* perm_nwt_rquicksort: by decreasing length, with the pivot in the middle *)
(* and thus not stable.                                                    *)
(***************************************************************************)
Swapped(p, i, j) == [p EXCEPT ![i] = p[j], ![j] = p[i]]

RECURSIVE Partition(_, _, _, _)
Partition(p, len, i0, j0) ==
  LET t == len[p[1]]
      i == Min({k \in i0 + 1 .. Len(p) : len[p[k]] <= t} \cup {Max({Len(p), i0}) + 1})
      j == Max({k \in 1 .. j0 - 1 : len[p[k]] >= t})
  IN  IF j < i THEN <<Swapped(p, 1, j), i, j>>
      ELSE Partition(Swapped(p, i, j), len, i, j)

RECURSIVE perm_nwt_rquicksort(_, _)
perm_nwt_rquicksort(p, len) ==
  IF Len(p) <= 1 THEN p
  ELSE LET r == Partition(Swapped(p, 1, (Len(p) - 1) \div 2 + 1), len, 1, Len(p) + 1)
           q == r[1]
       IN  perm_nwt_rquicksort(SubSeq(q, 1, r[3] - 1), len)
           \o SubSeq(q, r[3], r[2] - 1)
           \o perm_nwt_rquicksort(SubSeq(q, r[2], Len(q)), len)

(***************************************************************************)
(* The greedy algorithms, from the start-th vertex of their order.  Only   *)
(* vertices of positive weight are added.                                  *)
(***************************************************************************)
AddPositive(s, v) == IF nweights[v] > 0 THEN add_iff_free(s, v) ELSE s

\* tries vertices of the order, from the start-th on and round; nothing if
\* that one has no weight, since the set was inspected before.
Rotated(s, order, start, tries) ==
  IF order = << >> \/ nweights[order[start + 1]] = 0 THEN s
  ELSE FoldLeft(LAMBDA r, i : AddPositive(r, order[((i + start) % Len(order)) + 1]),
                s, [k \in 1 .. tries |-> k - 1])

greedy_alg_max_nweight(s, start) ==
  Rotated(s, perm_nwt_rquicksort(FreeList(s), nweights), start, s.freecount + start)

\* The weight of the free neighbours minus that of the vertex itself.
init_greedy_neighbour_weigths(s) ==
  [s EXCEPT !.grdy = [v \in Vertices |->
     IF is_free(s, v)
     THEN Weight({u \in Neighbours(v) : is_free(s, u)}) - nweights[v]
     ELSE @[v]]]

greedy_alg_max_surplus(s, start) ==
  LET t == init_greedy_neighbour_weigths(s)
      u == [t EXCEPT !.grdy = [v \in Vertices |-> IF is_free(s, v) THEN - @[v] ELSE @[v]]]
  IN  Rotated(u, perm_nwt_rquicksort(FreeList(u), u.grdy), start, u.freecount)

\* The heap is filled from the front of the permutation, also when the front
\* is the basis; adjust_neighbors finds no free neighbour to adjust.
RECURSIVE PopAll(_, _, _)
PopAll(s, heap, start) ==
  IF heap.end = 0 THEN s
  ELSE PopAll(IF start = 0 THEN AddPositive(s, Top(heap)) ELSE s,
              COLORNWTheap_min(heap), Max({0, start - 1}))

greedy_alg_dyn_max_surplus(s, start) ==
  LET t == init_greedy_neighbour_weigths(s)
      heap == FoldLeft(LAMBDA h, v : COLORNWTheap_insert(h, t.grdy[v], v),
                       COLORNWTheap_reset(NCount), SubSeq(t.nperm, 1, t.freecount))
  IN  greedy_alg_max_surplus(PopAll(t, heap, start), 0)

Greedy(s, algorithm, start) ==
  CASE algorithm = "max_nweight"     -> greedy_alg_max_nweight(s, start)
    [] algorithm = "dyn_max_surplus" -> greedy_alg_dyn_max_surplus(s, start)
    [] algorithm = "max_surplus"     -> greedy_alg_max_surplus(s, start)

(***************************************************************************)
(* A 2-improvement takes x out of the basis and two of its one-tight       *)
(* neighbours v and w in.  The pairs are scanned in lexicographic order,   *)
(* without the first one-tight neighbour as v; the scan for w stops once   *)
(* the neighbours of v are exhausted.                                      *)
(***************************************************************************)
TightNeighbours(s, x) ==
  SelectSeq(adj[x], LAMBDA v : is_onetight(s, v) \/ is_free(s, v))

Exhausted(T, v, w) == \E u \in T \ {v} : u < w /\ \A n \in Neighbours(v) : n < u

ImprovingPairs(s, x) ==
  LET T == ToSet(TightNeighbours(s, x))
  IN  {vw \in {v \in T : \E u \in T : u < v} \X T :
        LET v == vw[1]  w == vw[2]
        IN  /\ w # v /\ w \notin Neighbours(v) /\ ~ Exhausted(T, v, w)
            /\ nweights[v] + nweights[w] > nweights[x]}

PairWeight(vw) == nweights[vw[1]] + nweights[vw[2]]

\* The first of the heaviest pairs.
BestPair(pairs) ==
  CHOOSE p \in pairs : \A q \in pairs :
    \/ PairWeight(p) > PairWeight(q)
    \/ PairWeight(p) = PairWeight(q)
       /\ (p[1] < q[1] \/ (p[1] = q[1] /\ p[2] <= q[2]))

perform_2_improvement(s, x) ==
  LET vw == BestPair(ImprovingPairs(s, x))
      t  == tighten_neighbours(tighten_neighbours(
              relax_neighbours(swap_nodelist(s, x, vw[1]), x), vw[1]), vw[2])
  IN  [swap_nodelist(t, vw[2], t.nperm[t.solcount + 1])
         EXCEPT !.solcount = @ + 1, !.freecount = @ - 1]

(***************************************************************************)
(* A 1-2 path puts v, which has two basis neighbours, into the basis       *)
(* together with the one-tight neighbours of those two that fit.           *)
(***************************************************************************)
PathRemoved(s, v) == SelectSeq(adj[v], LAMBDA y : is_basis(s, y))

\* The removed vertices are on a stack: the last one's neighbours come first.
PathAdded(s, v) ==
  LET removed == Reverse(PathRemoved(s, v))
      candidates == FlattenSeq([i \in DOMAIN removed |-> adj[removed[i]]])
      extend(path, y) ==
        IF /\ is_onetight(s, y) /\ nweights[y] > 0
           /\ \A u \in ToSet(path) : y \notin Neighbours(u)
        THEN Append(path, y) ELSE path
  IN  FoldLeft(extend, <<v>>, candidates)

IsPathStart(s, v) == NCount >= PathNodes /\ s.tightness[v] = 2 /\ nweights[v] > 0

\* As a slip: equal weight is an improvement.
PathKeeps(s, v) ==
  Weight(ToSet(PathAdded(s, v))) >= Weight(ToSet(PathRemoved(s, v)))

PathImproves(s, v) ==
  Weight(ToSet(PathAdded(s, v))) > Weight(ToSet(PathRemoved(s, v)))

perform_1_2_path(s, v) ==
  FoldLeft(add_to_soldata,
           FoldLeft(remove_from_soldata, s, PathRemoved(s, v)),
           PathAdded(s, v))

\* work_path has one entry per vertex; it holds the removed vertices from the
\* front and the added ones from the back, and the loops over them stop at
\* the first entry -1.  Without one, the removal goes on with an added vertex.
PathFillsWork(s, v) ==
  Len(PathRemoved(s, v)) + Len(PathAdded(s, v)) = NCount

\* The vertices that perform_1_2_paths tries, in its order.
PathSort(s) ==
  [s EXCEPT !.grdy = [v \in Vertices |->
     IF v \notin ToSet(NonFreeList(s)) THEN @[v]
     ELSE IF s.tightness[v] = 2 THEN nweights[v] ELSE 0]]
PathStarts(s) == perm_nwt_rquicksort(NonFreeList(s), PathSort(s).grdy)

(***************************************************************************)
(* A set that is heavy enough takes in what is still free, is stored, and  *)
(* gives back the vertices of weight zero.                                 *)
(***************************************************************************)
add_zero_weigthed(s) == FoldLeft(add_iff_free, s, FreeList(s))

remove_zero_weigthed(s) ==
  FoldLeft(remove_from_soldata, s,
           SelectSeq(SubSeq(s.nperm, 1, s.solcount), LAMBDA v : nweights[v] = 0))

(***************************************************************************)
(* COLORstable_round_down_weights: the part of the weights beyond a        *)
(* multiple of Cutoff, but for 1, is taken off without changing the bound. *)
(*                                                                         *)
(* r.w are the weights, r.lb_frac is what is left to take off; the heap    *)
(* holds vertices of positive weight by 1 + the number of their positive   *)
(* neighbours; heapref[v] is 0 when v is not in it.                        *)
(***************************************************************************)
num_weighted_neighbors(w, v) == Cardinality({u \in Neighbours(v) : w[u] > 0})

RoundingHeap(w) ==
  LET lb_frac == (Weight(Vertices) % Cutoff) - 1
      insert(r, v) ==
        IF w[v] = 0 \/ lb_frac <= 0 THEN r
        ELSE LET h == COLORNWTheap_insert(r.heap, 1 + num_weighted_neighbors(w, v), v)
             IN  [r EXCEPT !.heap = h, !.heapref[v] = h.end]
  IN  FoldLeft(insert, [w |-> w, lb_frac |-> lb_frac, heap |-> COLORNWTheap_reset(NCount),
                        heapref |-> [v \in Vertices |-> 0]],
               [i \in 1 .. NCount |-> i - 1])

decrease_nwn_of_neighbors(r, v) ==
  FoldLeft(LAMBDA q, u : IF q.heapref[u] = 0 THEN q
             ELSE [q EXCEPT !.heap = COLORNWTheap_decrease_key(
                                       q.heap, q.heapref[u], q.heap.key[q.heapref[u]] - 1)],
           r, adj[v])

\* A vertex that has no weight left leaves the heap.
Lowered(r, v, adjust) ==
  LET low  == [r EXCEPT !.w[v] = @ - adjust, !.lb_frac = @ - adjust]
      gone == IF low.heapref[v] = 0 THEN low
              ELSE [low EXCEPT !.heap = COLORNWTheap_remove(@, low.heapref[v]),
                               !.heapref[v] = 0]
  IN  IF low.w[v] > 0 THEN low ELSE decrease_nwn_of_neighbors(gone, v)

\* The same amount is taken off the vertices list[start + 1 .. end], as much
\* as the lightest has or all of them can share; then those that are still
\* heavier than v go on.  What is less than 1 for each goes to the last ones.
RECURSIVE TakeOff(_, _, _, _, _)
TakeOff(r, v, list, start, end) ==
  IF r.lb_frac <= 0 \/ start >= end THEN r
  ELSE IF r.w[list[end]] = 0 THEN r
  ELSE LET adjust == Min({r.w[list[end]], r.lb_frac \div (end - start)})
           q    == FoldLeft(LAMBDA p, u : Lowered(p, u, adjust), r,
                            SubSeq(list, start + 1, end))
           end1 == IF list[end] = v THEN end ELSE end - 1
           start1 == IF list[end] = v THEN end ELSE start
       IN  TakeOff(q, v, list, IF q.lb_frac <= end1 - start1 THEN end1 - q.lb_frac
                               ELSE start1, end1)

\* One vertex is taken from the heap, with its positive neighbours.
RoundAt(r) ==
  LET v == Top(r.heap)
      list == perm_nwt_rquicksort(<<v>> \o SelectSeq(adj[v], LAMBDA u : r.w[u] > 0), r.w)
  IN  TakeOff([r EXCEPT !.heap = COLORNWTheap_min(@), !.heapref[v] = 0], v, list, 0, Len(list))

(***************************************************************************)
(* COLORstable_round_down_weights_uniformly.                               *)
(***************************************************************************)
Positive(w) == {v \in Vertices : w[v] > 0}

\* Rounds as long as each vertex can lose 1.  The number of weighted vertices
\* and what remains are counted down inside a round.
RECURSIVE Uniformly(_, _)
Uniformly(w, remain) ==
  LET n == Cardinality(Positive(w))
      sub(v) == Min({w[v], remain \div n})
  IN  IF n > 0 /\ remain > n
      THEN Uniformly([v \in Vertices |-> w[v] - sub(v)],
                     remain - MapThenSumSet(sub, Positive(w)))
      ELSE [w |-> w, remain |-> remain]

\* The rest is taken off one by one from the first vertices.
RECURSIVE OneByOne(_, _, _)
OneByOne(w, remain, i) ==
  IF remain = 0 THEN w
  ELSE IF w[i % NCount] = 0 THEN OneByOne(w, remain, i + 1)
  ELSE OneByOne([w EXCEPT ![i % NCount] = @ - 1], remain - 1, i + 1)

\* As a slip: all of the part beyond a multiple of Cutoff is taken off.
round_down_to_multiple(w) ==
  LET u == Uniformly(w, Weight(Vertices) % Cutoff)
  IN  OneByOne(u.w, u.remain, 0)

round_down_weights_uniformly(w) ==
  LET frac == Weight(Vertices) % Cutoff
      u == Uniformly(w, IF frac > 0 THEN frac - 1 ELSE 0)
  IN  OneByOne(u.w, u.remain, 0)
=============================================================================
