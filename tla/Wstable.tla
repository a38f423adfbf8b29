------------------------------ MODULE Wstable ------------------------------
(***************************************************************************)
(* The branch and bound for a heaviest stable set of exactcolors           *)
(* (exactcolors/mwis_sewell/wstable.c and mwss_ext.c).                     *)
(*                                                                         *)
(* A frame is one call of wstable: the vertices active in it, the solution *)
(* it extends, and the vertices that were fixed out.  A vertex that is out *)
(* has w_in_cur_sol, the weight of its neighbours in the solution; only if *)
(* they outweigh it can the subproblem hold something new.  The lists the  *)
(* code reads neighbours from are shuffled on the way, so ties between     *)
(* neighbours are broken in any way.                                       *)
(***************************************************************************)
EXTENDS WeightedGraph

CONSTANT SparseDensity \* below this percentage cliques are maximum cliques

ASSUME WstableAssumption == SparseDensity \in 0 .. 100

VARIABLES
  frames,  \* the calls of wstable, the innermost last
  best,    \* best_z and best_sol
  goal     \* the search ends at a set of this weight

wstable_vars == <<frames, best, goal>>

Idle == frames = << >>
Within(v, A) == Neighbours(v) \cap A
Outside(list, S) == SelectSeq(list, LAMBDA v : v \notin S)
Inside(list, S) == SelectSeq(list, LAMBDA v : v \in S)
Surplus(v, A) == Weight(Within(v, A)) - nweights[v]

\* The next vertex of greedy_wstable is the first of least surplus.
RECURSIVE greedy_wstable(_)
greedy_wstable(list) ==
  IF list = << >> THEN {}
  ELSE LET v == FirstLeast(list, LAMBDA u : Surplus(u, ToSet(list)))
       IN  {v} \cup greedy_wstable(Outside(list, Neighbours(v) \cup {v}))

(***************************************************************************)
(* Cliques among the neighbours C of a vertex.                             *)
(***************************************************************************)
Least(S, f) == {v \in S : \A u \in S : f[v] <= f[u]}

\* maximal_wclique: the least remaining weight is added first.
RECURSIVE maximal_wclique(_, _)
maximal_wclique(C, remaining) ==
  IF C = {} THEN {{}}
  ELSE UNION {{{w} \cup K : K \in maximal_wclique(Within(w, C), remaining)} :
                w \in Least(C, remaining)}

\* oster_clique: extends the clique K by vertices of list, the last first.
\* ub[v] is the size of the best clique of the vertices up to v.
RECURSIVE oster_clique(_, _, _, _)
oster_clique(list, K, ub, found) ==
  IF list = << >> THEN IF Cardinality(K) > Cardinality(found) THEN K ELSE found
  ELSE LET v == Last(list)
           with == oster_clique(Inside(Front(list), Neighbours(v)), K \cup {v}, ub, found)
       IN  IF \/ Cardinality(K) + Len(list) <= Cardinality(found)
              \/ Cardinality(K) + ub[v] <= Cardinality(found)
           THEN found
           ELSE IF Len(list) = 1 THEN with ELSE oster_clique(Front(list), K, ub, with)

oster_maximum_clique(list) ==
  LET examine(r, i) ==
        LET v == list[i]
            K == oster_clique(Inside(SubSeq(list, 1, i - 1), Neighbours(v)), {v}, r.ub, r.found)
        IN  [found |-> K, ub |-> [r.ub EXCEPT ![v] = Cardinality(K)]]
  IN  FoldLeftDomain(examine, [found |-> {}, ub |-> [v \in ToSet(list) |-> 0]], list).found

maximum_clique(C) == {oster_maximum_clique(list) : list \in SetToSeqs(C)}

IsSparse == EdgeEnds * 100 < SparseDensity * MaxEnds

(***************************************************************************)
(* The cover: vertices of least remaining weight first, a clique takes the *)
(* weight of its first vertex from each of its vertices and from what is   *)
(* available.  The value is the set of possible remaining weights.         *)
(***************************************************************************)
RECURSIVE weighted_clique_cover(_, _, _)
weighted_clique_cover(remaining, A, available) ==
  LET active == {v \in A : remaining[v] > 0}
      cliques(v) == IF IsSparse THEN maximum_clique(Within(v, active))
                    ELSE maximal_wclique(Within(v, active), remaining)
      after(v, K) == [u \in DOMAIN remaining |->
                        IF u = v THEN 0
                        ELSE IF u \in K THEN remaining[u] - remaining[v] ELSE remaining[u]]
      next == {v \in Least(active, remaining) : remaining[v] <= available}
  IN  IF next = {} THEN {remaining}
      ELSE UNION {UNION {weighted_clique_cover(after(v, K), active \ {v},
                                               available - remaining[v]) :
                           K \in cliques(v)} : v \in next}

\* branch_surplus: a vertex that is not outweighed by its neighbours is alone.
branch_surplus(active, branch) ==
  LET free == SelectSeq(active, LAMBDA v : Surplus(v, ToSet(active)) <= 0)
  IN  IF Cardinality(branch) > 1 /\ free # << >> THEN {Head(free)} ELSE branch

\* branch_out: one of the neighbours of a vertex that is out has to come in.
branch_out(active, branch, out) ==
  LET degree(o) == Cardinality(Within(o.v, ToSet(active)))
      least == FirstLeast(out, degree)
  IN  IF out # << >> /\ Cardinality(branch) > degree(least)
      THEN Within(least.v, ToSet(active)) ELSE branch

\* What is covered, and behind it the branch nodes by ascending degree.
Arranged(active, branch) ==
  LET degree(v) == Cardinality(Within(v, ToSet(active)))
      of(d) == SelectSeq(active, LAMBDA v : v \in branch /\ degree(v) = d)
  IN  Outside(active, branch) \o FlattenSeq([d \in 1 .. NCount |-> of(d - 1)])

\* For a set of weight z to beat.
determine_branch_nodes(f, z) ==
  {branch_out(f.active,
     branch_surplus(f.active, {v \in ToSet(f.active) : remaining[v] > 0}), f.out) :
   remaining \in weighted_clique_cover([v \in ToSet(f.active) |-> nweights[v]],
                                       ToSet(f.active), z - f.z)}

(***************************************************************************)
(* The vertices that are out.                                              *)
(***************************************************************************)
\* As a slip: what the neighbours in the solution weigh is left out.
OutweighedByActive(f) ==
  \E i \in DOMAIN f.out : nweights[f.out[i].v] >= Weight(Within(f.out[i].v, ToSet(f.active)))

\* reorder_out finds one that its neighbours can not outweigh any more.
Outweighed(f) ==
  \E i \in DOMAIN f.out :
    LET o == f.out[i]
    IN  nweights[o.v] >= o.w_in_cur_sol + Weight(Within(o.v, ToSet(f.active)))

new_out(out, v) ==
  LET adds(o) == IF v \in Neighbours(o.v) THEN nweights[v] ELSE 0
      kept == SelectSeq(out, LAMBDA o : \/ v \notin Neighbours(o.v)
                                        \/ o.w_in_cur_sol + adds(o) <= nweights[o.v])
  IN  [i \in DOMAIN kept |-> [kept[i] EXCEPT !.w_in_cur_sol = @ + adds(kept[i])]]

(***************************************************************************)
(* One search.                                                             *)
(***************************************************************************)
Call(active, z, sol, out) ==
  [entered |-> FALSE, active |-> active, j |-> 0, last |-> 0,
   z |-> z, sol |-> sol, out |-> out]

top == Last(frames)
TopBecomes(f) == [frames EXCEPT ![Len(frames)] = f]

\* SEWELL_heur and max_wstable, for the goal COLORstable_sewell gives.
StartSearch(target) ==
  LET all == [i \in 1 .. NCount |-> i - 1]
      greedy == greedy_wstable(all)
  IN  /\ Idle
      /\ frames' = <<Call(all, 0, {}, << >>)>>
      /\ best' = [z |-> Weight(greedy), sol |-> greedy]
      /\ goal' = Min({target, Weight(Vertices)})

Better(f) == IF f.z > best.z THEN [z |-> f.z, sol |-> f.sol] ELSE best

\* A call of wstable comes back before its loop, or enters it.
EnterAndReturn ==
  /\ ~Idle /\ ~top.entered
  /\ top.active = << >> \/ Outweighed(top)
  /\ best' = Better(top)
  /\ frames' = Front(frames)
  /\ UNCHANGED goal

EnterLoop ==
  /\ ~Idle /\ ~top.entered
  /\ top.active # << >> /\ ~Outweighed(top)
  /\ best' = Better(top)
  /\ \E branch \in determine_branch_nodes(top, Better(top).z) :
       frames' = TopBecomes([top EXCEPT !.entered = TRUE,
                               !.active = Arranged(top.active, branch),
                               !.j = Len(top.active),
                               !.last = Len(top.active) - Cardinality(branch)])
  /\ UNCHANGED goal

SubActive(f) == Outside(SubSeq(f.active, 1, f.j - 1), Neighbours(f.active[f.j]))

\* stable_sub_problem, and the recursion unless its vertices are too light;
\* then the branch node is out.
Branch ==
  LET v == top.active[top.j]
      sub == SubActive(top)
      z == top.z + nweights[v]
      left == [top EXCEPT !.j = @ - 1, !.out = Append(@, [v |-> v, w_in_cur_sol |-> 0])]
  IN  /\ ~Idle /\ top.entered /\ top.j > top.last /\ best.z < goal
      /\ frames' = IF z + Weight(ToSet(sub)) > best.z
                   THEN Append(TopBecomes(left),
                               Call(sub, z, top.sol \cup {v}, new_out(top.out, v)))
                   ELSE TopBecomes(left)
      /\ UNCHANGED <<best, goal>>

Return ==
  /\ ~Idle /\ top.entered /\ ~(top.j > top.last /\ best.z < goal)
  /\ frames' = Front(frames)
  /\ UNCHANGED <<best, goal>>

Search == EnterAndReturn \/ EnterLoop \/ Branch \/ Return
-----------------------------------------------------------------------------
HeaviestIn(A) == Max({Weight(S) : S \in {T \in SUBSET A : Stable(T)}})

\* The heaviest set that a call can still find.
StillIn(f) ==
  IF ~f.entered THEN f.z + HeaviestIn(ToSet(f.active))
  ELSE Max({0} \cup {f.z + nweights[f.active[j]]
                     + HeaviestIn(ToSet(SubSeq(f.active, 1, j - 1)) \ Neighbours(f.active[j])) :
                     j \in f.last + 1 .. f.j})

\* Whatever is cut off by the bounds, by the vertices that are out and by the
\* choice of the branch nodes: as long as the goal is not reached, a heaviest
\* stable set has been found or is in a subproblem that is left.
SearchLosesNothing ==
  ~Idle /\ best.z < goal =>
    HeaviestStable <= Max({best.z} \cup {StillIn(frames[i]) : i \in DOMAIN frames})
=============================================================================
