----------------------------- MODULE ColorGraph -----------------------------
(***************************************************************************)
(* What branching does to the graph, the stable sets and the colouring of  *)
(* a node of exactcolors (exactcolors/color.c, exactcolors/graph.c).       *)
(*                                                                         *)
(* A child is its parent with two vertices contracted (same) or joined by  *)
(* an edge (differ); it inherits the parent's stable sets, cut to fit.     *)
(* The edge list of a node is thrown away while it waits and built again   *)
(* from the decisions on its path.  A colouring travels up the path.       *)
(***************************************************************************)
EXTENDS Integers, Sequences, SequencesExt, FiniteSetsExt

CONSTANTS
  NCount,      \* number of vertices of the root
  ExtraClasses \* by how many stable sets a cover may exceed the least number

ASSUME ColorGraphAssumption == NCount \in Nat \ {0} /\ ExtraClasses \in Nat

VARIABLES
  path,    \* the colordata from root_cd to the node at hand
  solved   \* has compute_lower_bound been called for the last one?

vars == <<path, solved>>

Nodes(n) == 0 .. n - 1
Edges(n) == {e \in SUBSET Nodes(n) : Cardinality(e) = 2}

Stable(S, E) == \A e \in E : ~ e \subseteq S
Neighbours(v, E) == (UNION {e \in E : v \in e}) \ {v}

(***************************************************************************)
(* Contraction of v2 into v1 < v2: the vertices behind v2 move up.         *)
(***************************************************************************)
new_eindex(v, v1, v2) ==
  IF v = v2 THEN v1 ELSE IF v > v2 THEN v - 1 ELSE v

\* COLORadjgraph_simplify: no edge twice, no loops.
Simplified(E) == {e \in E : Cardinality(e) = 2}

contract_elist(E, v1, v2) == Simplified({{new_eindex(v, v1, v2) : v \in e} : e \in E})

ContractedIds(ids, n, v2) == [v \in Nodes(n - 1) |-> ids[IF v < v2 THEN v ELSE v + 1]]

(***************************************************************************)
(* The stable sets of the children.  COLORset_unify sorts them and drops   *)
(* empty and equal ones.                                                   *)
(***************************************************************************)
prune_duplicated_sets(sets) == sets \ {{}}

\* v1 leaves the sets that touch a neighbour of v2; v2 leaves all.
transfer_same_cclasses(sets, N2, v1, v2) ==
  LET leaving(S) == {v2} \cup IF S \cap N2 # {} THEN {v1} ELSE {}
      moved(S) == {IF v < v2 THEN v ELSE v - 1 : v \in S \ leaving(S)}
      covered == \E S \in sets : v1 \in S \ leaving(S)
  IN  prune_duplicated_sets({moved(S) : S \in sets}
                            \cup IF covered THEN {} ELSE {{v1}})

\* As a slip: v2 counts as covered by a set it has just left.
transfer_differ_cclasses_any(sets, v1, v2) ==
  LET cut(S) == IF v1 \in S THEN S \ {v2} ELSE S
  IN  prune_duplicated_sets({cut(S) : S \in sets}
                            \cup IF \E S \in sets : v2 \in S THEN {} ELSE {{v2}})

\* v2 leaves the sets that have both.
transfer_differ_cclasses(sets, v1, v2) ==
  LET cut(S) == IF v1 \in S THEN S \ {v2} ELSE S
  IN  prune_duplicated_sets({cut(S) : S \in sets}
                            \cup IF \E S \in sets : v2 \in cut(S) THEN {} ELSE {{v2}})

(***************************************************************************)
(* The children.  A list that is gone is <<>>, one that is there <<list>>. *)
(* graph and names are the edge list and the ids the child is created with.*)
(***************************************************************************)
create_same(cd, v1, v2) ==
  LET E   == contract_elist(cd.elist[1], v1, v2)
      ids == ContractedIds(cd.ids[1], cd.ncount, v2)
  IN  [ncount |-> cd.ncount - 1, elist |-> <<E>>, graph |-> E,
       ids |-> <<ids>>, names |-> ids,
       kind |-> "same", v1 |-> v1, v2 |-> v2, best |-> {},
       cclasses |-> transfer_same_cclasses(cd.cclasses, Neighbours(v2, cd.elist[1]), v1, v2)]

create_differ(cd, v1, v2) ==
  LET E == cd.elist[1] \cup {{v1, v2}}
  IN  [ncount |-> cd.ncount, elist |-> <<E>>, graph |-> E,
       ids |-> cd.ids, names |-> cd.ids[1],
       kind |-> "diff", v1 |-> v1, v2 |-> v2, best |-> {},
       cclasses |-> transfer_differ_cclasses(cd.cclasses, v1, v2)]

\* As a slip: v2 is contracted with the neighbours of v1 only.
create_same_seq_neighbours(cd, v1, v2) ==
  {create_same(cd, Min({n, v2}), Max({n, v2})) :
     n \in Neighbours(v1, cd.elist[1]) \ Neighbours(v2, cd.elist[1])}

\* v2 is contracted with v1, or with a neighbour of v1 that it may share a
\* colour with.  The edges that would make these children disjoint are never
\* added: the test for it, i + 1 > degree, is never true.
create_same_seq(cd, v1, v2) ==
  {create_same(cd, v1, v2)}
  \cup {create_same(cd, Min({n, v2}), Max({n, v2})) :
          n \in Neighbours(v1, cd.elist[1]) \ Neighbours(v2, cd.elist[1])}

\* Vertices that share a stable set of the LP solution.
Candidates(cd) ==
  {p \in Nodes(cd.ncount) \X Nodes(cd.ncount) :
     p[1] < p[2] /\ \E S \in cd.cclasses : {p[1], p[2]} \subseteq S}

\* What find_strongest_children tries and create_branches creates.
Children(cd) ==
  UNION {{create_same(cd, p[1], p[2]), create_differ(cd, p[1], p[2])}
         \cup create_same_seq(cd, p[1], p[2]) : p \in Candidates(cd)}

(***************************************************************************)
(* The edge list and the vertex ids of a node, from the root down.         *)
(***************************************************************************)
Step(r, s) ==
  IF s.kind = "diff" THEN [r EXCEPT !.E = @ \cup {{s.v1, s.v2}}]
  ELSE [E |-> contract_elist(r.E, s.v1, s.v2),
        ids |-> ContractedIds(r.ids, s.ncount + 1, s.v2)]

\* As a slip: all contractions are made before any edge is added.
StepsSameFirst(cds) ==
  LET same == SelectSeq(Tail(cds), LAMBDA s : s.kind = "same")
      diff == SelectSeq(Tail(cds), LAMBDA s : s.kind = "diff")
  IN  FoldLeft(Step, [E |-> cds[1].elist[1], ids |-> [v \in Nodes(NCount) |-> v]],
               same \o diff)

Steps(cds) ==
  LET list[i \in 1 .. Len(cds)] ==
        IF i = 1 THEN [E |-> cds[1].elist[1], ids |-> [v \in Nodes(NCount) |-> v]]
        ELSE Step(list[i - 1], cds[i])
  IN  list[Len(cds)]

recover_elist(cds) ==
  LET cd == Last(cds)
      r  == Steps(cds)
  IN  IF cd.elist # <<>> THEN cd ELSE [cd EXCEPT !.elist = <<r.E>>, !.ids = <<r.ids>>]

free_elist(cd) == IF cd.kind = "root" THEN cd ELSE [cd EXCEPT !.elist = <<>>, !.ids = <<>>]

(***************************************************************************)
(* A colouring of the child becomes one of the parent.                     *)
(***************************************************************************)
\* As a slip: only the vertices behind v2 move back.
LiftedBehind(colours, child) ==
  IF child.kind = "diff" THEN colours
  ELSE {{IF v > child.v2 THEN v + 1 ELSE v : v \in S}
        \cup (IF child.v1 \in S THEN {child.v2} ELSE {}) : S \in colours}

Lifted(colours, child) ==
  IF child.kind = "diff" THEN colours
  ELSE {{IF v >= child.v2 THEN v + 1 ELSE v : v \in S}
        \cup (IF child.v1 \in S THEN {child.v2} ELSE {}) : S \in colours}

(***************************************************************************)
(* The walk: down to a complete graph, and up with its colouring.          *)
(***************************************************************************)
IsColouring(colours, n, E) ==
  /\ UNION colours = Nodes(n)
  /\ \A S \in colours : S # {} /\ Stable(S, E) /\ \A T \in colours \ {S} : S \cap T = {}

ChromaticNumber(n, E) ==
  Min({k \in 1 .. n : \E c \in [Nodes(n) -> 1 .. k] :
         \A e \in E : \E u, v \in e : c[u] # c[v]})

\* What column generation may leave in cclasses: a cover by stable sets.
Covers(n, E) ==
  LET stable == {S \in SUBSET Nodes(n) : S # {} /\ Stable(S, E)}
  IN  {C \in UNION {kSubset(k, stable) :
                      k \in 1 .. ChromaticNumber(n, E) + ExtraClasses} : UNION C = Nodes(n)}

cd == Last(path)

Init ==
  /\ \E E \in SUBSET Edges(NCount) :
       path = <<[ncount |-> NCount, elist |-> <<E>>, graph |-> E,
                 ids |-> <<[v \in Nodes(NCount) |-> v]>>,
                 names |-> [v \in Nodes(NCount) |-> v], kind |-> "root",
                 v1 |-> -1, v2 |-> -1, best |-> {}, cclasses |-> {}]>>
  /\ solved = FALSE

compute_lower_bound ==
  /\ ~solved /\ cd.elist # <<>> /\ cd.best = {}
  /\ \E C \in Covers(cd.ncount, cd.elist[1]) : path' = [path EXCEPT ![Len(path)].cclasses = C]
  /\ solved' = TRUE

\* The node waits in the heap without its edge list ...
Wait ==
  /\ solved /\ cd.best = {} /\ cd.elist # <<>> /\ cd.kind # "root"
  /\ path' = [path EXCEPT ![Len(path)] = free_elist(cd)]
  /\ UNCHANGED solved

\* ... and is taken from it.
Recover ==
  /\ cd.elist = <<>>
  /\ path' = [path EXCEPT ![Len(path)] = recover_elist(path)]
  /\ UNCHANGED solved

\* The child keeps the sets it was given until its own LP is solved.
Branch ==
  /\ solved /\ cd.best = {} /\ cd.elist # <<>>
  /\ \E child \in Children(cd) :
       path' = Append([path EXCEPT ![Len(path)] = [free_elist(cd) EXCEPT !.cclasses = {}]],
                      child)
  /\ solved' = FALSE

\* In a complete graph every set with a positive value is a single vertex.
grab_integral_solution ==
  /\ solved /\ cd.best = {} /\ cd.elist # <<>>
  /\ Candidates(cd) = {}
  /\ path' = [path EXCEPT ![Len(path)].best = cd.cclasses]
  /\ UNCHANGED solved

collect_children ==
  /\ cd.best # {} /\ Len(path) > 1
  /\ LET up == Front(path)
     IN  path' = [up EXCEPT ![Len(up)].best = Lifted(cd.best, cd)]
  /\ solved' = TRUE

Next == \/ compute_lower_bound \/ Wait \/ Recover \/ Branch
        \/ grab_integral_solution \/ collect_children

Spec == Init /\ [][Next]_vars
-----------------------------------------------------------------------------
\* What a child inherits is a cover of its graph by stable sets: its LP has a
\* solution and COLORcheck_set accepts every set.
InheritedSetsFit ==
  cd.cclasses # {} =>
    /\ UNION cd.cclasses = Nodes(cd.ncount)
    /\ \A S \in cd.cclasses : S # {} /\ Stable(S, cd.graph)

\* An edge list that was thrown away comes back as it was, in the vertex
\* numbers of the node, and so do the ids of its vertices, whatever
\* contractions and edges are on the path.
RecoveredIsOriginal ==
  cd.elist # <<>> => cd.elist[1] = cd.graph /\ cd.ids[1] = cd.names

\* Every colouring on its way up is one of the node it has reached: the check
\* in collect_same_children and collect_diff_children never fails.
CollectedIsColouring ==
  cd.best # {} => IsColouring(cd.best, cd.ncount, cd.graph)

\* Either way of branching keeps the chromatic number in one child, and lowers
\* it in none nor raises it by more than one, which ColorNodes builds on.
BranchingIsExact ==
  solved /\ cd.best = {} /\ cd.elist # <<>> =>
    \A p \in Candidates(cd) :
      LET chi(child) == ChromaticNumber(child.ncount, child.graph)
          same == create_same(cd, p[1], p[2])
          diff == create_differ(cd, p[1], p[2])
          seq  == create_same_seq(cd, p[1], p[2])
          here == ChromaticNumber(cd.ncount, cd.graph)
      IN  /\ \E child \in {same, diff} : chi(child) = here
          /\ \E child \in seq : chi(child) = here
          /\ \A child \in {same, diff} \cup seq : chi(child) \in here .. here + 1
=============================================================================
