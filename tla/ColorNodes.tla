----------------------------- MODULE ColorNodes -----------------------------
(***************************************************************************)
(* The nodes of the branch-and-price tree of exactcolors, the graph        *)
(* colouring solver that cfcol calls on nodes that are graph colouring     *)
(* instances (exactcolors/color.c), and what the code does to them between *)
(* two steps of the search: bounds travel up, finished subtrees are        *)
(* collected and freed, and each change is written to the backup directory *)
(* (exactcolors/color_backup.c).                                           *)
(*                                                                         *)
(* The graph of a node is abstracted to its chromatic number opt and to    *)
(* lp, its fractional chromatic number rounded up.  Contracting two        *)
(* vertices or joining them lowers neither number and raises neither by    *)
(* more than one.  compute_lower_bound finds lp if its column generation   *)
(* converges; it stops after 1000 iterations, and the bound est of the LP  *)
(* it has then may be higher, even higher than opt.                        *)
(***************************************************************************)
EXTENDS Integers, Sequences, SequencesExt, FiniteSets, FiniteSetsExt

CONSTANT
  MaxDepth   \* at this depth every graph is complete

ASSUME ColorNodesAssumption == MaxDepth \in Nat

None == -1        \* no parent
Root == 0         \* id of root_cd
COLORNWT_MAX == 99

\* The status of a colordata.
initialized             == 0
LP_bound_estimated      == 1
LP_bound_computed       == 2
submitted_for_branching == 3
finished                == 4

\* parms.branching_strategy.
dfs    == "COLOR_dfs_strategy"
hybrid == "COLOR_hybrid_strategy"
min_lb == "COLOR_min_lb_strategy"

\* A COLORproblem: nodes maps the ids of the nodes in memory to their
\* colordata, heap holds the ids in br_heap, ub is global_upper_bound, next is
\* ncolordata, strategy the branching strategy in use, and files lists the
\* backups that the current step has written.
Kids(cd) == cd.same \cup cd.diff

\* A colordata whose graph and LP are b; whole says that it has all that
\* branching on it needs, which a node read from a torn file may lack.
Colordata(parent, depth, b, ub) ==
  [parent |-> parent, depth |-> depth, status |-> b.status,
   lb |-> b.est, ub |-> ub, best |-> 0, same |-> {}, diff |-> {},
   opt |-> b.opt, lp |-> b.lp, est |-> b.est, deepFirst |-> FALSE, whole |-> TRUE]

\* What compute_lower_bound makes of a graph.  The stable set solver always
\* returns a set, so that the last iteration is reached, unless with
\* upper_bounds_only its heuristic finds none.  No bound is more than slack
\* too high; in a complete graph it is right from the start.
Relaxed(opt, lp, depth, slack, upper_bounds_only) ==
  [opt : {opt}, lp : {lp},
   est : lp .. lp + (IF depth = MaxDepth THEN 0 ELSE slack),
   status : {LP_bound_estimated} \cup
            (IF upper_bounds_only THEN {LP_bound_computed} ELSE {})]

\* Op of v, with v evaluated once: TLC would evaluate an argument wherever
\* the body of an operator uses it.
Strictly(Op(_), v) == CHOOSE r \in {Op(x) : x \in {v}} : TRUE

backup_colordata(p, i) ==
  [p EXCEPT !.files = Append(@, [id |-> i, cd |-> p.nodes[i]])]

(***************************************************************************)
(* Bounds travel up.  trigger_lb_changes walks up from a child as long as  *)
(* the smallest bound of the children still there improves the parent's.   *)
(* s.at is the node it looks at, or None when it has ended, and s.lb the   *)
(* bound of the child it comes from.                                       *)
(***************************************************************************)
RaisedBy(s, kids) ==
  LET cd  == s.p.nodes[s.at]
      new == Min({s.lb} \cup {s.p.nodes[k].lb : k \in kids})
  IN  IF new > cd.lb
      THEN [p  |-> backup_colordata([s.p EXCEPT !.nodes[s.at].lb = new], s.at),
            at |-> cd.parent, lb |-> new]
      ELSE [s EXCEPT !.at = None]

Raised(s) == IF s.at = None THEN s ELSE RaisedBy(s, Kids(s.p.nodes[s.at]))

\* As a slip: only the children of the same branch are looked at.
RaisedBySameOnly(s) ==
  IF s.at = None THEN s ELSE RaisedBy(s, s.p.nodes[s.at].same)

trigger_lb_changes_same_only(p, child) ==
  LET cd == p.nodes[child]
      up[k \in 0 .. cd.depth] ==
        IF k = 0 THEN [p |-> p, at |-> cd.parent, lb |-> cd.lb]
        ELSE Strictly(RaisedBySameOnly, up[k - 1])
  IN  up[cd.depth].p

trigger_lb_changes(p, child) ==
  LET cd == p.nodes[child]
      up[k \in 0 .. cd.depth] ==
        IF k = 0 THEN [p |-> p, at |-> cd.parent, lb |-> cd.lb]
        ELSE Strictly(Raised, up[k - 1])
  IN  up[cd.depth].p

\* The heap key is fixed here: below the root, a node inserted depth first
\* comes before every node inserted by its bound.
insert_into_branching_heap(p, i) ==
  Strictly(LAMBDA q : trigger_lb_changes(q, i),
           IF p.nodes[i].lb < p.nodes[i].ub
           THEN [p EXCEPT !.heap = @ \cup {i},
                          !.nodes[i].deepFirst = p.strategy # min_lb /\ i # Root]
           ELSE [p EXCEPT !.nodes[i].status = finished])

(***************************************************************************)
(* The nodes that may come first: the deepest of those inserted depth      *)
(* first, whose keys differ by at most a few units at one depth; then the  *)
(* nodes with the lowest bound.  A key comes from the unrounded value of   *)
(* the LP, so nodes with the same est come in any order.                   *)
(***************************************************************************)
Lowest(p, ids)  == {i \in ids : \A j \in ids : p.nodes[i].est <= p.nodes[j].est}
Deepest(p, ids) == {i \in ids : \A j \in ids : p.nodes[i].depth >= p.nodes[j].depth}

COLORNWTheap_min(p) ==
  LET early == {i \in p.heap : p.nodes[i].deepFirst}
  IN  IF early # {} THEN Deepest(p, early) ELSE Lowest(p, p.heap)

(***************************************************************************)
(* Finished subtrees are collected: the best colouring of the children     *)
(* becomes the parent's if the parent has none or it beats the parent's    *)
(* upper bound, and the children are freed, for the same branch and the    *)
(* diff branch on its own.  A node without children is finished, and its   *)
(* parent is looked at next; s.at is the node of the walk, as above.       *)
(***************************************************************************)
\* As a slip: a colouring is kept only if it beats the bound of the search.
CollectedBelowGlobal(p, i, kids) ==
  LET good == {b \in {p.nodes[k].best : k \in kids} \ {0} : b < p.ub}
  IN  IF good = {} THEN p
      ELSE [p EXCEPT !.nodes[i].best = Min(good), !.nodes[i].ub = Min(good)]

Collected(p, i, kids) ==
  LET cd   == p.nodes[i]
      kept == {p.nodes[k].best : k \in kids} \ {0}
      good == IF cd.best = 0 THEN kept ELSE {b \in kept : b < cd.ub}
  IN  IF good = {} THEN p
      ELSE [p EXCEPT !.nodes[i].best = Min(good), !.nodes[i].ub = Min(good)]

AllFinished(p, kids) ==
  /\ kids # {}
  /\ \A k \in kids : p.nodes[k].status >= finished

Freed(p, i, kids) ==
  [p EXCEPT !.nodes = [n \in DOMAIN p.nodes \ kids |->
     IF n # i THEN p.nodes[n]
     ELSE [p.nodes[i] EXCEPT !.same = @ \ kids, !.diff = @ \ kids]]]

CollectBranch(p, i, kids) ==
  IF AllFinished(p, kids) THEN Freed(Collected(p, i, kids), i, kids) ELSE p

\* Both branches of a node, and the node itself when nothing is below it.
CollectBranches(p, i) ==
  Strictly(LAMBDA q : CollectBranch(q, i, q.nodes[i].diff),
           CollectBranch(p, i, p.nodes[i].same))

Finished(p, i) == backup_colordata([p EXCEPT !.nodes[i].status = finished], i)

FinishedOrLeft(p, i) ==
  IF Kids(p.nodes[i]) # {} THEN [p |-> p, at |-> None]
  ELSE [p |-> Finished(p, i), at |-> p.nodes[i].parent]

Cleaned(s) ==
  IF s.at = None THEN s
  ELSE Strictly(LAMBDA q : FinishedOrLeft(q, s.at), CollectBranches(s.p, s.at))

remove_finished_subtree(p, i) ==
  LET n == p.nodes[i].depth + 1
      up[k \in 0 .. n] ==
        IF k = 0 THEN [p |-> p, at |-> i] ELSE Strictly(Cleaned, up[k - 1])
  IN  up[n].p

(***************************************************************************)
(* Branching.  create_branches solves the node's LP.  When no stable set   *)
(* with a positive value has two vertices, which happens in complete       *)
(* graphs, its solution is the node's best colouring.  Otherwise it makes  *)
(* one same child and one diff child, or with the option                   *)
(* branch_with_same_sequence a sequence of same children one of which      *)
(* keeps the chromatic number, and computes their bounds.                  *)
(***************************************************************************)
ChildGraphs(cd) ==
  {c \in [opt : cd.opt .. cd.opt + 1, lp : cd.lp .. cd.lp + 1] :
     c.opt - c.lp \in 0 .. MaxDepth - cd.depth - 1}

ChildBounds(cd, slack, upper_bounds_only) ==
  UNION {Relaxed(c.opt, c.lp, cd.depth + 1, slack, upper_bounds_only) :
         c \in ChildGraphs(cd)}

ChildCounts(sequence) == IF sequence THEN {<<1, 0>>, <<2, 0>>} ELSE {<<1, 1>>}

\* What the children of a node may be: the first same of them are same
\* children, the others diff children.
Branchings(cd, sequence, slack, upper_bounds_only) ==
  {kids \in UNION {[same : {n[1]},
                    bounds : [1 .. n[1] + n[2] -> ChildBounds(cd, slack, upper_bounds_only)]] :
                    n \in ChildCounts(sequence)} :
     \E k \in DOMAIN kids.bounds : kids.bounds[k].opt = cd.opt}

\* The children enter memory with the ids ncolordata counts up.
WithChildren(p, i, kids) ==
  LET cd   == p.nodes[i]
      next == p.next + Len(kids.bounds)
      ids  == p.next .. next - 1
      same == p.next .. p.next + kids.same - 1
      child(b) == Colordata(i, cd.depth + 1, b, cd.ub)
  IN  [p EXCEPT
         !.nodes = [n \in DOMAIN p.nodes \cup ids |->
                      IF n \in ids THEN child(kids.bounds[n - p.next + 1])
                      ELSE IF n = i THEN [cd EXCEPT !.same = same, !.diff = ids \ same]
                      ELSE p.nodes[n]],
         !.next = next]

\* In a complete graph the LP is worth the number of vertices.
MayBeComplete(cd) == cd.lp = cd.opt /\ cd.est = cd.opt

grab_integral_solution(p, i) ==
  LET cd == p.nodes[i]
      ub == Min({cd.ub, cd.opt})
  IN  [p EXCEPT !.nodes[i].best = cd.opt, !.nodes[i].ub = ub,
                !.nodes[i].status = IF ub = cd.lb THEN finished ELSE @]

\* The same children first, each group in the order of its array.
Ascending(ids) ==
  CHOOSE s \in [1 .. Cardinality(ids) -> ids] :
    \A j, k \in 1 .. Cardinality(ids) : j < k => s[j] < s[k]

InOrder(cd) == Ascending(cd.same) \o Ascending(cd.diff)

InsertAll(p, kids) ==
  LET after[k \in 0 .. Len(kids)] ==
        IF k = 0 THEN p
        ELSE Strictly(LAMBDA q : insert_into_branching_heap(q, kids[k]), after[k - 1])
  IN  after[Len(kids)]

\* The sequential search writes a backup after each insertion.
InsertAndBackup(p, i) ==
  Strictly(LAMBDA q : backup_colordata(q, i), insert_into_branching_heap(p, i))

InsertAndBackupAll(p, kids) ==
  LET after[k \in 0 .. Len(kids)] ==
        IF k = 0 THEN p ELSE Strictly(LAMBDA q : InsertAndBackup(q, kids[k]), after[k - 1])
  IN  after[Len(kids)]

\* As a slip: the bound that came last is taken.
adapt_global_upper_bound_always(p, ub) == [p EXCEPT !.ub = ub]

\* The hybrid strategy changes when an improved bound is near the root's.
adapt_global_upper_bound(p, ub) ==
  IF p.ub <= ub THEN p
  ELSE [p EXCEPT !.ub = ub,
                 !.strategy = IF @ = hybrid /\ ub - p.nodes[Root].lb <= 1
                              THEN min_lb ELSE @]
=============================================================================
