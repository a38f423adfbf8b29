------------------------------ MODULE ColorTree -----------------------------
(***************************************************************************)
(* The sequential search of exactcolors: COLORexact_coloring and           *)
(* sequential_branching (exactcolors/color.c), with the backup directory   *)
(* of the option -b (exactcolors/color_backup.c), called by the program    *)
(* color (exactcolors/color_main.c) or by cfcol (LP::gcp_solve).           *)
(*                                                                         *)
(* One step takes one node from the branching heap and does everything     *)
(* that follows from it.  A step writes backups in an order; a crash keeps *)
(* a prefix of them and may tear the next one.  A restart reads what is    *)
(* left.  Whether the LPs of a run converge before the last iteration is   *)
(* settled when it starts: slack says how far their bounds may be off.     *)
(***************************************************************************)
EXTENDS ColorNodes

CONSTANTS
  MaxOpt,        \* bound on the chromatic number of the instance
  DsaturExcess,  \* by how much DSATUR may miss it
  MaxSlack,      \* by how much the bound of an LP may be too high
  Parms,         \* the COLORparms the program is started with
  MaxCrashes     \* bound on the crashes

ASSUME ColorTreeAssumption ==
  /\ MaxOpt \in Nat /\ MaxOpt >= 3
  /\ DsaturExcess \in Nat /\ MaxSlack \in Nat
  /\ Parms \subseteq [initial_upper_bound : 1 .. COLORNWT_MAX,
                      strategy : {dfs, hybrid, min_lb}, same_sequence : BOOLEAN,
                      upper_bounds_only : BOOLEAN, backupdir : BOOLEAN]
  /\ MaxCrashes \in Nat

VARIABLES
  parms,    \* the COLORparms that matter
  slack,    \* by how much bounds may be too high: 0 if all LPs converge
  problem,  \* the COLORproblem in memory
  disk,     \* the backup directory before the last step: id -> colordata
  pc,       \* "search", then "done"; "aborted" by an assertion, "broken" when
            \* it works on what it could not read, whatever it answers then
  limit,    \* has the cpu limit ended the search?
  crashes,  \* number of crashes so far
  torn      \* has a crash left a file that lacks its colouring or cannot be read?

vars == <<parms, slack, problem, disk, pc, limit, crashes, torn>>

root == problem.nodes[Root]
chi == root.opt

(***************************************************************************)
(* The start: DSATUR colours the root, the smaller of its value and the    *)
(* given bound is the upper bound, and the root's LP gives the lower one.  *)
(***************************************************************************)
init_root_colordata(b, dsatur, given) ==
  LET ub == Min({dsatur, given}) IN
  insert_into_branching_heap(
    [nodes |-> [n \in {Root} |-> [Colordata(None, 0, b, ub) EXCEPT !.best = dsatur]],
     heap |-> {}, ub |-> ub, next |-> 1, strategy |-> parms.strategy,
     files |-> <<>>],
    Root)

Started(b, dsatur) == init_root_colordata(b, dsatur, parms.initial_upper_bound)

RootBounds(opt, lp) == Relaxed(opt, lp, 0, slack, parms.upper_bounds_only)

Init ==
  /\ parms \in Parms /\ slack \in {0, MaxSlack}
  /\ \E opt \in 3 .. MaxOpt, excess \in 0 .. DsaturExcess :
       \E lp \in Max({3, opt - MaxDepth}) .. opt :  \* no graph here is bipartite
       \E b \in RootBounds(opt, lp) : problem = Started(b, opt + excess)
  /\ disk = <<>>
  /\ pc = "search" /\ limit = FALSE /\ crashes = 0 /\ torn = FALSE

(***************************************************************************)
(* The backup directory, which is left out of the state when no crash may  *)
(* follow any more.                                                        *)
(***************************************************************************)
Written(d, files) ==
  FoldLeft(LAMBDA e, f : (f.id :> f.cd) @@ e, d, files)

Stored(d) == IF parms.backupdir /\ crashes' < MaxCrashes THEN d ELSE <<>>

(***************************************************************************)
(* One turn of sequential_branching.                                       *)
(***************************************************************************)
Taken(i) ==
  [problem EXCEPT !.heap = @ \ {i}, !.nodes[i].ub = problem.ub, !.files = <<>>]

Turn(i) ==
  /\ pc = "search" /\ i \in COLORNWTheap_min(problem)
  /\ UNCHANGED <<parms, slack, limit, crashes, torn>>
  /\ disk' = Stored(Written(disk, problem.files))

\* A bound found since the node was inserted makes it useless.
Skip(i) ==
  /\ Turn(i)
  /\ \E p \in {Taken(i)} :
       /\ p.nodes[i].lb >= p.nodes[i].ub
       /\ problem' =
            remove_finished_subtree([p EXCEPT !.nodes[i].status = finished], i)
  /\ UNCHANGED pc

\* A node whose file was torn before its stable sets has its LP solved by
\* create_branches.
Resolved(p, i) ==
  LET cd == p.nodes[i] IN
  IF cd.whole THEN {p}
  ELSE {[p EXCEPT !.nodes[i] = [@ EXCEPT !.lb = b.est, !.est = b.est, !.status = b.status,
                                         !.whole = TRUE]] :
        b \in Relaxed(cd.opt, cd.lp, cd.depth, slack, parms.upper_bounds_only)}

\* After the children are made or the colouring is grabbed.
Closed(p, i) ==
  LET cd    == p.nodes[i]
      up(q) == IF cd.lb = cd.ub THEN remove_finished_subtree(q, i) ELSE q
  IN  Strictly(up, adapt_global_upper_bound(backup_colordata(p, i), cd.ub))

\* sequential_branching asserts that the bounds of the node have not crossed.
Closes(p, i) ==
  IF p.nodes[i].lb <= p.nodes[i].ub
  THEN problem' = Closed(p, i) /\ pc' = pc
  ELSE problem' = backup_colordata(p, i) /\ pc' = "aborted"

\* Branching on a node other than the root needs its decision, too.
Branchable(i) == problem.nodes[i].whole \/ i = Root

Solve(i) ==
  /\ Turn(i) /\ Branchable(i)
  /\ \E p \in {Taken(i)} :
       /\ p.nodes[i].lb < p.nodes[i].ub
       /\ \E r \in Resolved(p, i) :
            /\ MayBeComplete(r.nodes[i])
            /\ \E q \in {grab_integral_solution(r, i)} : Closes(q, i)

Branch(i) ==
  /\ Turn(i) /\ Branchable(i)
  /\ problem.nodes[i].depth < MaxDepth
  /\ \E p \in {Taken(i)} :
       /\ p.nodes[i].lb < p.nodes[i].ub
       /\ \E s \in Resolved(p, i) :
          \E kids \in Branchings(s.nodes[i], parms.same_sequence, slack,
                                 parms.upper_bounds_only) :
          \E q \in {WithChildren(s, i, kids)} :
          \E r \in {InsertAndBackupAll(q, InOrder(q.nodes[i]))} : Closes(r, i)

\* recover_elist cannot follow a path without the decision of a node.
Break(i) ==
  /\ Turn(i) /\ ~Branchable(i)
  /\ problem' = Taken(i)
  /\ problem'.nodes[i].lb < problem'.nodes[i].ub
  /\ pc' = "broken"

\* The loop takes a node before it looks at the clock.
TimeLimit ==
  /\ pc = "search" /\ problem.heap # {}
  /\ limit' = TRUE /\ pc' = "done"
  /\ UNCHANGED <<parms, slack, problem, disk, crashes, torn>>

\* As a slip: the search ends when the gap is closed.
EmptyHeapWhenClosed ==
  /\ pc = "search" /\ problem.heap = {}
  /\ problem.nodes[Root].lb = problem.nodes[Root].ub
  /\ pc' = "done"
  /\ UNCHANGED <<parms, slack, problem, disk, limit, crashes, torn>>

EmptyHeap ==
  /\ pc = "search" /\ problem.heap = {}
  /\ pc' = "done"
  /\ UNCHANGED <<parms, slack, problem, disk, limit, crashes, torn>>

(***************************************************************************)
(* A crash and the restart after it.  A file is renamed before its new     *)
(* version is written: a crash in between leaves none, a crash while it is *)
(* written leaves its beginning.  After the graph come the lower bound,    *)
(* the upper bound, the stable sets, the colouring, the decision and the   *)
(* children; init_colordata has given what is missing its first value.  A  *)
(* file cut elsewhere cannot be read.  A node whose file is missing stays  *)
(* initialized.                                                            *)
(***************************************************************************)
Beginnings(cd) ==
  LET cut == [cd EXCEPT !.same = {}, !.diff = {}, !.best = 0] IN
  {[cut EXCEPT !.whole = FALSE, !.lb = b[1], !.ub = b[2]] :
     b \in {<<1, COLORNWT_MAX>>, <<cd.lb, COLORNWT_MAX>>, <<cd.lb, cd.ub>>}}
  \cup {[cut EXCEPT !.whole = cd.parent = None],
        [cut EXCEPT !.best = cd.best, !.whole = cd.parent = None],
        [cut EXCEPT !.best = cd.best],
        [cd EXCEPT !.diff = {}]}

Unread(parent) ==
  Colordata(parent, 0, [opt |-> 0, lp |-> 0, est |-> 1, status |-> initialized], COLORNWT_MAX)

Disks ==
  LET files == problem.files
      d(k)  == Written(disk, SubSeq(files, 1, k))
  IN  {[disk |-> d(k), torn |-> FALSE] : k \in 0 .. Len(files)}
      \cup UNION {LET f == files[k + 1] IN
                  {[disk |-> [i \in DOMAIN d(k) \ {f.id} |-> d(k)[i]], torn |-> FALSE]}
                  \cup {[disk |-> (f.id :> cd) @@ d(k), torn |-> cd.best # f.cd.best] :
                        cd \in Beginnings(f.cd)} :
                  k \in 0 .. Len(files) - 1}

read_colordata_from_file(d) ==
  LET read[i \in Nat, parent \in Int] ==
        IF i \in DOMAIN d
        THEN FoldSet(LAMBDA k, n : read[k, i] @@ n,
                     (i :> [d[i] EXCEPT !.parent = parent]), Kids(d[i]))
        ELSE (i :> Unread(parent))
  IN  read[Root, None]

Descendants(p, i) ==
  LET below[n \in Nat] ==
        Kids(p.nodes[n]) \cup UNION {below[k] : k \in Kids(p.nodes[n])}
  IN  below[i]

\* The search starts again at every node whose branching is not complete on
\* disk, and its children are forgotten.
MustRestart(p, i) ==
  LET cd == p.nodes[i] IN
  /\ cd.status < finished
  /\ \/ cd.same = {} \/ cd.diff = {}
     \/ \E k \in Kids(cd) : p.nodes[k].status < LP_bound_computed

Revisited(p, i) ==
  LET counted == [p EXCEPT !.next = Max({@, i + 1})]
      below   == Descendants(p, i)
      forget(q) == Freed([q EXCEPT !.nodes = [n \in (DOMAIN @ \ below) \cup Kids(@[i]) |-> @[n]]],
                         i, Kids(q.nodes[i]))
  IN  IF MustRestart(p, i)
      THEN Strictly(forget, insert_into_branching_heap(counted, i))
      ELSE counted

\* A node comes before its children, which are left out where the search
\* starts again.
prefill_heap(p) ==
  LET visits[i \in Nat] ==
        <<i>> \o IF MustRestart(p, i) THEN <<>>
                 ELSE FlattenSeq([k \in DOMAIN InOrder(p.nodes[i]) |-> visits[InOrder(p.nodes[i])[k]]])
      order == visits[Root]
      after[k \in 0 .. Len(order)] ==
        IF k = 0 THEN p ELSE Strictly(LAMBDA q : Revisited(q, order[k]), after[k - 1])
  IN  after[Len(order)]

recover_colordata(d) ==
  [nodes |-> read_colordata_from_file(d), heap |-> {}, ub |-> d[Root].ub, next |-> 1,
   strategy |-> parms.strategy, files |-> <<>>]

\* The root's LP is solved again unless its bound was computed, by a program
\* started with upper_bounds_only, or it is finished; its old children are
\* overwritten when it is branched on.  The LP of a root that has its stable
\* sets does not get worse.
Restarts(p) ==
  LET cd == p.nodes[Root] IN
  IF cd.status >= LP_bound_computed THEN {prefill_heap(p)}
  ELSE {insert_into_branching_heap(
          [p EXCEPT !.nodes = [n \in {Root} |->
                                 [Colordata(None, 0, b, cd.ub) EXCEPT !.best = cd.best]]],
          Root) :
        b \in {b \in RootBounds(cd.opt, cd.lp) : cd.whole => b.est <= cd.est}}

\* Without a root file the search starts from the beginning.
Crash ==
  /\ pc = "search" /\ parms.backupdir /\ crashes < MaxCrashes
  /\ crashes' = crashes + 1
  /\ \E left \in Disks :
       /\ disk' = Stored(left.disk)
       /\ torn' = (torn \/ left.torn)
       /\ IF Root \notin DOMAIN left.disk
          THEN \E excess \in 0 .. DsaturExcess, b \in RootBounds(chi, root.lp) :
                 problem' = Started(b, chi + excess)
          ELSE \E p \in Restarts(recover_colordata(left.disk)) : problem' = p
  /\ UNCHANGED <<parms, slack, pc, limit>>

\* The file that was being written cannot be read: its graph is incomplete, a
\* line ends early, or only the number of its sets is known.  Nobody looks at
\* the result of the recovery: the program fails, or goes on with what it has.
CrashUnreadable ==
  /\ pc = "search" /\ parms.backupdir /\ crashes < MaxCrashes
  /\ problem.files # <<>>
  /\ crashes' = crashes + 1
  /\ pc' = "broken" /\ torn' = TRUE
  /\ UNCHANGED <<parms, slack, problem, disk, limit>>

Next ==
  \/ \E i \in problem.heap : Skip(i) \/ Solve(i) \/ Branch(i) \/ Break(i)
  \/ TimeLimit \/ EmptyHeap \/ Crash \/ CrashUnreadable

\* The loop keeps turning: it stops only at the limit.
Fairness ==
  WF_vars(EmptyHeap \/ \E i \in problem.heap : Skip(i) \/ Solve(i) \/ Branch(i) \/ Break(i))

Spec == Init /\ [][Next]_vars /\ Fairness
-----------------------------------------------------------------------------
(***************************************************************************)
(* What color and gcp_solve conclude from the root, and what it rests on.  *)
(***************************************************************************)
Solved == pc = "done" /\ root.lb = root.ub

\* The tree in memory hangs together: insertion, collection and recovery keep
\* the two child arrays of a node and the parent pointers in step, and only
\* unfinished leaves wait in the heap.
TypeOK ==
  /\ problem.heap \subseteq DOMAIN problem.nodes
  /\ \A i \in DOMAIN problem.nodes : LET cd == problem.nodes[i] IN
       /\ cd.same \cap cd.diff = {}
       /\ \A k \in Kids(cd) : /\ k \in DOMAIN problem.nodes
                              /\ problem.nodes[k].parent = i
       /\ cd.parent # None => i \in Kids(problem.nodes[cd.parent])
       /\ i \in problem.heap => Kids(cd) = {} /\ cd.status < finished

\* What color prints as "Opt Colors", and gcp_solve takes for an optimal
\* colouring, when the bounds of the root meet: a colouring of that size which
\* is optimal, or, if no better one than the given bound exists, just one.
OptColorsIsOptimal ==
  Solved => \/ root.best = chi
            \/ chi >= parms.initial_upper_bound /\ root.best >= chi

\* If the LPs of the run converge, "Opt Colors" is optimal whatever the limit
\* cut off, also after restarts, unless a crash left a file without its
\* colouring or one that cannot be read: freed subtrees and files of different
\* moments lose no optimum and leave no wrong bound.
AnswerIsExact == slack = 0 /\ ~torn => OptColorsIsOptimal

\* If the LPs of the run converge, a run without a crash never raises the lower
\* bound of a node above its chromatic number, although finished children are
\* freed and no longer take part in the minimum of trigger_lb_changes.
LowerBoundsAreValid ==
  slack = 0 /\ crashes = 0 =>
    \A i \in DOMAIN problem.nodes : problem.nodes[i].lb <= problem.nodes[i].opt

\* If the LPs of the run converge, then as long as the search bound is above
\* the chromatic number, an optimal colouring is stored in a node or can still
\* be found below a node of the heap; restarts keep it unless they read a file
\* torn before its colouring.
OptimumIsKept ==
  slack = 0 /\ pc = "search" /\ ~torn /\ problem.ub > chi =>
    \E i \in DOMAIN problem.nodes :
      /\ problem.nodes[i].opt = chi
      /\ i \in problem.heap \/ problem.nodes[i].best = chi

\* A search that neither a limit nor a crash has cut short closes the gap at
\* the root and collects the whole tree there.
EndsSolved ==
  slack = 0 /\ pc = "done" /\ ~limit /\ crashes = 0 /\ chi <= parms.initial_upper_bound =>
    Solved /\ root.status = finished

\* The state LP_TIME_EXCEEDED of gcp_solve, any answer but meeting bounds, is
\* true: the time was exceeded.
TimeWasExceeded == pc = "done" /\ ~Solved => limit

\* The search ends: each turn removes a node or replaces it by deeper ones.
Terminates == <>(pc # "search")
=============================================================================
