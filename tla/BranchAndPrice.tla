--------------------------- MODULE BranchAndPrice ---------------------------
(***************************************************************************)
(* The tree search of cfcol's branch-and-price solver (src/src/bp.cpp).    *)
(*                                                                         *)
(* BP::solve keeps a list L of open nodes, the value primal_bound of the   *)
(* best colouring known and that colouring.  It pushes the root, then pops *)
(* the back of L, branches on it and pushes both sons.  Pushing a node     *)
(* solves its linear relaxation: the node's heuristic colouring and an     *)
(* integral relaxation may improve the incumbent, a fractional relaxation  *)
(* is inserted in L unless its bound prunes it, and a limit ends the       *)
(* search at once.                                                         *)
(*                                                                         *)
(* What a node's LP is, is abstracted to what the search sees of it: the   *)
(* optimum val of the node's subproblem (DBLMAX when it has no colouring), *)
(* the number free of vertices that are still to be decided, and what      *)
(* LP::solve may answer for a subproblem with that optimum.  The objective *)
(* values of the relaxations are doubles: they are written in thousandths, *)
(* so that EPSILON_BP is exactly one unit.                                 *)
(***************************************************************************)
EXTENDS Integers, Sequences

CONSTANTS
  DBLMAX,         \* the bound DBL_MAX: above the value of every colouring
  MaxFree,        \* bound on the undecided vertices of the root
  LowerBounds,    \* the objective values a fractional relaxation may have
  LimitStates,    \* the LP states that end the search
  SearchModes,    \* values of params.use_dfs_tree_search() to consider
  RelaxModes,     \* values of params.onlyRelaxation to consider
  InitialBounds,  \* values of the option --ub to consider (default DBL_MAX)
  PricingMayFail, \* may LP::solve end in the state LP_UNKNOWN?
  FeasibilityMayTimeOut  \* may the feasibility ILP stop without an answer?

ASSUME BPAssumption ==
  /\ DBLMAX \in Nat \ {0}
  /\ MaxFree \in Nat
  /\ LowerBounds \subseteq Nat
  /\ LimitStates \subseteq
       {"TIME_EXCEEDED_LP", "TIME_EXCEEDED_PR", "MEM_EXCEEDED_LP",
        "MEM_EXCEEDED_PR", "INIT_FAIL"}
  /\ SearchModes \subseteq BOOLEAN
  /\ RelaxModes \subseteq BOOLEAN
  /\ InitialBounds \subseteq 1 .. DBLMAX
  /\ PricingMayFail \in BOOLEAN
  /\ FeasibilityMayTimeOut \in BOOLEAN

VARIABLES
  params,   \* the options dfs, relax and ub of this execution, and gcp: is
            \* every P-part of the input a single vertex (isGCP)?
  opt,      \* the optimum of the instance, known to nobody
  L,        \* the open nodes, the next one to process at the back
  pending,  \* created nodes that are still to be pushed, in order
  primal,   \* primal_bound
  best,     \* number of colours of best_integer_solution, 0 when empty
  dropped,  \* has a node been dropped unsolved? (not in the program)
  report    \* the Stats the caller gets, state "RUNNING" before that

vars == <<params, opt, L, pending, primal, best, dropped, report>>

Unit == 1000   \* the value 1.0
Eps  == 1      \* EPSILON_BP

Values  == 1 .. DBLMAX
Subproblem == [val : Values, free : 0 .. MaxFree]
OpenNode   == [val : Values, free : 0 .. MaxFree, lb : LowerBounds]

States ==
  {"RUNNING", "OPTIMAL", "FEASIBLE", "INFEASIBLE", "TIME_EXCEEDED", "ABORTED"}
    \cup LimitStates

Options ==
  [dfs : SearchModes, relax : RelaxModes, ub : InitialBounds, gcp : BOOLEAN]

TypeOK ==
  /\ params \in Options
  /\ opt \in Values
  /\ L \in Seq(OpenNode)
  /\ pending \in Seq(Subproblem)
  /\ Len(pending) <= 2
  /\ primal \in Values
  /\ best \in 0 .. DBLMAX - 1
  /\ dropped \in BOOLEAN
  /\ report \in [state : States, lb : Int, ub : Int]

-----------------------------------------------------------------------------
(* Pruning and the list of open nodes.                                     *)

(* std::ceil(x - EPSILON_BP) for x in thousandths. *)
CeilEps(x) == (x - Eps + Unit - 1) \div Unit

(* Faulty variant: the tolerance is forgotten when rounding up. *)
PrunableNoEps(lb, bound) == (lb + Unit - 1) \div Unit >= bound

Prunable(lb, bound) == CeilEps(lb) >= bound

(* The increasing enumeration of a set of positions below n. *)
Enumerations(keep, n) ==
  UNION { { g \in [1 .. k -> keep] :
              /\ \A i, j \in 1 .. k : i < j => g[i] < g[j]
              /\ \A p \in keep : \E i \in 1 .. k : g[i] = p }
          : k \in 0 .. n }

(* The list of the nodes of s at the positions in keep, in their order, as *)
(* the only element of a set.                                              *)
Kept(s, keep) ==
  { [i \in DOMAIN g |-> s[g[i]]] : g \in Enumerations(keep, Len(s)) }

(* Faulty variant: a node that equals the bound is kept. *)
SurvivorsTooMany(bound) ==
  IF params.dfs
  THEN {i \in 1 .. Len(L) : L[i].lb <= Unit * bound}
  ELSE {i \in 1 .. Len(L) : \E j \in 1 .. i : L[j].lb <= Unit * bound}

(* Depth-first search erases every node whose objective value reaches the  *)
(* bound; best-bound search stops at the first node that does not.         *)
Survivors(bound) ==
  IF params.dfs
  THEN {i \in 1 .. Len(L) : L[i].lb < Unit * bound}
  ELSE {i \in 1 .. Len(L) : \E j \in 1 .. i : L[j].lb < Unit * bound}

(* The list after update_primal_bound, which is called on improvement only.*)
Erased(bound) ==
  IF bound < primal THEN Kept(L, Survivors(bound)) ELSE {L}

(* Depth-first: at the back.  Best bound: before the first node with a     *)
(* smaller objective value, at the back when there is none.                *)
Positions(s, lb) ==
  IF params.dfs
  THEN {Len(s) + 1}
  ELSE {i \in 1 .. Len(s) + 1 :
          /\ \A j \in 1 .. i - 1 : s[j].lb >= lb
          /\ i <= Len(s) => s[i].lb < lb}

Inserted(s, i, node) ==
  [j \in 1 .. Len(s) + 1 |->
     IF j < i THEN s[j] ELSE IF j = i THEN node ELSE s[j - 1]]

(* Faulty variant: the front of the list in either search. *)
DualBoundFront(s) == IF s = <<>> THEN -(Unit * DBLMAX) ELSE s[1].lb

(* calculate_dual_bound: the minimum over L in depth-first search, the     *)
(* front of L in best-bound search, -DBL_MAX when L is empty.              *)
DualBound(s) ==
  IF s = <<>> THEN -(Unit * DBLMAX)
  ELSE IF params.dfs
       THEN CHOOSE b \in {s[i].lb : i \in 1 .. Len(s)} :
              \A i \in 1 .. Len(s) : b <= s[i].lb
       ELSE s[1].lb

-----------------------------------------------------------------------------
(* Ending the search.                                                      *)

(* static_cast<int>(primal_bound + 0.5): the cast of DBL_MAX is undefined, *)
(* a build yields the smallest or the largest int.                         *)
CastToInt(bound) ==
  IF bound < DBLMAX THEN {bound} ELSE {-DBLMAX, DBLMAX}

(* Faulty variant: the bound is taken from the list for OPTIMAL too. *)
return_statsOpenBound(s) ==
  \E late \in BOOLEAN : \E ub \in CastToInt(primal') :
    report' =
      [state |-> IF ~late THEN s
                 ELSE IF primal' = DBLMAX THEN "TIME_EXCEEDED"
                 ELSE "FEASIBLE",
       ub    |-> ub,
       lb    |-> IF s = "INFEASIBLE" THEN report.lb ELSE DualBound(L')]

(* return_stats(s): running out of time overrides the reported state, and  *)
(* the lower bound is chosen by s and not by the reported state.           *)
return_stats(s) ==
  \E late \in BOOLEAN : \E ub \in CastToInt(primal') :
    report' =
      [state |-> IF ~late THEN s
                 ELSE IF primal' = DBLMAX THEN "TIME_EXCEEDED"
                 ELSE "FEASIBLE",
       ub    |-> ub,
       lb    |-> IF s = "OPTIMAL" THEN Unit * primal'
                 ELSE IF s = "INFEASIBLE" THEN report.lb
                 ELSE DualBound(L')]

-----------------------------------------------------------------------------
Init ==
  /\ params \in Options
  /\ opt \in Values
  /\ L = <<>>
  /\ \E free \in 0 .. MaxFree :
       /\ params.gcp => free = 0
       /\ pending = <<[val |-> opt, free |-> free]>>
  /\ primal = params.ub
  /\ best = 0
  /\ dropped = FALSE
  /\ report = [state |-> "RUNNING", lb |-> -Unit, ub |-> -1]

Running == report.state = "RUNNING"
Solving == Running /\ pending # <<>>
Looping == Running /\ pending = <<>>

(* A heuristic colouring of n's subproblem has at least n.val colours; 0   *)
(* stands for none.  (An improper one of the feasibility check aborts in   *)
(* save_heur: module Heuristics shows it, here it is not followed.)        *)
HeurValues(n) == {0} \cup n.val .. DBLMAX - 1

(* The bound once the node's heuristic colouring has been considered.      *)
AfterHeur(h) == IF 0 < h /\ h < primal THEN h ELSE primal

SetPrimal(bound) ==
  /\ primal' = bound
  /\ best' = IF bound < primal THEN bound ELSE best

(* push of a node that LP::solve finds infeasible: pruned. *)
PushInfeasible ==
  /\ Solving
  /\ Head(pending).val = DBLMAX
  /\ pending' = Tail(pending)
  /\ UNCHANGED <<params, opt, L, primal, best, dropped, report>>

(* push of a node whose relaxation (or GCP, or trivial) solution is        *)
(* integral: its value is the optimum of the subproblem.                   *)
PushInteger ==
  /\ Solving
  /\ LET n == Head(pending) IN
       /\ n.val < DBLMAX
       /\ \E h \in HeurValues(n) :
            LET bound == IF n.val < AfterHeur(h) THEN n.val ELSE AfterHeur(h)
            IN  SetPrimal(bound) /\ L' \in Erased(bound)
  /\ pending' = Tail(pending)
  /\ UNCHANGED <<params, opt, dropped, report>>

(* push of a node with a fractional relaxation: its objective value bounds *)
(* the subproblem's optimum from below, up to the tolerance of the solver, *)
(* and there is a P-part left to branch on.                                *)
PushFractional ==
  /\ Solving
  /\ LET n == Head(pending) IN
       /\ n.free > 0
       /\ \E h \in HeurValues(n), lb \in LowerBounds :
            /\ n.val < DBLMAX => lb <= Unit * n.val + Eps
            /\ SetPrimal(AfterHeur(h))
            /\ \E kept \in Erased(AfterHeur(h)) :
                 IF Prunable(lb, AfterHeur(h))
                 THEN L' = kept
                 ELSE \E i \in Positions(kept, lb) :
                        L' = Inserted(kept, i, [val |-> n.val,
                                                free |-> n.free, lb |-> lb])
  /\ pending' = Tail(pending)
  /\ UNCHANGED <<params, opt, dropped, report>>

(* push of a node that hits a time or memory limit, or whose LP could not  *)
(* be initialised: solve returns, whatever is pending or open.             *)
PushLimit ==
  /\ Solving
  /\ \E h \in HeurValues(Head(pending)) :
       SetPrimal(AfterHeur(h)) /\ L' \in Erased(AfterHeur(h))
  /\ pending' = <<>>
  /\ \E s \in LimitStates : return_stats(s)
  /\ UNCHANGED <<params, opt, dropped>>

(* push of a node whose exact pricing fails: no limit state is returned,   *)
(* the node is dropped as if it had been pruned.                           *)
PushUnknown ==
  /\ PricingMayFail
  /\ Solving
  /\ \E h \in HeurValues(Head(pending)) :
       SetPrimal(AfterHeur(h)) /\ L' \in Erased(AfterHeur(h))
  /\ pending' = Tail(pending)
  /\ dropped' = TRUE
  /\ UNCHANGED <<params, opt, report>>

(* push of a node whose feasibility ILP reaches its own time limit: the    *)
(* state UNKNOWN of the check is taken for a proof of infeasibility.       *)
PushUndecided ==
  /\ FeasibilityMayTimeOut
  /\ Solving
  /\ Head(pending).val < DBLMAX
  /\ pending' = Tail(pending)
  /\ dropped' = TRUE
  /\ UNCHANGED <<params, opt, L, primal, best, report>>

(* push of a node whose relaxation is fractional although every P-part has *)
(* become a single vertex.  Only the input is ever recognised as a GCP     *)
(* instance, so LP::solve looks for a branching vertex and there is none:  *)
(* an assertion fails, or a P-part beyond the last is read.                *)
PushStuck ==
  /\ Solving
  /\ Head(pending).free = 0 /\ Head(pending).val > 1
  /\ ~params.gcp
  /\ report' = [report EXCEPT !.state = "ABORTED"]
  /\ UNCHANGED <<params, opt, L, pending, primal, best, dropped>>

(* The sons of a node: a branching vertex is selected on the left and      *)
(* forbidden on the right, which decides at least that vertex and splits   *)
(* the colourings of the node between the sons.                            *)
Sons(node) ==
  { sons \in [1 .. 2 -> Subproblem] :
      /\ \A i \in 1 .. 2 : sons[i].free < node.free /\ sons[i].val >= node.val
      /\ \E i \in 1 .. 2 : sons[i].val = node.val }

(* Faulty variant: the pruned node stays in the list. *)
PopPrunedInPlace ==
  /\ Looping /\ ~params.relax /\ L # <<>>
  /\ Prunable(L[Len(L)].lb, primal)
  /\ UNCHANGED vars

(* Faulty variant: only the left son is pushed. *)
PopBranchLeftOnly ==
  /\ Looping /\ ~params.relax /\ L # <<>>
  /\ ~Prunable(L[Len(L)].lb, primal)
  /\ L' = SubSeq(L, 1, Len(L) - 1)
  /\ \E sons \in Sons(L[Len(L)]) : pending' = <<sons[1]>>
  /\ UNCHANGED <<params, opt, primal, best, dropped, report>>

(* One turn of the loop: the back of L is popped, and pruned or branched.  *)
PopPruned ==
  /\ Looping /\ ~params.relax /\ L # <<>>
  /\ Prunable(L[Len(L)].lb, primal)
  /\ L' = SubSeq(L, 1, Len(L) - 1)
  /\ UNCHANGED <<params, opt, pending, primal, best, dropped, report>>

PopBranch ==
  /\ Looping /\ ~params.relax /\ L # <<>>
  /\ ~Prunable(L[Len(L)].lb, primal)
  /\ L' = SubSeq(L, 1, Len(L) - 1)
  /\ pending' \in Sons(L[Len(L)])
  /\ UNCHANGED <<params, opt, primal, best, dropped, report>>

(* Faulty variant: infeasibility is concluded from the empty colouring. *)
FinishByColouring ==
  /\ Looping
  /\ params.relax \/ L = <<>>
  /\ UNCHANGED <<params, opt, L, pending, primal, best, dropped>>
  /\ return_stats(IF best = 0 THEN "INFEASIBLE"
                  ELSE IF params.relax /\ L # <<>> THEN "FEASIBLE"
                  ELSE "OPTIMAL")

(* The end of solve, after the loop or without it. *)
Finish ==
  /\ Looping
  /\ params.relax \/ L = <<>>
  /\ UNCHANGED <<params, opt, L, pending, primal, best, dropped>>
  /\ return_stats(IF primal = DBLMAX THEN "INFEASIBLE"
                  ELSE IF params.relax /\ L # <<>> THEN "FEASIBLE"
                  ELSE "OPTIMAL")

Next ==
  \/ PushInfeasible \/ PushInteger \/ PushFractional \/ PushLimit
  \/ PushUnknown \/ PushUndecided \/ PushStuck
  \/ PopPruned \/ PopBranch \/ Finish

(* The program is one sequential thread whose LP and pricing calls return. *)
Spec == Init /\ [][Next]_vars /\ WF_vars(Next)

-----------------------------------------------------------------------------
(* Properties.                                                             *)

(* Best-bound search keeps L sorted by decreasing objective value: the     *)
(* insertion of push and the erasures of update_primal_bound rely on it,   *)
(* and the back of L is a node of smallest value.                          *)
SortedList ==
  ~params.dfs => \A i, j \in 1 .. Len(L) : i < j => L[i].lb >= L[j].lb

(* No open node reaches the primal bound: improving the bound erases every *)
(* node that does, although best-bound search stops at the first survivor. *)
ListBelowPrimal == \A i \in 1 .. Len(L) : L[i].lb < Unit * primal

(* While the search runs, an optimal colouring is either known (or the     *)
(* bound given by --ub already rules it out), or the subproblem of a node  *)
(* that is open or about to be pushed still contains one.                  *)
OptimumCovered ==
  (Running /\ ~dropped) =>
    \/ primal <= opt
    \/ \E i \in 1 .. Len(L) : L[i].val = opt
    \/ \E i \in 1 .. Len(pending) : pending[i].val = opt

(* The saved colouring and primal_bound agree: the bound is the number of  *)
(* colours of the colouring, or still the initial bound when there is none.*)
IncumbentIsPrimal ==
  IF best = 0 THEN primal = params.ub ELSE primal = best /\ opt <= best

(* A search that answers OPTIMAL returns a colouring with as few colours   *)
(* as possible, and reports that number as both bounds.                    *)
OptimalIsOptimal ==
  (/\ report.state = "OPTIMAL"
   /\ ~dropped
   /\ opt < params.ub \/ params.ub = DBLMAX) =>
     /\ best = opt
     /\ report.ub = opt
     /\ report.lb = Unit * opt

(* A search of the whole tree that answers INFEASIBLE is right.            *)
InfeasibleIsInfeasible ==
  (report.state = "INFEASIBLE" /\ ~params.relax /\ ~dropped) =>
    opt = DBLMAX

(* The answer FEASIBLE, also when it stands for a time limit, comes with a *)
(* colouring of the reported value (unless --ub set the bound).            *)
FeasibleHasColouring ==
  (report.state = "FEASIBLE" /\ params.ub = DBLMAX) =>
    best # 0 /\ report.ub = best

(* Depth-first search keeps few nodes open: never more than the root has   *)
(* undecided vertices.                                                     *)
DfsListIsShort == params.dfs => Len(L) <= MaxFree

(* "Best obj value" (show_stats) and "Final lower bound" (stats.hpp): when *)
(* no node is in process, the dual bound is a lower bound of the optimum.  *)
DualBoundIsValid ==
  (Looping /\ ~dropped /\ L # <<>> /\ opt < primal) =>
    DualBound(L) <= Unit * opt + Eps

(* The same for the depth-first search, whose dual bound is the minimum.   *)
DfsDualBoundIsValid == params.dfs => DualBoundIsValid

(* What the reported reason says (get_termination_reason): INFEASIBLE      *)
(* stands for "infeasibility proven", whatever the options.                *)
InfeasibilityProven == report.state = "INFEASIBLE" => opt = DBLMAX

(* OPTIMAL stands for "optimality proven": when the optimum respects the   *)
(* initial upper bound, the colouring that is written has that many colours*)
OptimalityProven ==
  (report.state = "OPTIMAL" /\ opt <= params.ub) => best = opt

(* The search always finds a vertex to branch on where it looks for one    *)
(* (the assertion of get_branching_variable_LNTT and _FMS).                *)
BranchingVertexExists == report.state # "ABORTED"

(* solve returns, or the process is aborted.                               *)
Terminates == <>(report.state # "RUNNING")

(* The search implements ExactSearch when --relax and --ub are not used,   *)
(* pricing does not fail and the feasibility check does not time out.      *)
Answer ==
  CASE report.state = "RUNNING"    -> "running"
    [] report.state = "OPTIMAL"    -> "optimal"
    [] report.state = "FEASIBLE"   -> "feasible"
    [] report.state = "INFEASIBLE" -> "infeasible"
    [] OTHER                       -> "stopped"

ES == INSTANCE ExactSearch
        WITH NoColouring <- DBLMAX, incumbent <- best, answer <- Answer

Refinement == ES!Spec
=============================================================================
