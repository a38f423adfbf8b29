------------------------------- MODULE NodeLP --------------------------------
(***************************************************************************)
(* The linear relaxation of a search node (class LP, src/src/lp.cpp): what *)
(* settles it early, the column generation loop with its pricing pipeline, *)
(* the verdict, and the columns its sons inherit.  The model follows one   *)
(* path of the search tree, a node at a time.                              *)
(*                                                                         *)
(* A column is a stable set, here a set of vertices.  The solver of the    *)
(* restricted LP is abstracted to what its callers use: the objective      *)
(* value, and the set of columns that have negative reduced cost under the *)
(* duals it returns.  A column of the restricted LP never has, and when no *)
(* column has, the restricted LP is as good as the whole one.  Objective   *)
(* values are counted in halves of a colour; EPSILON separates those.      *)
(***************************************************************************)
EXTENDS Integers, SequencesExt

CONSTANTS
  Vertices,      \* the vertices of the root
  Columns,       \* its stable sets
  DBLMAX,        \* the value of a node without a colouring
  MaxFree,       \* bound on the undecided vertices of the root
  Objectives,    \* the values a restricted LP may have, in halves
  Pipelines,     \* values of --pricing-method to consider
  Inheritance,   \* values of --inherit-cols to consider
  ColsPerIter,   \* values of --pricing-max-cols-per-iter to consider
  MaxAttractive, \* bound on the columns of negative reduced cost
  MaxSets,       \* bound on the sets that one P,Q-MWSSP call returns
  MaxPositive,   \* bound on the positive variables of a fractional solution
  FeasibilityMayTimeOut  \* may the feasibility ILP stop without an answer?

ASSUME NodeLPAssumption ==
  /\ IsFiniteSet(Vertices) /\ Vertices # {}
  /\ Columns \subseteq SUBSET Vertices
  /\ {} \notin Columns
  /\ \A c \in Columns : (SUBSET c) \ {{}} \subseteq Columns
  /\ DBLMAX \in Nat \ {0, 1}
  /\ MaxFree \in Nat
  /\ Objectives \subseteq Nat \ {0, 1} /\ Objectives # {}
  /\ Pipelines \subseteq 0 .. 6
  /\ Inheritance \subseteq 0 .. 4
  /\ ColsPerIter \subseteq Nat \ {0}
  /\ MaxAttractive \in Nat \ {0}
  /\ MaxSets \in Nat \ {0}
  /\ MaxPositive \in Nat \ {0, 1}
  /\ FeasibilityMayTimeOut \in BOOLEAN

VARIABLES
  params,     \* the options of this execution
  node,       \* the instance of the node, see Node
  stables,    \* the columns of the LP, the null column first with a dummy
  dummy,      \* initializedWithDummy
  pool,       \* inherited columns that are priced before all others
  late,       \* inherited columns that enter the LP at once
  coloring,   \* the heuristic colouring, a sequence of columns
  attractive, \* the columns of negative reduced cost under the current duals
  objVal,     \* the value of the last LP, -1 before the first
  posVars,    \* positions of the positive variables
  state,      \* the LP_STATE
  stage,      \* where LP::solve is
  gaveUp,     \* did the feasibility check stop unanswered? (not in the program)
  missed      \* has P-MWSSP missed a column of this node? (not in the program)

vars == <<params, node, stables, dummy, pool, late, coloring, attractive,
          objVal, posVars, state, stage, gaveUp, missed>>

Unit == 2      \* the value 1.0
Cap  == DBLMAX - 1   \* min(nP, nQ): no colouring needs more colours

(* What a node is: its vertices, the undecided ones among them, its        *)
(* optimum, the value of its whole relaxation (with the dummy column), is  *)
(* that relaxation feasible without the dummy, and what its flags say.     *)
Node ==
  {n \in [vertices : SUBSET Vertices, free : 0 .. MaxFree, val : 1 .. DBLMAX,
          lpval : Objectives, feasible : BOOLEAN,
          kind : {"infeasible", "trivial", "gcp", "plain"}] :
     /\ n.val < DBLMAX =>
          /\ n.feasible
          /\ n.lpval <= Unit * n.val
          /\ n.val <= Cardinality(n.vertices)
     /\ n.feasible /\ n.lpval = Unit => n.val = 1
     /\ n.kind = "infeasible" => n.val = DBLMAX
     /\ n.kind = "trivial"    => n.val = 1
     /\ n.kind = "gcp"        => n.val < DBLMAX /\ n.free = 0}

(* The options, and is the graph dense? (It only matters to method 6.)     *)
Options ==
  {o \in [check : BOOLEAN, pipeline : Pipelines, dense : BOOLEAN,
          inherit : Inheritance, k : ColsPerIter] :
     o.dense => o.pipeline = 6}

Limits ==
  {"LP_TIME_EXCEEDED", "LP_MEM_EXCEEDED", "LP_TIME_EXCEEDED_PR",
   "LP_MEM_EXCEEDED_PR", "LP_UNKNOWN"}

States ==
  {"LP_UNSOLVED", "LP_INFEASIBLE", "LP_INTEGER", "LP_FRACTIONAL",
   "LP_INIT_FAIL"} \cup Limits

ColumnsOf(n) == {c \in Columns : c \subseteq n.vertices}

-----------------------------------------------------------------------------
(* The pricing pipeline.                                                   *)

(* The automatic method goes by the density of the graph. *)
Method == IF params.pipeline = 6 THEN IF params.dense THEN 5 ELSE 2
          ELSE params.pipeline

(* The stages a method asks for, in the order they are tried.              *)
Pipeline ==
  CASE Method = 0 -> <<"pool", "exact">>
    [] Method = 1 -> <<"pool", "greedy", "exact">>
    [] Method = 2 -> <<"pool", "greedy", "pq", "exact">>
    [] Method = 3 -> <<"pool", "greedy", "p", "exact">>
    [] Method = 4 -> <<"pool", "greedy", "pq", "p", "exact">>
    [] Method = 5 -> <<"pool", "greedy", "p", "pq", "exact">>

(* The stage that follows stage s when s has found nothing. *)
After(s) == Pipeline[1 + CHOOSE i \in DOMAIN Pipeline : Pipeline[i] = s]

(* The columns that may have negative reduced cost once present are in.    *)
Improving(columns, present) == columns \ present

(* Faulty variant: the reduced costs of the pool are not looked at. *)
PoolCandidatesAll == {i \in DOMAIN pool : pool[i] # {}}

(* The positions of the pool whose columns have negative reduced cost.     *)
PoolCandidates == {i \in DOMAIN pool : pool[i] \in attractive}

Least(a, b) == IF a <= b THEN a ELSE b

(* The columns that a stage may add, none for <<>>: the k best of the pool;*)
(* up to k different ones; those of the stable sets found, which may be    *)
(* equal; one.                                                             *)
Additions(s) ==
  CASE s = "pool" ->
         {[j \in 1 .. Cardinality(S) |-> pool[SetToSeq(S)[j]]] :
            S \in kSubset(Least(params.k, Cardinality(PoolCandidates)),
                          PoolCandidates)}
    [] s = "greedy" ->
         {SetToSeq(S) : S \in {T \in SUBSET attractive :
                                 Cardinality(T) <= params.k}}
    [] s = "pq" -> UNION {[1 .. n -> attractive] : n \in 0 .. MaxSets}
    [] s = "p"  -> {<<>>} \cup {<<c>> : c \in attractive}
    [] s = "exact" -> {<<c>> : c \in attractive}

-----------------------------------------------------------------------------
(* Settling a node without its LP.                                         *)

(* The colourings of n that a heuristic may find, as their colour classes. *)
HeuristicColourings(n) ==
  {SetToSeq(S) : S \in {T \in SUBSET ColumnsOf(n) :
     /\ Cardinality(T) \in n.val .. Cap
     /\ \A c, d \in T : c # d => c \cap d = {}}}

Init ==
  /\ params \in Options
  /\ node \in {n \in Node : n.vertices = Vertices}
  /\ stables = <<>> /\ dummy = FALSE
  /\ pool = <<>> /\ late = <<>>
  /\ coloring = <<>>
  /\ attractive = {}
  /\ objVal = -1
  /\ posVars = {}
  /\ state = "LP_UNSOLVED"
  /\ stage = "solve"
  /\ gaveUp = FALSE /\ missed = FALSE

Done(s) == state' = s /\ stage' = "done"

Infeasible ==
  /\ stage = "solve" /\ node.kind = "infeasible"
  /\ Done("LP_INFEASIBLE")
  /\ UNCHANGED <<params, node, stables, dummy, pool, late, coloring,
                 attractive, objVal, posVars, gaveUp, missed>>

Trivial ==
  /\ stage = "solve" /\ node.kind = "trivial"
  /\ Done("LP_INTEGER")
  /\ objVal' = Unit
  /\ UNCHANGED <<params, node, stables, dummy, pool, late, coloring,
                 attractive, posVars, gaveUp, missed>>

(* gcp_solve: exactcolors colours the graph, or runs out of time. *)
Gcp ==
  /\ stage = "solve" /\ node.kind = "gcp"
  /\ \/ /\ Done("LP_INTEGER")
        /\ objVal' = Unit * node.val
        /\ \E colours \in HeuristicColourings([node EXCEPT !.val = 1]) :
             Len(colours) = node.val /\ stables' = colours
        /\ posVars' = 1 .. node.val
     \/ Done("LP_TIME_EXCEEDED") /\ UNCHANGED <<objVal, stables, posVars>>
  /\ UNCHANGED <<params, node, dummy, pool, late, coloring, attractive, gaveUp, missed>>

(* heuristic_solve: a colouring, or none (as when it is switched off).     *)
Heuristic ==
  /\ stage = "solve" /\ node.kind = "plain"
  /\ coloring' \in {<<>>} \cup HeuristicColourings(node)
  /\ stage' = "feasibility"
  /\ UNCHANGED <<params, node, stables, dummy, pool, late, attractive, objVal,
                 posVars, state, gaveUp, missed>>

(* feasibility_solve has nothing to do: a colouring is known, or the check *)
(* is off.                                                                 *)
FeasibilitySkipped ==
  /\ stage = "feasibility"
  /\ coloring # <<>> \/ ~params.check
  /\ stage' = "init"
  /\ UNCHANGED <<params, node, stables, dummy, pool, late, coloring, attractive,
                 objVal, posVars, state, gaveUp, missed>>

(* The check finds a selection and gives all of it one colour, see module  *)
(* Heuristics: a column if it happens to be stable.  If not, the search    *)
(* aborts when it takes the colouring, so the LP is not followed.          *)
FeasibilityPassed ==
  /\ stage = "feasibility" /\ coloring = <<>> /\ params.check
  /\ node.val < DBLMAX
  /\ \/ /\ \E colours \in HeuristicColourings(node) :
             Len(colours) = 1 /\ coloring' = colours
        /\ stage' = "init"
     \/ stage' = "aborted" /\ UNCHANGED coloring
  /\ UNCHANGED <<params, node, stables, dummy, pool, late, attractive, objVal,
                 posVars, state, gaveUp, missed>>

(* Without a colouring the node is infeasible, even if the time was out.   *)
FeasibilityFailed ==
  /\ stage = "feasibility" /\ coloring = <<>> /\ params.check
  /\ node.val = DBLMAX \/ FeasibilityMayTimeOut
  /\ gaveUp' = (node.val < DBLMAX)
  /\ Done("LP_INFEASIBLE")
  /\ UNCHANGED <<params, node, stables, dummy, pool, late, coloring,
                 attractive, objVal, posVars, missed>>

-----------------------------------------------------------------------------
(* Column generation.                                                      *)

(* The columns of the colouring, or the null column, then the late ones. *)
AddInitialColumns ==
  /\ stage = "init"
  /\ dummy' = (coloring = <<>>)
  /\ stables' = (IF coloring = <<>> THEN <<{}>> ELSE coloring) \o late
  /\ stage' = "lp"
  /\ UNCHANGED <<params, node, pool, late, coloring, attractive, objVal,
                 posVars, state, gaveUp, missed>>

(* The values of the restricted LP: never below the whole relaxation, never*)
(* above the LP before it, or the colouring it starts with.                *)
Values ==
  {o \in Objectives :
     /\ node.lpval <= o
     /\ objVal # -1 => o <= objVal
     /\ coloring # <<>> => o <= Unit * Len(coloring)}

OptimizeLP ==
  /\ stage = "lp"
  /\ objVal' \in Values
  /\ attractive' \in
       {S \in SUBSET Improving(ColumnsOf(node), Range(stables)) :
          /\ Cardinality(S) <= MaxAttractive
          /\ S = {} => objVal' = node.lpval}
  /\ stage' = "pool"
  /\ UNCHANGED <<params, node, stables, dummy, pool, late, coloring, posVars,
                 state, gaveUp, missed>>

LPLimit ==
  /\ stage = "lp"
  /\ \E s \in {"LP_TIME_EXCEEDED", "LP_MEM_EXCEEDED"} : Done(s)
  /\ UNCHANGED <<params, node, stables, dummy, pool, late, coloring,
                 attractive, objVal, posVars, gaveUp, missed>>

(* Faulty variant: the LP is solved again when P-MWSSP finds nothing. *)
PriceAgain(s) ==
  /\ stage = s
  /\ \E new \in Additions(s) :
       /\ stables' = stables \o new
       /\ stage' = IF new # <<>> \/ s = "p" THEN "lp" ELSE After(s)
  /\ UNCHANGED <<params, node, dummy, pool, late, coloring, attractive, objVal,
                 posVars, state, gaveUp, missed>>

(* One stage of pricing: it adds columns and the LP is solved again, or the*)
(* next stage is tried.                                                    *)
Price(s) ==
  /\ stage = s
  /\ \E new \in Additions(s) :
       /\ stables' = stables \o new
       /\ stage' = IF new # <<>> THEN "lp" ELSE After(s)
  /\ UNCHANGED <<params, node, dummy, pool, late, coloring, attractive, objVal,
                 posVars, state, gaveUp, missed>>

PricePool   == Price("pool")
PriceGreedy == Price("greedy")
PricePQ     == Price("pq")
PriceP      == Price("p")
PriceExact  == Price("exact")

(* Exact pricing proves that there is no column of negative reduced cost,  *)
(* and so may P-MWSSP, whose weights bound the reduced costs.              *)
PriceProves ==
  /\ stage \in {"p", "exact"} /\ attractive = {}
  /\ stage' = "verdict"
  /\ UNCHANGED <<params, node, stables, dummy, pool, late, coloring,
                 attractive, objVal, posVars, state, gaveUp, missed>>

(* In a dense graph the 0 of P-MWSSP need not be a proof, see Pricing.     *)
PriceMisses ==
  /\ stage = "p" /\ attractive # {}
  /\ missed' = TRUE
  /\ stage' = "verdict"
  /\ UNCHANGED <<params, node, stables, dummy, pool, late, coloring,
                 attractive, objVal, posVars, state, gaveUp>>

(* Exact pricing stops at a limit of its own, or fails. *)
PriceLimit ==
  /\ stage = "exact"
  /\ \E s \in {"LP_TIME_EXCEEDED_PR", "LP_MEM_EXCEEDED_PR", "LP_UNKNOWN"} :
       Done(s)
  /\ UNCHANGED <<params, node, stables, dummy, pool, late, coloring,
                 attractive, objVal, posVars, gaveUp, missed>>

-----------------------------------------------------------------------------
(* The verdict.                                                            *)

(* Faulty variant: a dummy that is used proves infeasibility. *)
DummyUsedIsInfeasible ==
  /\ stage = "verdict" /\ dummy
  /\ Done("LP_INFEASIBLE")
  /\ UNCHANGED <<params, node, stables, dummy, pool, late, coloring,
                 attractive, objVal, posVars, gaveUp, missed>>

(* The dummy is in the solution: the node is infeasible when the value is  *)
(* above what any colouring costs, otherwise the initialisation has failed.*)
DummyUsed ==
  /\ stage = "verdict" /\ dummy
  /\ Done(IF objVal > Unit * Cap THEN "LP_INFEASIBLE" ELSE "LP_INIT_FAIL")
  /\ UNCHANGED <<params, node, stables, dummy, pool, late, coloring,
                 attractive, objVal, posVars, gaveUp, missed>>

(* The positions of the columns other than the dummy. *)
Proper == {i \in DOMAIN stables : dummy => i > 1}

(* All positive variables are one: they are a colouring of the node.       *)
Integral ==
  /\ stage = "verdict" /\ node.val < DBLMAX
  /\ \E S \in SUBSET Proper :
       /\ Cardinality(S) >= node.val
       /\ objVal = Unit * Cardinality(S)
       /\ posVars' = S
       /\ objVal' = Unit * Cardinality(S)
  /\ Done("LP_INTEGER")
  /\ UNCHANGED <<params, node, stables, dummy, pool, late, coloring,
                 attractive, gaveUp, missed>>

(* Some positive variable is fractional: a branching vertex is looked for. *)
Fractional ==
  /\ stage = "verdict" /\ node.feasible
  /\ objVal > Unit
  /\ \E size \in 2 .. MaxPositive : posVars' \in kSubset(size, Proper)
  /\ state' = "LP_FRACTIONAL"
  /\ stage' = IF node.free > 0 THEN "done" ELSE "aborted"
  /\ UNCHANGED <<params, node, stables, dummy, pool, late, coloring,
                 attractive, objVal, gaveUp, missed>>

-----------------------------------------------------------------------------
(* Branching: the LP of a son.                                             *)

(* translate_column: the vertices of the column that the son still has.    *)
TranslateColumn(c, n) == c \cap n.vertices

(* In the order of the LP: the j-th has j - 1 positions before it. *)
Translated(positions, n) ==
  [j \in 1 .. Cardinality(positions) |->
     LET i == CHOOSE i \in positions : Cardinality({k \in positions : k < i}) = j - 1
     IN  TranslateColumn(stables[i], n)]

(* The sons of a node have fewer vertices and fewer undecided ones, and    *)
(* neither an optimum nor a relaxation that is better.                     *)
Sons ==
  {n \in Node :
     /\ n.vertices \subseteq node.vertices /\ n.vertices # node.vertices
     /\ n.vertices # {}
     /\ n.free < node.free
     /\ n.val >= node.val /\ n.lpval >= node.lpval
     /\ n.feasible => node.feasible
     /\ n.kind # "gcp"}

Branch ==
  /\ stage = "done" /\ state = "LP_FRACTIONAL"
  /\ node' \in Sons
  /\ LET columns(positions) == Translated(positions, node')
         all == DOMAIN stables
     IN  \/ params.inherit = 0 /\ pool' = <<>> /\ late' = <<>>
         \/ params.inherit = 1 /\ pool' = columns(all) /\ late' = <<>>
         \/ params.inherit = 2 /\ pool' = columns(posVars) /\ late' = <<>>
         \/ params.inherit = 3 /\ pool' = columns(all \ posVars) /\ late' = columns(posVars)
         \/ params.inherit = 4 /\ pool' = <<>> /\ late' = columns(all)
  /\ stables' = <<>> /\ dummy' = FALSE /\ coloring' = <<>> /\ missed' = FALSE
  /\ attractive' = {} /\ objVal' = -1 /\ posVars' = {}
  /\ state' = "LP_UNSOLVED" /\ stage' = "solve"
  /\ UNCHANGED <<params, gaveUp>>

Next ==
  \/ Infeasible \/ Trivial \/ Gcp \/ Heuristic
  \/ FeasibilitySkipped \/ FeasibilityPassed \/ FeasibilityFailed
  \/ AddInitialColumns \/ OptimizeLP \/ LPLimit
  \/ PricePool \/ PriceGreedy \/ PricePQ \/ PriceP \/ PriceExact
  \/ PriceProves \/ PriceMisses \/ PriceLimit
  \/ DummyUsed \/ Integral \/ Fractional \/ Branch

(* The program is one sequential thread whose solver calls return. *)
Spec == Init /\ [][Next]_vars /\ WF_vars(Next)

-----------------------------------------------------------------------------
(* Properties.                                                             *)

(* The variables have their types; every column that the LP, the pool or   *)
(* the late columns hold is one of the node, or empty.                     *)
TypeOK ==
  /\ params \in Options
  /\ node.vertices \subseteq Vertices /\ node.free \in 0 .. MaxFree
  /\ \A c \in Range(stables) \cup Range(pool) \cup Range(late) :
       c = {} \/ c \in ColumnsOf(node)
  /\ dummy \in BOOLEAN /\ gaveUp \in BOOLEAN /\ missed \in BOOLEAN
  /\ Range(coloring) \subseteq ColumnsOf(node)
  /\ attractive \subseteq ColumnsOf(node)
  /\ objVal \in Objectives \cup {-1} \cup {Unit * v : v \in 1 .. Cap}
  /\ posVars \subseteq DOMAIN stables
  /\ state \in States
  /\ stage \in {"solve", "feasibility", "init", "lp", "pool", "greedy", "pq",
                "p", "exact", "verdict", "done", "aborted"}

(* What the tree search is told of a node is right, whatever heuristic,    *)
(* check, pipeline and inheritance are used.  The value of an integral     *)
(* node is what its colouring costs; it is the optimum, the value of a     *)
(* fractional one is no more, and an infeasible one has no colouring,      *)
(* unless P-MWSSP has missed a column or the check stopped unanswered.     *)
AnswerIsRight ==
  stage = "done" =>
    /\ (state = "LP_INFEASIBLE" /\ ~gaveUp /\ ~missed) => node.val = DBLMAX
    /\ state = "LP_INTEGER" =>
         /\ node.val < DBLMAX
         /\ objVal >= Unit * node.val
         /\ ~missed => objVal = Unit * node.val
    /\ (state = "LP_FRACTIONAL" /\ ~missed /\ node.val < DBLMAX) =>
         objVal <= Unit * node.val

(* Whenever pricing makes the LP be solved again, the LP has a column that *)
(* it did not have; the pool, whose columns stay there, is no exception.   *)
PricedColumnsAreNew ==
  [][(stage \in {"pool", "greedy", "pq", "p", "exact"} /\ stage' = "lp") =>
       Range(stables') \ Range(stables) # {}]_vars

(* Every node is settled and the path of branching decisions ends.         *)
Terminates == <>[](stage \in {"done", "aborted"})
=============================================================================
