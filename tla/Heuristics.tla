----------------------------- MODULE Heuristics --------------------------------
(***************************************************************************)
(* Colourings and decisions found without the linear relaxation: the       *)
(* heuristics (heur.cpp), the feasibility checks (feas.cpp), the class Col *)
(* that they fill, and how LP::solve and main use them on an instance that *)
(* module Dpcp prepares.                                                   *)
(*                                                                         *)
(* The degrees that the 2-step heuristics compare are left out: any        *)
(* candidate of any smallest P-part may be taken.  The order of the        *)
(* vertices in a part is left out too, so the 1-step heuristic breaks ties *)
(* between them either way.  The stable set solver and the ILP solver      *)
(* return any maximum stable set.                                          *)
(***************************************************************************)
EXTENDS Dpcp, GreedyColouring

CONSTANTS
  Algorithms,   \* values of --heur-root and --heur-nodes to consider
  Checks,       \* values of --feas-root and --feas-nodes to consider
  MaxPasses,    \* bound on the iterations of the semigreedy heuristic
  IlpMayTimeOut \* may the feasibility ILP stop without an answer?

ASSUME HeuristicsAssumption ==
  /\ Algorithms \subseteq 0 .. 3
  /\ Checks \subseteq 0 .. 2
  /\ MaxPasses \in Nat \ {0}
  /\ IlpMayTimeOut \in BOOLEAN

VARIABLES
  stage,       \* "idle", "pass", "1-step", "check" or "done"
  algorithm,   \* the heuristic that was called, 0 before that
  passes,      \* the passes of the 2-step heuristics still to make
  removed,     \* the vertices that can no longer be taken
  unprocessed, \* the P-parts without a vertex (unprocessedP)
  selected,    \* the vertices taken by the current pass
  adj,         \* pairs of adjacent Q-parts, the smaller index first
  col,         \* the colouring, a function of the coloured vertices
  heurState,   \* HeurStats.state: "none", "FEASIBLE" or "UNKNOWN"
  decision     \* Stats.state of the feasibility check, "none" before it

hvars == <<stage, algorithm, passes, removed, unprocessed, selected, adj, col,
           heurState, decision>>

Ppart(v) == dpcp.vertex2Ppart[v]
Qpart(v) == dpcp.vertex2Qpart[v]

QPairs == (DOMAIN dpcp.Q) \X (DOMAIN dpcp.Q)

Candidates(i) == dpcp.P[i] \ removed

NColours(f) == Cardinality(Range(f))

(* The P-parts that may be processed next: those of fewest candidates.     *)
SmallestParts ==
  {i \in unprocessed : \A k \in unprocessed :
     Cardinality(Candidates(i)) <= Cardinality(Candidates(k))}

-----------------------------------------------------------------------------
(* The two steps of the 2-step heuristics.                                 *)

(* Faulty variant: a pair is recorded only when v has the smaller index. *)
NewPairsOneWay(v) ==
  {<<Qpart(v), Qpart(u)>> : u \in {w \in selected \cap Neighbours(dpcp, v) :
                                     Qpart(v) < Qpart(w)}}

(* The pairs of Q-parts that become adjacent when v is selected.           *)
NewPairs(v) ==
  {p \in QPairs :
     p[1] < p[2] /\ \E u \in selected \cap Neighbours(dpcp, v) :
                      {p[1], p[2]} = {Qpart(u), Qpart(v)}}

(* The vertices that selecting v rules out.                                *)
InvalidatedBySelection(v) ==
  (dpcp.P[Ppart(v)] \ {v}) \cup
  {u \in Neighbours(dpcp, v) : Qpart(u) = Qpart(v)}

(* dpcp_dsatur_heur: the Q-parts of the selected vertices S are coloured.  *)
Collapsed(S, pairs) ==
  {[v \in S |-> f[Qpart(v)]] : f \in COLORdsatur({Qpart(v) : v \in S}, pairs)}

-----------------------------------------------------------------------------
(* The choices of the 1-step heuristic.                                    *)

(* The neighbours that v has outside its P-part and its Q-part.            *)
Outer(v) == {u \in Neighbours(dpcp, v) : Ppart(u) # Ppart(v) /\ Qpart(u) # Qpart(v)}

(* adjColors and the size of degree, for a vertex that is not removed.     *)
AdjColours(v) == {col[u] : u \in Outer(v) \cap DOMAIN col}
QDegree(v)    == Cardinality({Qpart(u) : u \in Outer(v) \ removed})

Saturation(v) == Cardinality(AdjColours(v))

LeastSaturated(i) ==
  {v \in Candidates(i) : \A u \in Candidates(i) :
     \/ Saturation(v) < Saturation(u)
     \/ Saturation(v) = Saturation(u) /\ QDegree(v) <= QDegree(u)}

PartSaturation(i) == Min({Saturation(v) : v \in Candidates(i)})

(* greedy_vertex_selector_1S: a least saturated vertex of the most         *)
(* saturated P-part, of the smallest and then of the first one.            *)
NextVertices1S ==
  LeastSaturated(Min(
    {i \in unprocessed : \A k \in unprocessed :
       \/ PartSaturation(i) > PartSaturation(k)
       \/ /\ PartSaturation(i) = PartSaturation(k)
          /\ Cardinality(Candidates(i)) <= Cardinality(Candidates(k))}))

ColoursOfQ(j) == {col[w] : w \in {u \in DOMAIN col : Qpart(u) = j}}

(* get_invalidated_vertices: those ruled out when v gets colour c.         *)
InvalidatedByColour(v, c) ==
  {u \in dpcp.Q[Qpart(v)] \ (removed \cup DOMAIN col) :
     u \in Neighbours(dpcp, v) \/ c \in AdjColours(u)}
  \cup {u \in Outer(v) \ removed : c \in ColoursOfQ(Qpart(u))}

(* The exception: a P-part would lose all that remains of it.              *)
Fails(v, c) ==
  LET inv == InvalidatedByColour(v, c)
  IN \E i \in DOMAIN dpcp.P :
       inv \cap dpcp.P[i] # {} /\ Candidates(i) \subseteq inv

NewColour == NColours(col)

OldColours(v) ==
  {c \in 0 .. NColours(col) - 1 : c \notin AdjColours(v) /\ ~Fails(v, c)}

(* greedy_color_selector_1S, the empty set for its exception: the colour   *)
(* of its Q-part, or the old colour that rules out the fewest vertices, or *)
(* a new one.                                                              *)
ColourChoice(v) ==
  LET cost(c) == Cardinality(InvalidatedByColour(v, c))
      best == {c \in OldColours(v) : \A d \in OldColours(v) : cost(c) <= cost(d)}
  IN IF ColoursOfQ(Qpart(v)) # {}
     THEN {c \in ColoursOfQ(Qpart(v)) : ~Fails(v, c)}
     ELSE IF best # {} THEN {Min(best)}
     ELSE {c \in {NewColour} : ~Fails(v, c)}

-----------------------------------------------------------------------------
(* The choices of the feasibility checks.                                  *)

(* Faulty variant: all the edges stay. *)
AllEdges == dpcp.E

(* The edges that the check leaves: inside a P-part or inside a Q-part.    *)
CheckEdges ==
  {e \in dpcp.E : Cardinality({Ppart(v) : v \in e}) = 1
                  \/ Cardinality({Qpart(v) : v \in e}) = 1}

MaximumStableSets ==
  LET stable == {S \in SUBSET dpcp.V : \A e \in CheckEdges : ~(e \subseteq S)}
      size   == Max({Cardinality(S) : S \in stable})
  IN {S \in stable : Cardinality(S) = size}

(* The adjacent pairs among the vertices S, looked up in the graph that    *)
(* the check has reduced.                                                  *)
CheckPairs(S) ==
  {<<Qpart(p[1]), Qpart(p[2])>> : p \in
     {q \in S \X S : {q[1], q[2]} \in CheckEdges /\ Qpart(q[1]) < Qpart(q[2])}}

(* The enumerative check asks for a set of nP vertices, the ILP for nP or  *)
(* more (its callback stops it when there cannot be so many).              *)
Decides(check, S) ==
  IF check = 1 THEN Cardinality(S) = Len(dpcp.P) ELSE Cardinality(S) >= Len(dpcp.P)

-----------------------------------------------------------------------------
HInit ==
  /\ Init
  /\ stage = "idle" /\ algorithm = 0 /\ passes = 0
  /\ removed = {} /\ unprocessed = {} /\ selected = {} /\ adj = {}
  /\ col = <<>> /\ heurState = "none" /\ decision = "none"

HPrepare == (Prepare \/ PrepareAborts) /\ UNCHANGED hvars

(* LP::solve reaches its heuristic when no flag settles the node.          *)
NodeIsOpen ==
  /\ caller.solver = "byp"
  /\ ~dpcp.isInfeasible /\ ~dpcp.hasTrivialSolution /\ ~dpcp.isGCP

(* What follows the heuristic: LP::feasibility_solve, nothing in main.     *)
AfterHeuristic == IF caller.solver = "byp" THEN "check" ELSE "done"

StartPass ==
  /\ removed' = {} /\ selected' = {} /\ adj' = {}
  /\ unprocessed' = DOMAIN dpcp.P

SkipHeuristic ==
  /\ phase = "node" /\ stage = "idle" /\ NodeIsOpen
  /\ 0 \in Algorithms
  /\ stage' = "check"
  /\ UNCHANGED <<vars, algorithm, passes, removed, unprocessed, selected, adj,
                 col, heurState, decision>>

CallHeuristic(a) ==
  /\ phase = "node" /\ stage = "idle"
  /\ NodeIsOpen \/ caller.solver = "heur"
  /\ algorithm' = a
  /\ stage' = IF a = 1 THEN "1-step"
              ELSE IF a = 3 /\ dpcp.V = {} THEN AfterHeuristic ELSE "pass"
  /\ passes' = CASE a = 1 -> 0 [] a = 2 -> 1
                 [] a = 3 -> IF dpcp.V = {} THEN 0 ELSE MaxPasses
  /\ heurState' = IF a = 3 /\ dpcp.V = {} THEN "UNKNOWN" ELSE heurState
  /\ StartPass
  /\ UNCHANGED <<vars, col, decision>>

(* One turn of first_step: a P-part of fewest candidates gets a vertex.    *)
SelectVertex(v) ==
  /\ stage = "pass"
  /\ Ppart(v) \in SmallestParts /\ v \in Candidates(Ppart(v))
  /\ selected' = selected \cup {v}
  /\ adj' = adj \cup NewPairs(v)
  /\ removed' = removed \cup InvalidatedBySelection(v)
  /\ unprocessed' = unprocessed \ {Ppart(v)}
  /\ UNCHANGED <<vars, stage, algorithm, passes, col, heurState, decision>>

(* The end of a pass that leaves the colouring f: another one, or the      *)
(* state that the heuristic reports.                                       *)
EndPass(f, verdict) ==
  /\ col' = f
  /\ passes' = passes - 1
  /\ IF passes > 1
     THEN StartPass /\ UNCHANGED <<stage, heurState>>
     ELSE /\ stage' = AfterHeuristic
          /\ heurState' = verdict
          /\ UNCHANGED <<removed, unprocessed, selected, adj>>

(* A P-part has no candidate left: the pass fails.                         *)
PassFails ==
  /\ stage = "pass"
  /\ \E i \in SmallestParts : Candidates(i) = {}
  /\ EndPass(col, IF col = <<>> THEN "UNKNOWN" ELSE "FEASIBLE")
  /\ UNCHANGED <<vars, algorithm, decision>>

(* The semigreedy heuristic keeps the first of its best colourings.        *)
Better(f) == IF col = <<>> \/ NColours(f) < NColours(col) THEN f ELSE col

PassSucceeds ==
  /\ stage = "pass" /\ unprocessed = {}
  /\ \E f \in Collapsed(selected, adj) : EndPass(Better(f), "FEASIBLE")
  /\ UNCHANGED <<vars, algorithm, decision>>

(* One turn of single_step: a vertex gets a colour, and the vertices that  *)
(* rules out are removed.                                                  *)
ColourVertex(v) ==
  /\ stage = "1-step" /\ unprocessed # {}
  /\ v \in NextVertices1S
  /\ \E c \in ColourChoice(v) :
       /\ col' = [u \in DOMAIN col \cup {v} |-> IF u = v THEN c ELSE col[u]]
       /\ removed' = removed \cup InvalidatedByColour(v, c)
                             \cup (dpcp.P[Ppart(v)] \ {v})
  /\ unprocessed' = unprocessed \ {Ppart(v)}
  /\ UNCHANGED <<vars, stage, algorithm, passes, selected, adj, heurState, decision>>

(* No colour will do: the heuristic gives up, and leaves what it coloured. *)
SingleStepFails ==
  /\ stage = "1-step" /\ unprocessed # {}
  /\ \E v \in NextVertices1S : ColourChoice(v) = {}
  /\ stage' = AfterHeuristic /\ heurState' = "UNKNOWN"
  /\ UNCHANGED <<vars, algorithm, passes, removed, unprocessed, selected, adj,
                 col, decision>>

SingleStepEnds ==
  /\ stage = "1-step" /\ unprocessed = {}
  /\ stage' = AfterHeuristic /\ heurState' = "FEASIBLE"
  /\ UNCHANGED <<vars, algorithm, passes, removed, unprocessed, selected, adj,
                 col, decision>>

(* feasibility_solve: with a heuristic colouring, or the check switched    *)
(* off, there is nothing to decide.                                        *)
SkipCheck ==
  /\ stage = "check"
  /\ col # <<>> \/ 0 \in Checks
  /\ stage' = "done"
  /\ UNCHANGED <<vars, algorithm, passes, removed, unprocessed, selected, adj,
                 col, heurState, decision>>

(* A check is made: by LP::feasibility_solve, or by main for its solvers.  *)
Checking(check) ==
  \/ stage = "check" /\ col = <<>> /\ check \in Checks \ {0}
  \/ /\ stage = "idle" /\ phase = "node"
     /\ caller.solver = IF check = 1 THEN "feas-enum" ELSE "feas-ilp"

DecideFeasible(check) ==
  /\ Checking(check)
  /\ \E S \in MaximumStableSets :
       Decides(check, S) /\ col' \in Collapsed(S, CheckPairs(S))
  /\ decision' = "FEASIBLE" /\ stage' = "done"
  /\ UNCHANGED <<vars, algorithm, passes, removed, unprocessed, selected, adj,
                 heurState>>

DecideInfeasible(check) ==
  /\ Checking(check)
  /\ \A S \in MaximumStableSets : ~Decides(check, S)
  /\ decision' = "INFEASIBLE" /\ stage' = "done"
  /\ UNCHANGED <<vars, algorithm, passes, removed, unprocessed, selected, adj,
                 col, heurState>>

(* Only the ILP has a time limit. *)
CheckTimesOut ==
  /\ Checking(2) /\ IlpMayTimeOut
  /\ decision' = "UNKNOWN" /\ stage' = "done"
  /\ UNCHANGED <<vars, algorithm, passes, removed, unprocessed, selected, adj,
                 col, heurState>>

HNext ==
  \/ HPrepare
  \/ SkipHeuristic
  \/ \E a \in Algorithms \ {0} : CallHeuristic(a)
  \/ \E v \in dpcp.V : SelectVertex(v)
  \/ PassFails
  \/ PassSucceeds
  \/ \E v \in dpcp.V : ColourVertex(v)
  \/ SingleStepFails
  \/ SingleStepEnds
  \/ SkipCheck
  \/ \E check \in {1, 2} : DecideFeasible(check) \/ DecideInfeasible(check)
  \/ CheckTimesOut

HSpec == HInit /\ [][HNext]_<<vars, hvars>>

-----------------------------------------------------------------------------
(* Properties.                                                             *)

(* The variables have their types, and no vertex is both taken and removed.*)
HTypeOK ==
  /\ stage \in {"idle", "pass", "1-step", "check", "done"}
  /\ algorithm \in Algorithms \cup {0} /\ passes \in 0 .. MaxPasses
  /\ removed \subseteq dpcp.V /\ selected \subseteq dpcp.V \ removed
  /\ unprocessed \subseteq DOMAIN dpcp.P
  /\ adj \subseteq QPairs
  /\ DOMAIN col \subseteq dpcp.V
  /\ algorithm = 1 => DOMAIN col \cap removed = {}
  /\ heurState \in {"none", "FEASIBLE", "UNKNOWN"}
  /\ decision \in {"none", "FEASIBLE", "INFEASIBLE", "UNKNOWN"}

(* The colouring lifted to the input, with the colours numbered from 1.    *)
OriginalCol == Lifted([v \in DOMAIN col |-> col[v] + 1])

(* col.check_coloring on the input, and the assertion of set_color that a  *)
(* Q-part has one colour; the colours are those of col.                    *)
OriginalColIsProper ==
  /\ OriginalCol \in Colourings(DOMAIN OriginalCol, input.E, Range(input.Q),
                                NColours(col))
  /\ \A part \in Range(input.P) : part \cap DOMAIN OriginalCol # {}

(* A heuristic that reports FEASIBLE has a colouring that lifts to one of  *)
(* the input with as many colours as it reports: get_heur_solution and     *)
(* main assert that it is proper, and the search takes the number of its   *)
(* colours as its primal bound.                                            *)
HeuristicIsColouring ==
  (heurState = "FEASIBLE" /\ ~dpcp.isInfeasible /\ dpcp.P # <<>>) =>
    OriginalColIsProper

(* The colours in use are 0, 1, ..., n - 1, also while the 1-step heuristic*)
(* is at work: add_initial_columns asks for the classes of these colours.  *)
ColoursAreConsecutive == Range(col) = 0 .. NColours(col) - 1

(* Between two turns of first_step the selected vertices and the remaining *)
(* candidates fit together, and the pairs recorded on the way are exactly  *)
(* the edges of the collapsed graph that DSATUR is to colour.              *)
SelectionFits ==
  stage = "pass" =>
    /\ selected \in Selections(dpcp.V, dpcp.E,
                   {dpcp.P[i] : i \in DOMAIN dpcp.P \ unprocessed}, Range(dpcp.Q))
    /\ \A v \in dpcp.V \ (removed \cup selected), w \in selected :
         Qpart(v) = Qpart(w) => {v, w} \notin dpcp.E
    /\ adj = {p \in QPairs :
                p[1] < p[2] /\ \E e \in dpcp.E : e \subseteq selected /\
                                  {Qpart(v) : v \in e} = {p[1], p[2]}}

(* Between two turns of single_step every open P-part has a candidate, and *)
(* a candidate whose Q-part has a colour can take it.                      *)
CandidatesFit ==
  stage = "1-step" =>
    \A i \in unprocessed :
      /\ Candidates(i) # {}
      /\ \A v \in Candidates(i), w \in DOMAIN col :
           Qpart(v) = Qpart(w) => {v, w} \notin dpcp.E /\ col[w] \notin AdjColours(v)

(* A 2-step heuristic finds a colouring unless two P-parts compete for a   *)
(* Q-part: UNKNOWN needs an edge inside a Q-part.                          *)
UnknownNeedsConflict ==
  (algorithm \in {2, 3} /\ heurState = "UNKNOWN" /\ dpcp.V # {}) =>
    \E u, v \in dpcp.V : /\ {u, v} \in dpcp.E
                         /\ Qpart(u) = Qpart(v) /\ Ppart(u) # Ppart(v)

(* No pass of the semigreedy heuristic, failed or not, loses a colouring   *)
(* or replaces it by one that is not better.                               *)
BestIsKept ==
  [][(stage = "pass" /\ col # <<>>) =>
       (col' = col \/ (col' # <<>> /\ NColours(col') < NColours(col)))]_<<vars, hvars>>

(* At the nodes of the branch-and-price search, whose P-parts are cliques, *)
(* an answer of the feasibility check is right, and the vertices it colours*)
(* are a selection.                                                        *)
DecisionIsExact ==
  LET selections == Selections(dpcp.V, dpcp.E, Range(dpcp.P), Range(dpcp.Q)) IN
  (caller.solver = "byp" /\ caller.preprocessing) =>
    /\ decision = "INFEASIBLE" => selections = {}
    /\ decision = "FEASIBLE"   => DOMAIN col \in selections

(* "If the maximum stable set has size |A|, then we have found a feasible  *)
(* solution of DPCP" (feas.cpp): what the solvers feas-enum and feas-ilp   *)
(* answer is true of the problem that was read.                            *)
DriverDecisionIsExact ==
  caller.solver \in {"feas-enum", "feas-ilp"} =>
    LET selections == Selections(input.V, input.E, Range(input.P), Range(input.Q)) IN
    /\ decision = "INFEASIBLE" => selections = {}
    /\ decision = "FEASIBLE"   => selections # {}

(* "assert(originalCol.check_coloring(origDpcp))" (lp.cpp): what           *)
(* has_heur_solution takes for a colouring is one.                         *)
HeurSolutionIsColouring ==
  (caller.solver = "byp" /\ stage = "done" /\ col # <<>>) => OriginalColIsProper
=============================================================================
