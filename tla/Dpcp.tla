------------------------------- MODULE Dpcp ---------------------------------
(***************************************************************************)
(* The problem instance of a search node (class DPCPInst, graph.cpp), how  *)
(* the solvers prepare it and how branching derives one from another.      *)
(*                                                                         *)
(* An instance is a graph with two partitions P and Q of its vertices.  A  *)
(* solution selects one vertex of each P-part and colours the selected     *)
(* vertices so that adjacent ones differ and those of a Q-part agree.      *)
(* Removing a vertex moves the later parts of a partition down when a part *)
(* becomes empty, and the index maps with them.                            *)
(*                                                                         *)
(* A vertex is known by its original id: descriptors and current ids are   *)
(* recomputed from the vertex list by every removal and every copy.  The   *)
(* model follows one path of the search tree, from the input to a node.    *)
(***************************************************************************)
EXTENDS Integers, SequencesExt

CONSTANTS
  Inputs,       \* the problems to read: records with fields V, E, P, Q
  Callers,      \* the solvers: "byp", "heur", "feas-enum", "feas-ilp"
  Preprocessing,\* values of params.preprocessing to consider
  Infinity      \* the value of an instance without a colouring

IsPartition(parts, V) ==
  /\ \A i \in DOMAIN parts : parts[i] # {} /\ parts[i] \subseteq V
  /\ \A v \in V : \E i \in DOMAIN parts :
       v \in parts[i] /\ \A j \in DOMAIN parts : v \in parts[j] => i = j

ASSUME DpcpAssumption ==
  /\ \A p \in Inputs :
       /\ IsFiniteSet(p.V) /\ Cardinality(p.V) < Infinity
       /\ p.E \subseteq {e \in SUBSET p.V : Cardinality(e) = 2}
       /\ p.P \in Seq(SUBSET p.V) /\ IsPartition(p.P, p.V)
       /\ p.Q \in Seq(SUBSET p.V) /\ IsPartition(p.Q, p.V)
  /\ Callers \subseteq {"byp", "heur", "feas-enum", "feas-ilp"}
  /\ Preprocessing \subseteq BOOLEAN
  /\ Infinity \in Nat

VARIABLES
  input,    \* the problem as it was read
  caller,   \* the solver that runs, and params.preprocessing
  dpcp,     \* the instance of the current node
  alive,    \* the vertices that the branching decisions leave, whatever the
            \* preprocessing does (not in the program)
  phase     \* "read", "node", or "aborted" by an assertion

vars == <<input, caller, dpcp, alive, phase>>

-----------------------------------------------------------------------------
(* Construction and removal.                                               *)

(* Faulty variant: the last P-part decides. *)
IsGCPOfLastPart(P) == P # <<>> => Cardinality(P[Len(P)]) = 1

IsGCP(P) == \A i \in DOMAIN P : Cardinality(P[i]) <= 1

Index(parts, V) ==
  [v \in V |-> CHOOSE i \in DOMAIN parts : v \in parts[i]]

DPCPInst(p) ==
  [V |-> p.V, E |-> p.E, P |-> p.P, Q |-> p.Q,
   vertex2Ppart |-> Index(p.P, p.V), vertex2Qpart |-> Index(p.Q, p.V),
   isolated |-> {}, isGCP |-> IsGCP(p.P),
   isInfeasible |-> FALSE, hasTrivialSolution |-> FALSE]

(* The partition without vertex v of part i, and without part i if empty. *)
Without(parts, i, v) ==
  IF parts[i] = {v} THEN RemoveAt(parts, i)
  ELSE [parts EXCEPT ![i] = @ \ {v}]

(* Faulty variant: the later parts move although the part is not empty. *)
ReindexedAlways(index, parts, i, v) ==
  [u \in DOMAIN index \ {v} |->
     IF \E k \in i + 1 .. Len(parts) : u \in parts[k]
     THEN (CHOOSE k \in i + 1 .. Len(parts) : u \in parts[k]) - 1
     ELSE index[u]]

(* The index map without v: the vertices of the parts behind an emptied    *)
(* part are told the place their part has moved to.                        *)
Reindexed(index, parts, i, v) ==
  [u \in DOMAIN index \ {v} |->
     IF parts[i] = {v} /\ \E k \in i + 1 .. Len(parts) : u \in parts[k]
     THEN (CHOOSE k \in i + 1 .. Len(parts) : u \in parts[k]) - 1
     ELSE index[u]]

RemoveVertex(d, v) ==
  LET pi == d.vertex2Ppart[v]
      qj == d.vertex2Qpart[v]
  IN [d EXCEPT !.V = @ \ {v},
               !.E = {e \in @ : v \notin e},
               !.P = Without(@, pi, v),
               !.Q = Without(@, qj, v),
               !.vertex2Ppart = Reindexed(@, d.P, pi, v),
               !.vertex2Qpart = Reindexed(@, d.Q, qj, v),
               !.isInfeasible = @ \/ d.P[pi] = {v}]

RemoveAll(d, S) == FoldSet(LAMBDA v, acc : RemoveVertex(acc, v), d, S)

-----------------------------------------------------------------------------
(* Preprocessing.                                                          *)

(* Faulty variant: the P-parts are left as they are. *)
Step1Skipped(d) == d

(* Every P-part becomes a clique. *)
Step1(d) ==
  [d EXCEPT !.E = @ \cup UNION {kSubset(2, d.P[i]) : i \in DOMAIN d.P}]

Neighbours(d, v) == {u \in d.V : {u, v} \in d.E}

(* The neighbours in the same Q-part of the vertex of a P-part.            *)
Conflicting(d, i) ==
  UNION {{u \in Neighbours(d, v) : d.vertex2Qpart[u] = d.vertex2Qpart[v]}
         : v \in d.P[i]}

(* One pass of step 2: the first P-part of one vertex with such neighbours *)
(* removes them, and the step starts again.                                *)
Pass(d) ==
  LET forced == {i \in DOMAIN d.P :
                   Cardinality(d.P[i]) = 1 /\ Conflicting(d, i) # {}}
  IN IF forced = {} THEN d ELSE RemoveAll(d, Conflicting(d, Min(forced)))

(* Every pass but the last removes a vertex.                               *)
Step2(d) ==
  LET n == Cardinality(d.V)
      passes[k \in 0 .. n] == IF k = 0 THEN d ELSE Pass(passes[k - 1])
  IN passes[n]

Isolated(d) == {u \in d.V : Neighbours(d, u) = {}}

(* The assertion of step 3: an isolated vertex is alone in its P-part.     *)
Step3Assertion(d) ==
  \A u \in Isolated(d) : d.P[d.vertex2Ppart[u]] = {u}

(* Faulty variant: removing isolated vertices raises infeasibility. *)
Step3Infeasible(d) ==
  [RemoveAll(d, Isolated(d)) EXCEPT !.isolated = @ \cup Isolated(d)]

(* Isolated vertices are saved and removed, the infeasibility that raises  *)
(* is taken back.                                                          *)
Step3(d) ==
  [RemoveAll(d, Isolated(d)) EXCEPT !.isolated = @ \cup Isolated(d),
                                    !.isInfeasible = d.isInfeasible]

Step4(d) == [d EXCEPT !.hasTrivialSolution = @ \/ Len(d.P) = 1]

(* preprocess(clique), as far as step 2.                                   *)
Reduced(d, clique) == Step2(IF clique THEN Step1(d) ELSE d)

Preprocessed(d, clique) == Step4(Step3(Reduced(d, clique)))

-----------------------------------------------------------------------------
(* Branching.                                                              *)

PreselectVertex(d, v) == RemoveAll(d, d.P[d.vertex2Ppart[v]] \ {v})

ForbidVertex(d, v) == RemoveVertex(d, v)

(* The vertices LP::solve may choose to branch on: whatever the values of  *)
(* the relaxation, the chosen P-part has more than one vertex.             *)
BranchingVertices(d) ==
  {v \in d.V : Cardinality(d.P[d.vertex2Ppart[v]]) > 1}

(* Faulty variant: the left son forbids the vertex as well. *)
SonBothForbid(d, v, side) ==
  IF caller.preprocessing THEN Preprocessed(ForbidVertex(d, v), FALSE)
  ELSE ForbidVertex(d, v)

(* The instance of a son: v is preselected on the left and forbidden on    *)
(* the right, then the copy is preprocessed.                               *)
Decided(d, v, side) ==
  IF side = "left" THEN PreselectVertex(d, v) ELSE ForbidVertex(d, v)

Son(d, v, side) ==
  IF caller.preprocessing THEN Preprocessed(Decided(d, v, side), FALSE)
  ELSE Decided(d, v, side)

-----------------------------------------------------------------------------
Init ==
  /\ input \in Inputs
  /\ caller \in [solver : Callers, preprocessing : Preprocessing]
  /\ dpcp = DPCPInst(input)
  /\ alive = input.V
  /\ phase = "read"

(* The feasibility solvers preprocess whatever the options say; only the   *)
(* branch-and-price solver completes the cliques.                          *)
MustPreprocess ==
  caller.preprocessing \/ caller.solver \in {"feas-enum", "feas-ilp"}

Prepare ==
  /\ phase = "read"
  /\ MustPreprocess => Step3Assertion(Reduced(dpcp, caller.solver = "byp"))
  /\ dpcp' = IF MustPreprocess
             THEN Preprocessed(dpcp, caller.solver = "byp") ELSE dpcp
  /\ phase' = "node"
  /\ UNCHANGED <<input, caller, alive>>

PrepareAborts ==
  /\ phase = "read"
  /\ MustPreprocess
  /\ ~Step3Assertion(Reduced(dpcp, caller.solver = "byp"))
  /\ phase' = "aborted"
  /\ UNCHANGED <<input, caller, dpcp, alive>>

(* LP::solve looks for a branching vertex unless one of the three flags    *)
(* settles the node.                                                       *)
Branching(v) ==
  /\ phase = "node" /\ caller.solver = "byp"
  /\ ~dpcp.isInfeasible /\ ~dpcp.hasTrivialSolution /\ ~dpcp.isGCP
  /\ v \in BranchingVertices(dpcp)

(* The vertices of the input that a decision on v takes away.              *)
TakenAway(v, side) ==
  IF side = "left"
  THEN (UNION {input.P[i] : i \in {j \in DOMAIN input.P : v \in input.P[j]}}) \ {v}
  ELSE {v}

Branch(v, side) ==
  /\ Branching(v)
  /\ dpcp' = Son(dpcp, v, side)
  /\ alive' = alive \ TakenAway(v, side)
  /\ UNCHANGED <<input, caller, phase>>

BranchLeft  == \E v \in dpcp.V : Branch(v, "left")
BranchRight == \E v \in dpcp.V : Branch(v, "right")

Next == Prepare \/ PrepareAborts \/ BranchLeft \/ BranchRight

Spec == Init /\ [][Next]_vars

-----------------------------------------------------------------------------
(* What the instances mean.                                                *)

(* The selections of a problem, whose partitions are given as sets.        *)
Selections(V, E, P, Q) ==
  {S \in SUBSET V :
     /\ \A part \in P : Cardinality(S \cap part) = 1
     /\ \A part \in Q : \A u, w \in S \cap part : {u, w} \notin E}

(* The colourings of a selection with the colours 1 .. k.                  *)
Colourings(S, E, Q, k) ==
  {f \in [S -> 1 .. k] :
     /\ \A u, w \in S : {u, w} \in E => f[u] # f[w]
     /\ \A part \in Q : \A u, w \in S \cap part : f[u] = f[w]}

ColourNumber(S, E, Q) ==
  Min({k \in 0 .. Cardinality(S) : Colourings(S, E, Q, k) # {}})

Optimum(V, E, P, Q) ==
  Min({Infinity} \cup {ColourNumber(S, E, Q) : S \in Selections(V, E, P, Q)})

(* What a node's instance is worth to the search that reads its flags.     *)
NodeValue(d) ==
  IF d.isInfeasible THEN Infinity
  ELSE IF d.hasTrivialSolution THEN 1
  ELSE Optimum(d.V, d.E, Range(d.P), Range(d.Q))

(* What it should be worth: the input without the vertices that the        *)
(* branching decisions took away.                                          *)
Reference ==
  Optimum(alive, input.E, {part \cap alive : part \in Range(input.P)},
          Range(input.Q))

(* The undecided vertices, which branching must use up.                    *)
Undecided(d) == Cardinality(BranchingVertices(d))

(* The GCP instance that replaces an instance whose P-parts are single     *)
(* vertices: the Q-parts, adjacent when vertices of theirs are.            *)
GcpGraph(d) ==
  [nodes |-> DOMAIN d.Q,
   edges |-> {{d.vertex2Qpart[v] : v \in e} : e \in d.E}]

(* Faulty variant: isolated vertices always get the first colour. *)
IsolatedColourFirst(f, u) == 1

(* color_isolated_vertices: the colour of its Q-part, or the first one.    *)
IsolatedColour(f, u) ==
  LET same == {w \in DOMAIN f : \E part \in Range(input.Q) : {u, w} \subseteq part}
  IN IF same = {} THEN 1 ELSE f[CHOOSE w \in same : TRUE]

(* The colouring f of the node as a colouring of the input.                *)
Lifted(f) ==
  [u \in DOMAIN f \cup dpcp.isolated |->
     IF u \in DOMAIN f THEN f[u] ELSE IsolatedColour(f, u)]

-----------------------------------------------------------------------------
(* Properties.                                                             *)

(* The instance has the types of its class, and no part is ever empty.     *)
TypeOK ==
  /\ caller \in [solver : Callers, preprocessing : Preprocessing]
  /\ alive \subseteq input.V
  /\ phase \in {"read", "node", "aborted"}
  /\ dpcp.V \subseteq input.V /\ dpcp.isolated \subseteq input.V \ dpcp.V
  /\ \A e \in dpcp.E : e \subseteq dpcp.V /\ Cardinality(e) = 2
  /\ \A part \in Range(dpcp.P) \cup Range(dpcp.Q) :
       part # {} /\ part \subseteq dpcp.V
  /\ DOMAIN dpcp.vertex2Ppart = dpcp.V /\ DOMAIN dpcp.vertex2Qpart = dpcp.V
  /\ {dpcp.isGCP, dpcp.isInfeasible, dpcp.hasTrivialSolution} \subseteq BOOLEAN

(* The partitions and the index maps agree, after any removals.            *)
Consistent ==
  \A v \in dpcp.V :
    /\ \A i \in DOMAIN dpcp.P : v \in dpcp.P[i] <=> dpcp.vertex2Ppart[v] = i
    /\ \A j \in DOMAIN dpcp.Q : v \in dpcp.Q[j] <=> dpcp.vertex2Qpart[v] = j
    /\ dpcp.vertex2Ppart[v] \in DOMAIN dpcp.P
    /\ dpcp.vertex2Qpart[v] \in DOMAIN dpcp.Q

(* Whatever was preprocessed on the way, a node is worth what its branching*)
(* decisions leave of the input: the reductions keep the optimum and the   *)
(* flags isInfeasible and hasTrivialSolution are right.  (Where only saved *)
(* isolated vertices remain, the one colour they need is not counted here: *)
(* get_lp_solution adds it.)                                               *)
NodeIsExact ==
  phase = "node" =>
    IF dpcp.P = <<>> /\ ~dpcp.isInfeasible THEN Reference = 1
    ELSE NodeValue(dpcp) = Reference

(* Both sons of a node have fewer undecided vertices.                      *)
SonsAreSmaller ==
  \A v \in dpcp.V, side \in {"left", "right"} :
    Branching(v) => Undecided(Son(dpcp, v, side)) < Undecided(dpcp)

(* Branching splits the colourings of a node: neither son is better, one   *)
(* is as good, and both have fewer undecided vertices.  The tree search    *)
(* (module BranchAndPrice) is built on it.                                 *)
BranchingSplits ==
  /\ \A v \in dpcp.V : Branching(v) =>
       LET worth(side) ==
             LET d == Son(dpcp, v, side)
             IN  IF d.P = <<>> /\ ~d.isInfeasible THEN 1 ELSE NodeValue(d)
       IN  Min({worth("left"), worth("right")}) = NodeValue(dpcp)
  /\ SonsAreSmaller

(* Every colouring of a node extends to the input: the saved isolated      *)
(* vertices get the colour of their Q-part, all P-parts are coloured, and  *)
(* the assertions of set_color and check_coloring hold.                    *)
ColouringLifts ==
  (phase = "node" /\ ~dpcp.isInfeasible) =>
    \A S \in Selections(dpcp.V, dpcp.E, Range(dpcp.P), Range(dpcp.Q)) :
      LET k == ColourNumber(S, dpcp.E, Range(dpcp.Q)) IN
      \A f \in Colourings(S, dpcp.E, Range(dpcp.Q), k) :
        /\ Lifted(f) \in Colourings(S \cup dpcp.isolated, input.E,
                                    Range(input.Q), IF k = 0 THEN 1 ELSE k)
        /\ \A part \in Range(input.P) :
             (S \cup dpcp.isolated) \cap part # {}

(* What the graph handed to the graph colouring solver is worth, with and  *)
(* without preprocessing: if it is simple, as many colours as the instance;*)
(* an edge inside a Q-part makes a node that is adjacent to itself, and    *)
(* that is so exactly when the instance has no solution.  Preprocessing    *)
(* finds those out first; with --preproc-off the solver is handed a graph  *)
(* with a loop and nobody has noticed that the instance is infeasible.     *)
GcpGraphIsExact ==
  (/\ phase = "node" /\ caller.solver = "byp"
   /\ dpcp.isGCP /\ ~dpcp.isInfeasible) =>
    LET g     == GcpGraph(dpcp)
        loops == {e \in g.edges : Cardinality(e) = 1}
        worth == Optimum(dpcp.V, dpcp.E, Range(dpcp.P), Range(dpcp.Q))
    IN  /\ caller.preprocessing => loops = {}
        /\ loops # {} => worth = Infinity
        /\ loops = {} => /\ \A e \in g.edges : Cardinality(e) = 2
                         /\ worth = ColourNumber(g.nodes, g.edges, {})

(* The branch-and-price solver completes the cliques of P at the root, and *)
(* removals keep them: the assertion of step 3 holds there and in the sons *)
(* of every node, which do not complete them again.                        *)
CliquesLast ==
  caller.solver = "byp" =>
    /\ phase # "aborted"
    /\ \A v \in dpcp.V, side \in {"left", "right"} :
         Branching(v) /\ caller.preprocessing =>
           Step3Assertion(Reduced(Decided(dpcp, v, side), FALSE))

(* "Since we complete cliques, u should be the only vertex in its P-part"  *)
(* (graph.cpp): the assertion of step 3 never fails.                       *)
IsolatedIsAlone == phase # "aborted"
=============================================================================
