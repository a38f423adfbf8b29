--------------------------- MODULE WeightedGraph ---------------------------
(***************************************************************************)
(* The instance of one pricing call of exactcolors: a graph whose vertices *)
(* have integer weights, the scaled dual values of the LP.                 *)
(***************************************************************************)
EXTENDS Integers, Sequences, SequencesExt, FiniteSetsExt

CONSTANTS
  NCount,    \* ncount
  Cutoff     \* cutoff: a set of weight Cutoff is worth 1

ASSUME WeightedGraphAssumption == NCount \in Nat \ {0} /\ Cutoff \in Nat \ {0}

VARIABLES
  adj,       \* the adjacency list of a vertex, sorted by id
  nweights   \* nweights[v], the weight of a vertex

Vertices == 0 .. NCount - 1
Neighbours(v) == ToSet(adj[v])
Weight(S) == MapThenSumSet(LAMBDA v : nweights[v], S)
Stable(S) == \A v \in S : Neighbours(v) \cap S = {}
HeaviestStable == Max({Weight(S) : S \in {T \in SUBSET Vertices : Stable(T)}})

\* Twice the number of edges; the density of the graph is EdgeEnds / MaxEnds.
EdgeEnds == MapThenSumSet(LAMBDA v : Len(adj[v]), Vertices)
MaxEnds == NCount * (NCount - 1)

\* The first vertex of a list for which f is least.
FirstLeast(list, f(_)) ==
  list[CHOOSE i \in DOMAIN list : \A j \in DOMAIN list :
         f(list[i]) < f(list[j]) \/ (f(list[i]) = f(list[j]) /\ i <= j)]
=============================================================================
