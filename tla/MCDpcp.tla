------------------------------ MODULE MCDpcp --------------------------------
(* The values TLC gives the constants of Dpcp: all problems on N vertices, *)
(* up to the names of the vertices.                                        *)
EXTENDS Dpcp

CONSTANT N

\* Numberings of the parts of a partition, by their smallest vertices.
Numberings ==
  {f \in [1 .. N -> 1 .. N] :
     /\ f[1] = 1
     /\ \A i \in 2 .. N : \E j \in 1 .. i - 1 : f[i] <= f[j] + 1}

PartsOf(f) == [k \in Range(f) |-> {i \in 1 .. N : f[i] = k}]

\* The shapes of P: intervals of vertices, the large ones first.
Shapes ==
  {f \in Numberings :
     /\ \A i \in 2 .. N : f[i - 1] <= f[i]
     /\ \A k \in 2 .. f[N] : Cardinality(PartsOf(f)[k - 1]) >= Cardinality(PartsOf(f)[k])}

MCInputs ==
  {[V |-> 1 .. N, E |-> e, P |-> PartsOf(p), Q |-> PartsOf(q)]
   : e \in SUBSET kSubset(2, 1 .. N), p \in Shapes, q \in Numberings}

MCHeuristicOnly == {"heur"}
MCAllCallers == {"byp", "heur", "feas-enum", "feas-ilp"}
MCBoth == BOOLEAN
MCOn == {TRUE}
=============================================================================
