------------------------------ MODULE MCPricing -------------------------------
(* The values TLC gives the constants of Pricing: every graph on four      *)
(* vertices, with and without the edges inside P-parts; the vertices are   *)
(* spread over two Q-parts, evenly or three to one.                        *)
EXTENDS Pricing

MCParts == {[p |-> <<1, 1, 2, 3>>, q |-> <<1, 2, 1, 2>>],
            [p |-> <<1, 2, 3, 3>>, q |-> <<1, 1, 1, 2>>]}

MCGamma == {<<11, 6, 6>>, <<6, 6, 6>>, <<5, 11, 0>>, <<4, 4, 5>>, <<12, 7, 11>>}
MCMu    == {<<0, 0>>, <<3, 0>>, <<5, 4>>}

MCEdges == SUBSET {{1, 2}, {1, 3}, {1, 4}, {2, 3}, {2, 4}, {3, 4}}

\* Stable sets of a graph, in two orders, as the pool may hold them.
MCPools(E) ==
  LET sets == SelectSeq(<<{1}, {4}, {}, {2, 4}, {1, 3}, {3, 4}, {1, 4}, {2, 3}, {2, 4}>>,
                        LAMBDA S : \A u, v \in S : {u, v} \notin E)
  IN {<< >>, sets, Reverse(sets)}

MCInstances ==
  UNION {{[p |-> parts.p, q |-> parts.q, E |-> E, gamma |-> g, mu |-> m, pool |-> pool] :
            g \in MCGamma, m \in {n \in MCMu : parts.q[2] = 2 \/ n[2] = 0},
            pool \in MCPools(E)} : E \in MCEdges, parts \in MCParts}

MCOptions ==
  {[method |-> m, dense |-> FALSE, k |-> 1, calls |-> 2, alpha |-> 10] : m \in 0 .. 5}
    \cup {[method |-> 6, dense |-> TRUE, k |-> 2, calls |-> 1, alpha |-> 0],
          [method |-> 1, dense |-> FALSE, k |-> 2, calls |-> 3, alpha |-> 10]}

\* A graph on five vertices with all edges but two, and the default options.
MCDenseInstances ==
  {[p |-> <<1, 2, 3, 4, 5>>, q |-> <<1, 2, 2, 3, 3>>,
    E |-> kSubset(2, 1 .. 5) \ {{1, 4}, {2, 3}},
    gamma |-> <<12, 5, 5, 0, 6>>, mu |-> <<0, 0, 5>>, pool |-> << >>]}

MCDefaultOptions ==
  {[method |-> 4, dense |-> FALSE, k |-> 10, calls |-> 1, alpha |-> 1]}
=============================================================================
