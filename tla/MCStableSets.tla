---------------------------- MODULE MCStableSets ----------------------------
(* The values TLC gives the constants of StableSets: graphs of every       *)
(* density, with weights of which some are zero and some are equal.        *)
EXTENDS StableSets

Ring == [i \in 0 .. NCount - 1 |-> {i, (i + 1) % NCount}]
Rim == ToSet([i \in 1 .. NCount |-> Ring[i - 1]])
Pairs == kSubset(2, Vertices)

Graphs ==
  {{},                                              \* no edge
   {{0, 1}},                                        \* a sparse one
   Rim \ {{0, NCount - 1}},                         \* a path
   Rim,                                             \* a cycle
   {{0, i} : i \in 1 .. NCount - 1},                \* a star
   {{0, i} : i \in 1 .. NCount - 1} \cup (Rim \ {{0, 1}, {0, NCount - 1}}),
   {e \in Pairs : \E i, j \in e : i < 3 /\ 3 <= j}, \* complete bipartite
   {{0, 1}, {0, 2}, {1, 5}, {2, 3}, {2, 4}, {2, 5}, {3, 4}},
   {{0, 1}, {0, 2}, {1, 2}, {3, 4}, {3, 5}, {4, 5}, {0, 3}, {1, 4}},
   Pairs \ {{0, 1}, {2, 3}, {4, 5}},                \* dense ones
   Pairs \ {{0, 1}, {1, 2}, {2, 3}},
   Pairs}

WeightLists ==
  {<<4, 4, 4, 3, 4, 2>>, <<1, 1, 1, 1, 1, 1>>, <<5, 3, 0, 4, 2, 6>>, <<2, 6, 6, 2, 3, 3>>,
   <<0, 0, 0, 7, 0, 0>>, <<6, 4, 5, 3, 5, 4>>, <<3, 1, 2, 1, 3, 2>>, <<8, 2, 2, 2, 2, 2>>,
   <<1, 6, 3, 3, 6, 1>>, <<7, 7, 1, 1, 0, 2>>}
  \cup {[i \in 1 .. NCount |-> (a * i * i + b * i + 1) % 7] : a, b \in 0 .. 6}

AdjOf(g) == [v \in Vertices |-> SetToSortSeq({u \in Vertices : {u, v} \in g}, <)]
Weights(w) == [v \in Vertices |-> w[v + 1]]

\* On 10 vertices: 0 and 1 are the basis, 2 is adjacent to both, the others to
\* one of them.
MCPath ==
  {[adj |-> AdjOf({{0, i} : i \in 2 .. 8} \cup {{1, 2}, {1, 9}}),
    weights |-> Weights(<<13, 12, 8, 6, 5, 4, 3, 2, 1, 7>>)]}

MCInstances == {[adj |-> AdjOf(g), weights |-> Weights(w)] : g \in Graphs, w \in WeightLists}
=============================================================================
