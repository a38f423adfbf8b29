---------------------------- MODULE GreedyColouring -----------------------------
(***************************************************************************)
(* The greedy colouring of exactcolors (src/exactcolors/greedy.c) that the *)
(* heuristics call on the collapsed graph.  A graph is a set of nodes with *)
(* a set of pairs for its edges; a partial colouring is a function of the  *)
(* nodes that have a colour.                                               *)
(***************************************************************************)
EXTENDS Integers, FiniteSetsExt

Adj(v, pairs) == {p[1] : p \in {q \in pairs : q[2] = v}}
                   \cup {p[2] : p \in {q \in pairs : q[1] = v}}

\* The colours that the neighbours of v have.
ColoursAround(f, v, pairs) == {f[u] : u \in Adj(v, pairs) \cap DOMAIN f}

\* The search starts again whenever a neighbour has the colour it tries: v
\* gets the least colour that no neighbour has.
color_node(f, v, pairs) ==
  LET colour == Min((0 .. Cardinality(DOMAIN f)) \ ColoursAround(f, v, pairs))
  IN [u \in DOMAIN f \cup {v} |-> IF u = v THEN colour ELSE f[u]]

satdegree(f, v, pairs)  == Cardinality(ColoursAround(f, v, pairs))
freedegree(f, v, pairs) == Cardinality(Adj(v, pairs) \ DOMAIN f)

\* The most saturated nodes, of the greatest free degree.  The program takes
\* the first one in an order of the nodes that its callers do not keep.
NextNodes(f, nodes, pairs) ==
  {v \in nodes \ DOMAIN f : \A u \in nodes \ DOMAIN f :
     \/ satdegree(f, v, pairs) > satdegree(f, u, pairs)
     \/ /\ satdegree(f, v, pairs) = satdegree(f, u, pairs)
        /\ freedegree(f, v, pairs) >= freedegree(f, u, pairs)}

\* The colourings it may return.
COLORdsatur(nodes, pairs) ==
  LET turn(i, fs) ==
        UNION {{color_node(f, v, pairs) : v \in NextNodes(f, nodes, pairs)} : f \in fs}
  IN FoldSet(turn, {[v \in {} |-> 0]}, 1 .. Cardinality(nodes))
=============================================================================
