-------------------------- MODULE ColorGraphProofs --------------------------
(***************************************************************************)
(* Proofs about branching in exactcolors: the children inherit covers by   *)
(* stable sets, a lost edge list is recovered, and colourings travel up.   *)
(***************************************************************************)
EXTENDS ColorGraph, FiniteSetTheorems, SequenceTheorems, WellFoundedInduction, TLAPS

-----------------------------------------------------------------------------
(* A nonempty set of naturals has a least element. *)
LEMMA LeastNatural ==
  ASSUME NEW T \in SUBSET Nat, T # {}
  PROVE  \E m \in T : \A k \in T : m <= k
<1>1. PICK x \in T : \A y \in T : ~(<<y, x>> \in OpToRel(<, Nat))
  BY NatLessThanWellFounded, WFMin
<1>2. \A y \in T : ~(y < x)
  BY <1>1 DEF OpToRel
<1>. QED  BY <1>2

-----------------------------------------------------------------------------
(* Edges.                                                                  *)

(* A set of two elements is a pair. *)
LEMMA PairCardinality ==
  ASSUME NEW u, NEW w
  PROVE  /\ IsFiniteSet({u, w})
         /\ Cardinality({u, w}) = IF u = w THEN 1 ELSE 2
<1>1. IsFiniteSet({u}) /\ Cardinality({u}) = 1
  BY FS_Singleton
<1>2. {u, w} = {u} \cup {w} /\ (w \in {u} <=> u = w)
  OBVIOUS
<1>3. /\ IsFiniteSet({u} \cup {w})
      /\ Cardinality({u} \cup {w}) = IF w \in {u} THEN Cardinality({u})
                                     ELSE Cardinality({u}) + 1
  BY <1>1, FS_AddElement
<1>. QED  BY <1>1, <1>2, <1>3

(* An edge joins two different vertices.                                   *)
LEMMA EdgeIsPair ==
  ASSUME NEW n \in Nat, NEW e \in Edges(n)
  PROVE  \E u, w \in Nodes(n) : u # w /\ e = {u, w}
<1>1. IsFiniteSet(Nodes(n))
  BY FS_Interval DEF Nodes
<1>2. IsFiniteSet(e) /\ Cardinality(e) = 2 /\ e \subseteq Nodes(n)
  BY <1>1, FS_Subset DEF Edges
<1>3. PICK u \in e : TRUE
  BY <1>2, FS_EmptySet
<1>4. IsFiniteSet(e \ {u}) /\ Cardinality(e \ {u}) = 1
  BY <1>2, <1>3, FS_RemoveElement
<1>5. PICK w : e \ {u} = {w}
  BY <1>4, FS_Singleton
<1>. QED  BY <1>2, <1>3, <1>5

(* Two different vertices make an edge.                                    *)
LEMMA PairIsEdge ==
  ASSUME NEW n \in Nat, NEW u \in Nodes(n), NEW w \in Nodes(n), u # w
  PROVE  {u, w} \in Edges(n)
BY PairCardinality DEF Edges

\* The contraction maps {u, w} to e.
Becomes(e, u, w, v1, v2) ==
  /\ u # w
  /\ new_eindex(u, v1, v2) \in e /\ new_eindex(w, v1, v2) \in e
  /\ new_eindex(u, v1, v2) # new_eindex(w, v1, v2)
  /\ \A x \in e : x = new_eindex(u, v1, v2) \/ x = new_eindex(w, v1, v2)

(* Each edge of a contracted graph comes from one. *)
LEMMA ContractedEdgeOrigin ==
  ASSUME NEW n \in Nat, NEW E, E \subseteq Edges(n),
         NEW v1 \in Nodes(n), NEW v2 \in Nodes(n),
         NEW e \in contract_elist(E, v1, v2)
  PROVE  \E u, w \in Nodes(n) : {u, w} \in E /\ Becomes(e, u, w, v1, v2)
<1> DEFINE f(v) == new_eindex(v, v1, v2)
<1>1. PICK d \in E : e = {f(v) : v \in d}
  BY DEF contract_elist, Simplified
<1>2. Cardinality(e) = 2
  BY DEF contract_elist, Simplified
<1>3. PICK u, w \in Nodes(n) : u # w /\ d = {u, w}
  BY EdgeIsPair
<1>4. e = {f(u), f(w)}
  BY <1>1, <1>3
<1>5. f(u) # f(w)
  <2>1. Cardinality({f(u), f(w)}) = IF f(u) = f(w) THEN 1 ELSE 2
    BY PairCardinality, Zenon
  <2>. HIDE DEF f
  <2>. QED  BY <1>2, <1>4, <2>1
<1>. QED  BY <1>3, <1>4, <1>5 DEF Becomes

(* Contraction: an edge becomes an edge, unless it joins the two vertices. *)
LEMMA ContractedEdges ==
  ASSUME NEW n \in Nat, NEW E, E \subseteq Edges(n),
         NEW v1 \in Nodes(n), NEW v2 \in Nodes(n), v1 < v2
  PROVE  /\ contract_elist(E, v1, v2) \subseteq Edges(n - 1)
         /\ \A u, w \in Nodes(n) :
              {u, w} \in E /\ {u, w} # {v1, v2} /\ u # w =>
                {new_eindex(u, v1, v2), new_eindex(w, v1, v2)} \in contract_elist(E, v1, v2)
<1> DEFINE f(v) == new_eindex(v, v1, v2)
<1> DEFINE C == contract_elist(E, v1, v2)
<1>0. \A v \in Nodes(n) : f(v) \in Nodes(n - 1)
  BY DEF Nodes, new_eindex
<1>1. \A u, w \in Nodes(n) : {u, w} \in E => {f(u), f(w)} \in {{f(v) : v \in e} : e \in E}
  <2>1. \A u, w \in Nodes(n) : {f(v) : v \in {u, w}} = {f(u), f(w)}
    OBVIOUS
  <2>. QED  BY <2>1
<1>2. C = {e \in {{f(v) : v \in e} : e \in E} : Cardinality(e) = 2}
  BY DEF contract_elist, Simplified
<1>4. C \subseteq Edges(n - 1)
  <2>1. SUFFICES ASSUME NEW e \in C PROVE e \in Edges(n - 1)
    OBVIOUS
  <2>2. PICK u, w \in Nodes(n) : Becomes(e, u, w, v1, v2)
    BY ContractedEdgeOrigin
  <2>3. n - 1 \in Nat
    BY DEF Nodes
  <2>4. e = {f(u), f(w)} /\ f(u) # f(w)
    BY <2>2 DEF Becomes
  <2>. HIDE DEF f
  <2>. QED  BY <1>0, <2>2, <2>3, <2>4, PairIsEdge
<1>5. ASSUME NEW u \in Nodes(n), NEW w \in Nodes(n),
             {u, w} \in E, {u, w} # {v1, v2}, u # w
      PROVE  {f(u), f(w)} \in C
  <2>1. f(u) # f(w)
    BY <1>5 DEF Nodes, new_eindex
  <2>2. Cardinality({f(u), f(w)}) = 2
    BY <2>1, PairCardinality
  <2>. QED  BY <1>1, <1>2, <1>5, <2>2
<1>. QED  BY <1>4, <1>5

-----------------------------------------------------------------------------
(* What the children inherit.                                              *)

\* A node's LP can be built from these sets, and COLORcheck_set accepts each.
Cover(sets, n, E) ==
  /\ UNION sets = Nodes(n)
  /\ \A S \in sets : S # {} /\ Stable(S, E)

(* transfer_same_cclasses: a cover of a graph by stable sets becomes one of  *)
(* the graph in which v1 and v2 are contracted.                            *)
LEMMA SameChildIsCovered ==
  ASSUME NEW n \in Nat, NEW E, E \subseteq Edges(n),
         NEW v1 \in Nodes(n), NEW v2 \in Nodes(n), v1 < v2,
         NEW sets, Cover(sets, n, E)
  PROVE  Cover(transfer_same_cclasses(sets, Neighbours(v2, E), v1, v2),
               n - 1, contract_elist(E, v1, v2))
<1>0. \A e \in contract_elist(E, v1, v2) :
        \E u, w \in Nodes(n) : {u, w} \in E /\ Becomes(e, u, w, v1, v2)
  BY ContractedEdgeOrigin
<1> DEFINE N2 == Neighbours(v2, E)
           f(v) == new_eindex(v, v1, v2)
           shift(v) == IF v < v2 THEN v ELSE v - 1
           back(x) == IF x < v2 THEN x ELSE x + 1
           leaving(S) == {v2} \cup IF S \cap N2 # {} THEN {v1} ELSE {}
           moved(S) == {shift(v) : v \in S \ leaving(S)}
           covered == \E S \in sets : v1 \in S \ leaving(S)
           images == {moved(S) : S \in sets}
           C == contract_elist(E, v1, v2)
           result == (images \cup IF covered THEN {} ELSE {{v1}}) \ {{}}
<1>1. transfer_same_cclasses(sets, N2, v1, v2) = result
  BY DEF transfer_same_cclasses, prune_duplicated_sets
<1>2. \A S \in sets : S \subseteq Nodes(n) /\ S # {} /\ Stable(S, E)
  BY DEF Cover
<1>3. ASSUME NEW S \in sets
      PROVE  moved(S) \subseteq Nodes(n - 1)
  <2>1. \A v \in S \ leaving(S) : v \in Nodes(n) /\ v # v2
    BY <1>2
  <2>2. \A v \in Nodes(n) : v # v2 => shift(v) \in Nodes(n - 1)
    BY DEF Nodes
  <2>. QED  BY <2>1, <2>2
<1>4. ASSUME NEW S \in sets, NEW u \in Nodes(n), f(u) \in moved(S)
      PROVE  IF u = v2 THEN v1 \in S \ leaving(S) ELSE u \in S \ leaving(S)
  <2>1. PICK x \in S \ leaving(S) : f(u) = shift(x)
    BY <1>4
  <2>2. x \in Nodes(n) /\ x # v2
    BY <1>2, <2>1
  <2>3. x = IF u = v2 THEN v1 ELSE u
    BY <2>1, <2>2 DEF new_eindex, Nodes
  <2>. QED  BY <2>1, <2>3
<1>5. ASSUME NEW S \in sets
      PROVE  Stable(moved(S), C)
  <2>1. SUFFICES ASSUME NEW e \in C, e \subseteq moved(S) PROVE FALSE
    BY DEF Stable
  <2>0. PICK u, w \in Nodes(n) : {u, w} \in E /\ Becomes(e, u, w, v1, v2)
    BY <1>0
  <2>2. u # w /\ {u, w} \in E /\ f(u) \in e /\ f(w) \in e
    BY <2>0 DEF Becomes
  <2>3. f(u) \in moved(S) /\ f(w) \in moved(S)
    BY <2>1, <2>2
  <2>4. CASE u = v2
    <3>1. w \in N2
      BY <2>2, <2>4 DEF Neighbours
    <3>2. v1 \in S \ leaving(S) /\ w \in S
      BY <1>4, <2>2, <2>3, <2>4
    <3>. QED  BY <3>1, <3>2
  <2>5. CASE w = v2
    <3>1. u \in N2
      BY <2>2, <2>5 DEF Neighbours
    <3>2. v1 \in S \ leaving(S) /\ u \in S
      BY <1>4, <2>2, <2>3, <2>5
    <3>. QED  BY <3>1, <3>2
  <2>6. CASE u # v2 /\ w # v2
    <3>1. u \in S /\ w \in S
      BY <1>4, <2>3, <2>6
    <3>. QED  BY <1>2, <2>2, <3>1 DEF Stable
  <2>. QED  BY <2>4, <2>5, <2>6
<1>6. Stable({v1}, C)
  <2>1. SUFFICES ASSUME NEW e \in C, e \subseteq {v1} PROVE FALSE
    BY DEF Stable
  <2>2. PICK u, w \in Nodes(n) : Becomes(e, u, w, v1, v2)
    BY <1>0
  <2>. QED  BY <2>1, <2>2 DEF Becomes
<1>7. \A S \in result : S # {} /\ Stable(S, C)
  <2> HIDE DEF moved, C, covered
  <2>. QED  BY <1>5, <1>6
<1>8. v1 \in Nodes(n - 1)
  BY DEF Nodes
<1>9. UNION result \subseteq Nodes(n - 1)
  BY <1>3, <1>8
<1>10. ASSUME NEW S \in sets, NEW x \in moved(S) PROVE x \in UNION result
  <2> HIDE DEF moved
  <2>1. moved(S) \in images /\ moved(S) # {}
    OBVIOUS
  <2>. QED  BY <2>1
<1>11. ASSUME NEW x \in Nodes(n - 1) PROVE x \in UNION result
  <2>1. back(x) \in Nodes(n) /\ back(x) # v2 /\ shift(back(x)) = x
    BY DEF Nodes
  <2>2. CASE back(x) = v1
    <3>1. x = v1
      BY <2>1, <2>2 DEF Nodes
    <3>2. CASE covered
      <4>1. PICK S \in sets : v1 \in S \ leaving(S)
        BY <3>2
      <4>2. x \in moved(S)
        BY <2>1, <2>2, <4>1
      <4>. QED  BY <1>10, <4>2
    <3>. QED  BY <3>1, <3>2
  <2>3. CASE back(x) # v1
    <3>1. PICK S \in sets : back(x) \in S
      BY <2>1 DEF Cover
    <3>2. back(x) \in S \ leaving(S)
      BY <2>1, <2>3, <3>1
    <3>3. x \in moved(S)
      BY <2>1, <3>2
    <3>. QED  BY <1>10, <3>3
  <2>. QED  BY <2>2, <2>3
<1>. QED  BY <1>1, <1>7, <1>9, <1>11 DEF Cover

(* transfer_differ_cclasses: the same with an edge between v1 and v2.      *)
LEMMA DifferChildIsCovered ==
  ASSUME NEW n \in Nat, NEW E, E \subseteq Edges(n),
         NEW v1 \in Nodes(n), NEW v2 \in Nodes(n), v1 < v2,
         NEW sets, Cover(sets, n, E)
  PROVE  Cover(transfer_differ_cclasses(sets, v1, v2), n, E \cup {{v1, v2}})
<1> DEFINE cut(S) == IF v1 \in S THEN S \ {v2} ELSE S
           covered == \E S \in sets : v2 \in cut(S)
           result == ({cut(S) : S \in sets} \cup IF covered THEN {} ELSE {{v2}}) \ {{}}
<1>1. transfer_differ_cclasses(sets, v1, v2) = result
  BY DEF transfer_differ_cclasses, prune_duplicated_sets
<1>2. v1 # v2
  BY DEF Nodes
<1>3. \A S \in sets : Stable(cut(S), E \cup {{v1, v2}})
  BY <1>2 DEF Cover, Stable
<1>4. Stable({v2}, E \cup {{v1, v2}})
  <2>1. SUFFICES ASSUME NEW e \in E, e \subseteq {v2} PROVE FALSE
    BY <1>2 DEF Stable
  <2>2. \E u, w \in Nodes(n) : u # w /\ e = {u, w}
    BY EdgeIsPair
  <2>. QED  BY <2>1, <2>2
<1>5. \A S \in result : S # {} /\ Stable(S, E \cup {{v1, v2}})
  BY <1>3, <1>4
<1>6. UNION result \subseteq Nodes(n)
  BY DEF Cover
<1>7. ASSUME NEW x \in Nodes(n) PROVE x \in UNION result
  <2>1. CASE x = v2
    <3>1. CASE covered
      BY <2>1, <3>1
    <3>. QED  BY <2>1, <3>1
  <2>2. CASE x # v2
    <3>1. PICK S \in sets : x \in S
      BY DEF Cover
    <3>2. x \in cut(S)
      BY <2>2, <3>1
    <3>. QED  BY <3>2
  <2>. QED  BY <2>1, <2>2
<1>. QED  BY <1>1, <1>5, <1>6, <1>7 DEF Cover

-----------------------------------------------------------------------------
(* What the parents collect.                                               *)

(* A colouring of the graph in which two vertices that are not adjacent    *)
(* are contracted becomes one of the graph.                                *)
LEMMA SameColouringLifts ==
  ASSUME NEW n \in Nat, NEW E, E \subseteq Edges(n),
         NEW v1 \in Nodes(n), NEW v2 \in Nodes(n), v1 < v2, {v1, v2} \notin E,
         NEW child, child.kind = "same", child.v1 = v1, child.v2 = v2,
         NEW colours, IsColouring(colours, n - 1, contract_elist(E, v1, v2))
  PROVE  IsColouring(Lifted(colours, child), n, E)
<1> DEFINE f(v) == new_eindex(v, v1, v2)
           up(S) == {IF v >= v2 THEN v + 1 ELSE v : v \in S}
                    \cup (IF v1 \in S THEN {v2} ELSE {})
           C == contract_elist(E, v1, v2)
<1>1. Lifted(colours, child) = {up(S) : S \in colours}
  BY DEF Lifted
<1>2. \A S \in colours : S \subseteq Nodes(n - 1) /\ S # {} /\ Stable(S, C)
  BY DEF IsColouring
<1>3. ASSUME NEW S \in colours, NEW x
      PROVE  x \in up(S) <=> x \in Nodes(n) /\ f(x) \in S
  <2>1. S \subseteq Nodes(n - 1)
    BY <1>2
  <2>2. x \in up(S) => x \in Nodes(n) /\ f(x) \in S
    BY <2>1 DEF Nodes, new_eindex
  <2>3. ASSUME x \in Nodes(n), f(x) \in S PROVE x \in up(S)
    <3>1. CASE x = v2
      BY <2>3, <3>1 DEF new_eindex
    <3>2. CASE x # v2
      <4>1. x = IF f(x) >= v2 THEN f(x) + 1 ELSE f(x)
        BY <2>3, <3>2 DEF Nodes, new_eindex
      <4>. QED  BY <2>3, <4>1
    <3>. QED  BY <3>1, <3>2
  <2>. QED  BY <2>2, <2>3
<1> HIDE DEF up
<1>4. ASSUME NEW S \in colours PROVE Stable(up(S), E)
  <2>1. SUFFICES ASSUME NEW e \in E, e \subseteq up(S) PROVE FALSE
    BY DEF Stable
  <2>2. PICK u, w \in Nodes(n) : u # w /\ e = {u, w}
    BY EdgeIsPair
  <2>3. {f(u), f(w)} \in C
    BY <2>2, ContractedEdges
  <2>4. f(u) \in S /\ f(w) \in S
    BY <1>3, <2>1, <2>2
  <2>. QED  BY <1>2, <2>3, <2>4 DEF Stable
<1>5. ASSUME NEW S \in colours PROVE up(S) # {}
  <2>1. PICK y \in S : y \in Nodes(n - 1)
    BY <1>2
  <2>2. \E x \in Nodes(n) : f(x) = y
    <3>1. CASE y < v2
      BY <2>1, <3>1 DEF Nodes, new_eindex
    <3>2. CASE y >= v2
      <4>1. y + 1 \in Nodes(n) /\ f(y + 1) = y
        BY <2>1, <3>2 DEF Nodes, new_eindex
      <4>. QED  BY <4>1
    <3>. QED  BY <2>1, <3>1, <3>2 DEF Nodes
  <2>. QED  BY <1>3, <2>1, <2>2
<1>6. ASSUME NEW S \in colours, NEW T \in colours, up(S) # up(T)
      PROVE  up(S) \cap up(T) = {}
  <2>1. S \cap T = {}
    BY <1>6 DEF IsColouring
  <2>. QED  BY <1>3, <2>1
<1>7. UNION {up(S) : S \in colours} = Nodes(n)
  <2>1. ASSUME NEW x \in Nodes(n) PROVE \E S \in colours : x \in up(S)
    <3>1. f(x) \in Nodes(n - 1)
      BY DEF Nodes, new_eindex
    <3>2. PICK S \in colours : f(x) \in S
      BY <3>1 DEF IsColouring
    <3>. QED  BY <1>3, <3>2
  <2>2. \A S \in colours : up(S) \subseteq Nodes(n)
    BY <1>3
  <2>. QED  BY <2>1, <2>2
<1>. QED  BY <1>1, <1>4, <1>5, <1>6, <1>7 DEF IsColouring

(* A colouring of a graph with more edges is one of the graph. *)
LEMMA DifferColouringLifts ==
  ASSUME NEW n, NEW E, NEW F, E \subseteq F, NEW child, child.kind = "diff",
         NEW colours, IsColouring(colours, n, F)
  PROVE  IsColouring(Lifted(colours, child), n, E)
BY DEF Lifted, IsColouring, Stable

(* When no two vertices share a set, a cover is a colouring. *)
LEMMA SingletonsAreColouring ==
  ASSUME NEW n \in Nat, NEW E, NEW sets, Cover(sets, n, E),
         \A u, w \in Nodes(n) : u < w => ~ \E S \in sets : {u, w} \subseteq S
  PROVE  IsColouring(sets, n, E)
<1>1. ASSUME NEW S \in sets, NEW T \in sets \ {S}, NEW x \in S \cap T
      PROVE  FALSE
  <2>1. \A y \in S \cup T : y \in Nodes(n)
    BY DEF Cover
  <2>2. \A y \in S : y = x
    BY <2>1 DEF Nodes
  <2>3. \A y \in T : y = x
    BY <2>1 DEF Nodes
  <2>4. S = {x} /\ T = {x}
    BY <2>2, <2>3
  <2>. QED  BY <2>4
<1>. QED  BY <1>1 DEF Cover, IsColouring
-----------------------------------------------------------------------------
(* Chromatic numbers.                                                      *)

Proper(c, n, E) == \A u, w \in Nodes(n) : {u, w} \in E => c[u] # c[w]

Colourable(n, E, k) == \E c \in [Nodes(n) -> 1 .. k] : Proper(c, n, E)

(* A colouring that is proper separates the ends of every edge.            *)
LEMMA ProperOnEdges ==
  ASSUME NEW n \in Nat, NEW E, E \subseteq Edges(n), NEW c
  PROVE  Proper(c, n, E) <=> \A e \in E : \E u, v \in e : c[u] # c[v]
<1>1. ASSUME Proper(c, n, E), NEW e \in E PROVE \E u, v \in e : c[u] # c[v]
  <2>1. PICK u, w \in Nodes(n) : u # w /\ e = {u, w}
    BY EdgeIsPair
  <2>. QED  BY <1>1, <2>1 DEF Proper
<1>2. ASSUME \A e \in E : \E u, v \in e : c[u] # c[v] PROVE Proper(c, n, E)
  BY <1>2 DEF Proper
<1>. QED  BY <1>1, <1>2

(* The chromatic number is the least number of colours. *)
LEMMA ChromaticNumberIsLeast ==
  ASSUME NEW n \in Nat \ {0}, NEW E, E \subseteq Edges(n)
  PROVE  /\ ChromaticNumber(n, E) \in 1 .. n
         /\ Colourable(n, E, ChromaticNumber(n, E))
         /\ \A k \in Nat : Colourable(n, E, k) => ChromaticNumber(n, E) <= k
<1> DEFINE K == {k \in 1 .. n : \E c \in [Nodes(n) -> 1 .. k] :
                                  \A e \in E : \E u, v \in e : c[u] # c[v]}
<1>1. \A k \in 1 .. n : k \in K <=> Colourable(n, E, k)
  BY ZenonT(60), ProperOnEdges DEF Colourable
<1>2. ChromaticNumber(n, E) = Min(K)
  BY DEF ChromaticNumber
<1>3. n \in K
  <2> DEFINE c == [v \in Nodes(n) |-> v + 1]
  <2>1. c \in [Nodes(n) -> 1 .. n]
    BY DEF Nodes
  <2>2. Proper(c, n, E)
    <3>1. SUFFICES ASSUME NEW u \in Nodes(n), NEW w \in Nodes(n), {u, w} \in E
                   PROVE  u # w
      BY DEF Proper, Nodes
    <3>2. \E x, y \in Nodes(n) : x # y /\ {u, w} = {x, y}
      BY <3>1, EdgeIsPair
    <3>. QED  BY <3>2
  <2>3. Colourable(n, E, n)
    BY <2>1, <2>2 DEF Colourable
  <2>. QED  BY <1>1, <2>3
<1> HIDE DEF K
<1>4. K \subseteq 1 .. n
  BY DEF K
<1>5. PICK m \in K : \A k \in K : m <= k
  BY <1>3, <1>4, LeastNatural
<1>6. Min(K) \in K /\ \A k \in K : Min(K) <= k
  BY <1>4, <1>5 DEF Min
<1>7. ASSUME NEW k \in Nat, Colourable(n, E, k) PROVE Min(K) <= k
  <2>1. CASE k \in 1 .. n
    BY <1>1, <1>6, <1>7, <2>1
  <2>2. CASE k > n
    <3>1. Min(K) \in 1 .. n
      BY <1>4, <1>6
    <3>. QED  BY <2>2, <3>1
  <2>3. k # 0
    <3>1. 0 \in Nodes(n)
      BY DEF Nodes
    <3>. QED  BY <1>7, <3>1 DEF Colourable
  <2>. QED  BY <2>1, <2>2, <2>3
<1>. QED  BY <1>1, <1>2, <1>4, <1>6, <1>7

(* A colouring in which the two vertices agree is one of the contraction,  *)
(* and the other way round.                                                *)
LEMMA AgreeingColouringContracts ==
  ASSUME NEW n \in Nat, NEW E, E \subseteq Edges(n), NEW k \in Nat,
         NEW v1 \in Nodes(n), NEW v2 \in Nodes(n), v1 < v2,
         NEW c \in [Nodes(n) -> 1 .. k], Proper(c, n, E), c[v1] = c[v2]
  PROVE  Colourable(n - 1, contract_elist(E, v1, v2), k)
<1> DEFINE back(x) == IF x < v2 THEN x ELSE x + 1
           b == [x \in Nodes(n - 1) |-> c[back(x)]]
           C == contract_elist(E, v1, v2)
<1>1. \A x \in Nodes(n - 1) : back(x) \in Nodes(n)
  BY DEF Nodes
<1>2. b \in [Nodes(n - 1) -> 1 .. k]
  BY <1>1
<1>3. ASSUME NEW u \in Nodes(n), NEW x \in Nodes(n - 1), x = new_eindex(u, v1, v2)
      PROVE  b[x] = c[u]
  <2>1. back(x) = IF u = v2 THEN v1 ELSE u
    BY <1>3 DEF new_eindex, Nodes
  <2>. QED  BY <2>1
<1> HIDE DEF b, back
<1>4. ASSUME NEW x \in Nodes(n - 1), NEW y \in Nodes(n - 1), {x, y} \in C
      PROVE  b[x] # b[y]
  <2>1. PICK u, w \in Nodes(n) : {u, w} \in E /\ Becomes({x, y}, u, w, v1, v2)
    BY <1>4, ContractedEdgeOrigin
  <2>2. \/ x = new_eindex(u, v1, v2) /\ y = new_eindex(w, v1, v2)
        \/ x = new_eindex(w, v1, v2) /\ y = new_eindex(u, v1, v2)
    BY <2>1 DEF Becomes
  <2>3. c[u] # c[w]
    BY <2>1 DEF Proper
  <2>. QED  BY <1>3, <2>2, <2>3
<1>. QED  BY <1>2, <1>4 DEF Colourable, Proper

(* A contraction never needs fewer colours than the graph.                 *)
LEMMA ContractionIsNotEasier ==
  ASSUME NEW n \in Nat, NEW E, E \subseteq Edges(n), NEW k \in Nat,
         NEW v1 \in Nodes(n), NEW v2 \in Nodes(n), v1 < v2, {v1, v2} \notin E,
         Colourable(n - 1, contract_elist(E, v1, v2), k)
  PROVE  Colourable(n, E, k)
<1> DEFINE f(v) == new_eindex(v, v1, v2)
<1>1. PICK b \in [Nodes(n - 1) -> 1 .. k] : Proper(b, n - 1, contract_elist(E, v1, v2))
  BY DEF Colourable
<1> DEFINE c == [v \in Nodes(n) |-> b[f(v)]]
<1>2. \A v \in Nodes(n) : f(v) \in Nodes(n - 1)
  BY DEF Nodes, new_eindex
<1>3. c \in [Nodes(n) -> 1 .. k]
  BY <1>2
<1>4. ASSUME NEW u \in Nodes(n), NEW w \in Nodes(n), {u, w} \in E
      PROVE  c[u] # c[w]
  <2>1. \E x, y \in Nodes(n) : x # y /\ {u, w} = {x, y}
    BY <1>4, EdgeIsPair
  <2>2. u # w
    BY <2>1
  <2>3. {f(u), f(w)} \in contract_elist(E, v1, v2)
    BY <1>4, <2>2, ContractedEdges
  <2>. QED  BY <1>1, <1>2, <2>3 DEF Proper
<1>. QED  BY <1>3, <1>4 DEF Colourable, Proper

(* One colour more is enough for either decision. *)
LEMMA OneColourMore ==
  ASSUME NEW n \in Nat, NEW E, E \subseteq Edges(n), NEW k \in Nat, Colourable(n, E, k),
         NEW v1 \in Nodes(n), NEW v2 \in Nodes(n), v1 < v2, {v1, v2} \notin E
  PROVE  /\ Colourable(n - 1, contract_elist(E, v1, v2), k + 1)
         /\ Colourable(n, E \cup {{v1, v2}}, k + 1)
<1>1. PICK c \in [Nodes(n) -> 1 .. k] : Proper(c, n, E)
  BY DEF Colourable
<1>2. \A u, w \in Nodes(n) : {u, w} \in E => u # w
  BY <1>1 DEF Proper
<1>3. Colourable(n - 1, contract_elist(E, v1, v2), k + 1)
  <2> DEFINE d == [v \in Nodes(n) |-> IF v = v1 \/ v = v2 THEN k + 1 ELSE c[v]]
  <2>1. d \in [Nodes(n) -> 1 .. k + 1]
    OBVIOUS
  <2>2. Proper(d, n, E)
    <3>1. SUFFICES ASSUME NEW u \in Nodes(n), NEW w \in Nodes(n), {u, w} \in E
                   PROVE  d[u] # d[w]
      BY DEF Proper
    <3>2. c[u] # c[w] /\ c[u] \in 1 .. k /\ c[w] \in 1 .. k /\ u # w
      BY <1>1, <3>1 DEF Proper
    <3>3. ~ (u = v1 /\ w = v2) /\ ~ (u = v2 /\ w = v1)
      BY <3>1
    <3>. QED  BY <3>2, <3>3
  <2>3. d[v1] = d[v2] /\ k + 1 \in Nat
    OBVIOUS
  <2> HIDE DEF d
  <2>. QED  BY <2>1, <2>2, <2>3, AgreeingColouringContracts
<1>4. Colourable(n, E \cup {{v1, v2}}, k + 1)
  <2> DEFINE d == [v \in Nodes(n) |-> IF v = v2 THEN k + 1 ELSE c[v]]
  <2>1. d \in [Nodes(n) -> 1 .. k + 1]
    OBVIOUS
  <2>2. Proper(d, n, E \cup {{v1, v2}})
    <3>1. SUFFICES ASSUME NEW u \in Nodes(n), NEW w \in Nodes(n),
                          {u, w} \in E \/ {u, w} = {v1, v2}
                   PROVE  d[u] # d[w]
      BY DEF Proper
    <3>2. c[u] \in 1 .. k /\ c[w] \in 1 .. k
      BY <1>1
    <3>3. CASE {u, w} \in E
      <4>1. c[u] # c[w] /\ u # w
        BY <1>1, <1>2, <3>3 DEF Proper
      <4>. QED  BY <3>2, <4>1
    <3>4. CASE {u, w} = {v1, v2}
      <4>1. v1 # v2
        BY DEF Nodes
      <4>2. (u = v1 /\ w = v2) \/ (u = v2 /\ w = v1)
        BY <3>4, <4>1
      <4>. QED  BY <3>2, <4>1, <4>2
    <3>. QED  BY <3>1, <3>3, <3>4
  <2> HIDE DEF d
  <2>. QED  BY <2>1, <2>2 DEF Colourable
<1>. QED  BY <1>3, <1>4

-----------------------------------------------------------------------------
(* The inductive invariant.                                                *)

Graphs  == SUBSET SUBSET Nat
Namings == UNION {[Nodes(n) -> Nat] : n \in Nat}

Colordata ==
  [ncount : Nat, elist : Seq(Graphs), graph : Graphs,
   ids : Seq(Namings), names : Namings, kind : {"root", "same", "diff"},
   v1 : Int, v2 : Int, best : Graphs, cclasses : Graphs]

\* A node's lists, sets and colouring are those of its graph.
Sound(d) ==
  /\ d.ncount \in Nat \ {0}
  /\ d.graph \subseteq Edges(d.ncount)
  /\ d.names \in [Nodes(d.ncount) -> Nat]
  /\ \/ d.elist = <<>>
     \/ d.elist = <<d.graph>> /\ d.ids = <<d.names>>
  /\ d.cclasses # {} => Cover(d.cclasses, d.ncount, d.graph)
  /\ d.best # {} => IsColouring(d.best, d.ncount, d.graph)

\* The root never loses its list.
IsRoot(d) ==
  /\ d.kind = "root" /\ d.ncount = NCount
  /\ d.elist = <<d.graph>>
  /\ d.names = [v \in Nodes(NCount) |-> v]

\* A child's graph is its parent's with the decision carried out.
Linked(p, c) ==
  /\ c.v1 \in Nodes(p.ncount) /\ c.v2 \in Nodes(p.ncount) /\ c.v1 < c.v2
  /\ \/ /\ c.kind = "same" /\ {c.v1, c.v2} \notin p.graph
        /\ c.ncount = p.ncount - 1
        /\ c.graph = contract_elist(p.graph, c.v1, c.v2)
        /\ c.names = ContractedIds(p.names, p.ncount, c.v2)
     \/ /\ c.kind = "diff"
        /\ c.ncount = p.ncount
        /\ c.graph = p.graph \cup {{c.v1, c.v2}}
        /\ c.names = p.names

PathInv(nodes) ==
  /\ nodes \in Seq(Colordata) /\ Len(nodes) > 0
  /\ \A i \in 1 .. Len(nodes) : Sound(nodes[i])
  /\ IsRoot(nodes[1])
  /\ \A i \in 1 .. Len(nodes) - 1 : Linked(nodes[i], nodes[i + 1])

IInv ==
  /\ PathInv(path)
  /\ solved /\ cd.best = {} => cd.cclasses # {}

-----------------------------------------------------------------------------
(* The recovery of an edge list.                                           *)

(* One step down the path does to the list what created the child. *)
LEMMA StepFollowsLink ==
  ASSUME NEW p, NEW c, Linked(p, c), c.ncount \in Nat, p.ncount \in Nat
  PROVE  Step([E |-> p.graph, ids |-> p.names], c) = [E |-> c.graph, ids |-> c.names]
<1>1. CASE c.kind = "diff"
  BY <1>1 DEF Step, Linked
<1>2. CASE c.kind # "diff"
  <2>1. c.ncount + 1 = p.ncount
    BY <1>2 DEF Linked
  <2>. QED  BY <1>2, <2>1 DEF Step, Linked
<1>. QED  BY <1>1, <1>2

(* recover_elist builds the graph and the ids the node was created with.   *)
LEMMA StepsRecover ==
  ASSUME NEW nodes, PathInv(nodes)
  PROVE  Steps(nodes) = [E |-> nodes[Len(nodes)].graph, ids |-> nodes[Len(nodes)].names]
<1> DEFINE n == Len(nodes)
           r(i) == [E |-> nodes[i].graph, ids |-> nodes[i].names]
           root == [E |-> nodes[1].elist[1], ids |-> [v \in Nodes(NCount) |-> v]]
           H(g) == g = [i \in 1 .. n |-> IF i = 1 THEN root ELSE Step(g[i - 1], nodes[i])]
           w == [i \in 1 .. n |-> r(i)]
           c == CHOOSE g : H(g)
<1>1. n \in Nat \ {0}
  BY DEF PathInv
<1>2. root = r(1)
  BY DEF PathInv, IsRoot
<1>3. \A i \in 2 .. n : Step(r(i - 1), nodes[i]) = r(i)
  <2>1. SUFFICES ASSUME NEW i \in 2 .. n
                 PROVE  Step(r(i - 1), nodes[i]) = r(i)
    OBVIOUS
  <2>2. Linked(nodes[i - 1], nodes[i])
    <3>1. i - 1 \in 1 .. n - 1 /\ (i - 1) + 1 = i
      BY <1>1
    <3>. QED  BY <3>1 DEF PathInv
  <2>3. nodes[i - 1].ncount \in Nat /\ nodes[i].ncount \in Nat
    BY <1>1 DEF PathInv, Sound
  <2>. QED  BY <2>2, <2>3, StepFollowsLink
<1>4. H(w)
  <2> HIDE DEF r, root
  <2>1. \A i \in 1 .. n : w[i] = IF i = 1 THEN root ELSE Step(w[i - 1], nodes[i])
    <3>1. SUFFICES ASSUME NEW i \in 1 .. n, i # 1
                   PROVE  w[i] = Step(w[i - 1], nodes[i])
      BY <1>2
    <3>2. i \in 2 .. n /\ i - 1 \in 1 .. n
      BY <1>1, <3>1
    <3>3. w[i - 1] = r(i - 1)
      BY <3>2
    <3>. QED  BY <1>3, <3>2, <3>3
  <2>. QED  BY <2>1
<1>5. H(c)
  <2> HIDE DEF H, w
  <2>. QED  BY <1>4
<1>6. \A i \in 1 .. n : c[i] = IF i = 1 THEN root ELSE Step(c[i - 1], nodes[i])
  <2> HIDE DEF c, root
  <2>. QED  BY <1>5
<1>7. \A i \in 1 .. n : c[i] = r(i)
  <2> HIDE DEF c, r, root, H
  <2> DEFINE Wrong == {i \in 1 .. n : c[i] # r(i)}
  <2>1. SUFFICES ASSUME Wrong # {} PROVE FALSE
    OBVIOUS
  <2>2. PICK m \in Wrong : \A k \in Wrong : m <= k
    <3>1. Wrong \in SUBSET Nat
      OBVIOUS
    <3>. HIDE DEF Wrong
    <3>. QED  BY <2>1, <3>1, LeastNatural
  <2>3. m \in 2 .. n /\ m - 1 \in 1 .. n /\ c[m] # r(m)
    BY <1>1, <1>2, <1>6
  <2>4. c[m - 1] = r(m - 1)
    BY <2>2, <2>3
  <2>. QED  BY <1>3, <1>6, <2>3, <2>4
<1>8. Steps(nodes) = c[n]
  BY DEF Steps
<1>9. c[n] = r(n)
  <2> HIDE DEF c, r
  <2>. QED  BY <1>1, <1>7
<1>10. Steps(nodes) = r(n)
  <2> HIDE DEF c, r
  <2>. QED  BY SMTT(60), <1>8, <1>9
<1>. QED  BY <1>10

-----------------------------------------------------------------------------
(* What the walk does to the path.                                         *)

(* The last node changes, but not in what its links are about. *)
LEMMA UpdateKeepsPath ==
  ASSUME NEW nodes, PathInv(nodes), NEW d \in Colordata, Sound(d),
         LET old == nodes[Len(nodes)]
         IN  /\ d.ncount = old.ncount /\ d.graph = old.graph /\ d.names = old.names
             /\ d.kind = old.kind /\ d.v1 = old.v1 /\ d.v2 = old.v2
             /\ old.kind = "root" => d.elist = old.elist
  PROVE  PathInv([nodes EXCEPT ![Len(nodes)] = d])
<1> DEFINE n == Len(nodes)
           new == [nodes EXCEPT ![n] = d]
<1>1. n \in Nat \ {0} /\ nodes \in Seq(Colordata)
  BY DEF PathInv
<1>2. /\ new \in Seq(Colordata) /\ Len(new) = n
      /\ \A i \in 1 .. n : new[i] = IF i = n THEN d ELSE nodes[i]
  BY SMTT(60), <1>1
<1>3. \A i \in 1 .. n : Sound(new[i])
  BY <1>1, <1>2 DEF PathInv
<1>4. IsRoot(new[1])
  BY <1>1, <1>2 DEF PathInv, IsRoot
<1>5. ASSUME NEW i \in 1 .. n - 1 PROVE Linked(new[i], new[i + 1])
  <2>1. Linked(nodes[i], nodes[i + 1])
    BY DEF PathInv
  <2>2. new[i] = nodes[i] /\ i + 1 \in 1 .. n
    <3>1. i \in 1 .. n /\ i # n /\ i + 1 \in 1 .. n
      BY <1>1
    <3> HIDE DEF new
    <3>. QED  BY <1>2, <3>1
  <2>3. CASE i + 1 = n
    <3>1. new[i + 1] = d /\ nodes[i + 1] = nodes[n]
      BY ZenonT(60), <1>2, <2>2, <2>3
    <3>. QED  BY ZenonT(60), <2>1, <2>2, <3>1 DEF Linked
  <2>4. CASE i + 1 # n
    BY <1>2, <2>1, <2>2, <2>4
  <2>. QED  BY <2>3, <2>4
<1>. QED  BY <1>1, <1>2, <1>3, <1>4, <1>5 DEF PathInv

(* A child is added. *)
LEMMA AppendKeepsPath ==
  ASSUME NEW nodes, PathInv(nodes), NEW child \in Colordata, Sound(child),
         Linked(nodes[Len(nodes)], child)
  PROVE  PathInv(Append(nodes, child))
<1> DEFINE n == Len(nodes)
           new == Append(nodes, child)
<1>1. n \in Nat \ {0} /\ nodes \in Seq(Colordata)
  BY DEF PathInv
<1>2. /\ new \in Seq(Colordata) /\ Len(new) = n + 1
      /\ \A i \in 1 .. n : new[i] = nodes[i]
      /\ new[n + 1] = child
  BY <1>1
<1>3. \A i \in 1 .. n + 1 : Sound(new[i])
  BY <1>1, <1>2 DEF PathInv
<1>4. IsRoot(new[1])
  BY <1>1, <1>2 DEF PathInv
<1>5. \A i \in 1 .. n : Linked(new[i], new[i + 1])
  <2>1. SUFFICES ASSUME NEW i \in 1 .. n PROVE Linked(new[i], new[i + 1])
    OBVIOUS
  <2>2. CASE i = n
    BY <1>1, <1>2, <2>2
  <2>3. CASE i # n
    <3>1. i \in 1 .. n - 1 /\ i + 1 \in 1 .. n
      BY <1>1, <2>3
    <3>. QED  BY <1>2, <3>1 DEF PathInv
  <2>. QED  BY <2>2, <2>3
<1>. QED  BY <1>1, <1>2, <1>3, <1>4, <1>5 DEF PathInv

(* The last node is left. *)
LEMMA FrontKeepsPath ==
  ASSUME NEW nodes, PathInv(nodes), Len(nodes) > 1
  PROVE  /\ PathInv(Front(nodes))
         /\ Len(Front(nodes)) = Len(nodes) - 1
         /\ \A i \in 1 .. Len(nodes) - 1 : Front(nodes)[i] = nodes[i]
<1> DEFINE n == Len(nodes)
<1>1. n \in Nat /\ n > 1 /\ nodes \in Seq(Colordata)
  BY DEF PathInv
<1>2. /\ Front(nodes) \in Seq(Colordata) /\ Len(Front(nodes)) = n - 1
      /\ \A i \in 1 .. n - 1 : Front(nodes)[i] = nodes[i]
  BY <1>1 DEF Front
<1>3. \A i \in 1 .. n - 1 : Sound(Front(nodes)[i])
  BY <1>1, <1>2 DEF PathInv
<1>4. IsRoot(Front(nodes)[1])
  BY <1>1, <1>2 DEF PathInv
<1>5. \A i \in 1 .. (n - 1) - 1 : Linked(Front(nodes)[i], Front(nodes)[i + 1])
  <2>1. SUFFICES ASSUME NEW i \in 1 .. (n - 1) - 1
                 PROVE  Linked(Front(nodes)[i], Front(nodes)[i + 1])
    OBVIOUS
  <2>2. i \in 1 .. n - 1 /\ i + 1 \in 1 .. n - 1
    BY <1>1
  <2>. QED  BY <1>2, <2>2 DEF PathInv
<1>. QED  BY <1>1, <1>2, <1>3, <1>4, <1>5 DEF PathInv

-----------------------------------------------------------------------------
(* The children.                                                           *)

(* The smaller and the larger of two names. *)
LEMMA MinMaxOfPair ==
  ASSUME NEW a \in Int, NEW b \in Int, a # b
  PROVE  /\ Min({a, b}) \in {a, b} /\ Max({a, b}) \in {a, b}
         /\ Min({a, b}) < Max({a, b})
         /\ {Min({a, b}), Max({a, b})} = {a, b}
<1>1. Min({a, b}) = IF a < b THEN a ELSE b
  BY DEF Min
<1>2. Max({a, b}) = IF a < b THEN b ELSE a
  BY DEF Max
<1>. QED  BY <1>1, <1>2

\* Two vertices that branching may contract or join.
Branchable(d, v1, v2) ==
  /\ v1 \in Nodes(d.ncount) /\ v2 \in Nodes(d.ncount) /\ v1 < v2
  /\ {v1, v2} \notin d.graph

(* Vertices that share a stable set are not adjacent. *)
LEMMA CandidateIsBranchable ==
  ASSUME NEW d \in Colordata, Sound(d), d.cclasses # {}, NEW p \in Candidates(d)
  PROVE  Branchable(d, p[1], p[2])
<1>1. /\ p[1] \in Nodes(d.ncount) /\ p[2] \in Nodes(d.ncount) /\ p[1] < p[2]
      /\ \E S \in d.cclasses : p[1] \in S /\ p[2] \in S
  BY DEF Candidates
<1>2. {p[1], p[2]} \notin d.graph
  BY <1>1 DEF Sound, Cover, Stable
<1>. QED  BY <1>1, <1>2 DEF Branchable

(* Nor is v2 adjacent to a neighbour of v1 in the sequence. *)
LEMMA SequenceIsBranchable ==
  ASSUME NEW d \in Colordata, Sound(d), NEW v1, NEW v2, Branchable(d, v1, v2),
         NEW n \in Neighbours(v1, d.graph) \ Neighbours(v2, d.graph)
  PROVE  /\ n \in Nodes(d.ncount)
         /\ Min({n, v2}) \in {n, v2} /\ Max({n, v2}) \in {n, v2}
         /\ {Min({n, v2}), Max({n, v2})} = {n, v2}
         /\ Branchable(d, Min({n, v2}), Max({n, v2}))
<1> DEFINE E == d.graph
           a == Min({n, v2})
           b == Max({n, v2})
<1>1. /\ E \subseteq Edges(d.ncount) /\ d.ncount \in Nat
      /\ v1 \in Nodes(d.ncount) /\ v2 \in Nodes(d.ncount) /\ {v1, v2} \notin E
  BY DEF Sound, Branchable
<1>2. PICK e \in E : v1 \in e /\ n \in e /\ n # v1
  BY DEF Neighbours
<1>3. n \in Nodes(d.ncount) /\ e = {v1, n}
  <2>1. e \in Edges(d.ncount)
    BY <1>1, <1>2
  <2>2. PICK u, w \in Nodes(d.ncount) : e = {u, w}
    BY <1>1, <2>1, EdgeIsPair
  <2>. QED  BY <1>2, <2>2
<1>4. n # v2
  BY <1>1, <1>2, <1>3
<1>5. {n, v2} \notin E
  BY <1>4 DEF Neighbours
<1>6. n \in Int /\ v2 \in Int
  BY <1>1, <1>3 DEF Nodes
<1>7. a \in {n, v2} /\ b \in {n, v2} /\ a < b /\ {a, b} = {n, v2}
  BY <1>4, <1>6, MinMaxOfPair
<1> HIDE DEF a, b
<1>8. Branchable(d, a, b)
  BY <1>1, <1>3, <1>5, <1>7 DEF Branchable
<1>. QED  BY <1>3, <1>7, <1>8 DEF a, b

(* Whatever child branching creates, its vertices are not adjacent. *)
LEMMA ChildrenAreBranchable ==
  ASSUME NEW d \in Colordata, Sound(d), d.elist # <<>>, d.cclasses # {},
         NEW p \in Candidates(d),
         NEW child \in {create_same(d, p[1], p[2]), create_differ(d, p[1], p[2])}
                       \cup create_same_seq(d, p[1], p[2])
  PROVE  \E v1, v2 :
           /\ Branchable(d, v1, v2)
           /\ child \in {create_same(d, v1, v2), create_differ(d, v1, v2)}
<1>1. Branchable(d, p[1], p[2])
  BY CandidateIsBranchable
<1>2. CASE child \in {create_same(d, p[1], p[2]), create_differ(d, p[1], p[2])}
  BY <1>1, <1>2
<1>3. CASE child \notin {create_same(d, p[1], p[2]), create_differ(d, p[1], p[2])}
  <2>1. d.elist[1] = d.graph
    BY DEF Sound
  <2>2. PICK n \in Neighbours(p[1], d.graph) \ Neighbours(p[2], d.graph) :
          child = create_same(d, Min({n, p[2]}), Max({n, p[2]}))
    BY <1>3, <2>1 DEF create_same_seq
  <2>3. Branchable(d, Min({n, p[2]}), Max({n, p[2]}))
    BY <1>1, SequenceIsBranchable
  <2>. QED  BY <2>2, <2>3
<1>. QED  BY <1>2, <1>3

(* A contracted node is sound and linked to its parent. *)
LEMMA SameChildIsSound ==
  ASSUME NEW d \in Colordata, Sound(d), d.elist # <<>>, d.cclasses # {},
         NEW v1, NEW v2, Branchable(d, v1, v2)
  PROVE  LET c == create_same(d, v1, v2)
         IN  c \in Colordata /\ Sound(c) /\ Linked(d, c)
<1> DEFINE n == d.ncount
           E == d.graph
           C == contract_elist(E, v1, v2)
           ids == ContractedIds(d.names, n, v2)
           sets == transfer_same_cclasses(d.cclasses, Neighbours(v2, E), v1, v2)
           c == create_same(d, v1, v2)
<1>1. /\ d.elist[1] = E /\ d.ids[1] = d.names
      /\ n \in Nat \ {0} /\ E \subseteq Edges(n) /\ d.names \in [Nodes(n) -> Nat]
      /\ Cover(d.cclasses, n, E)
  BY DEF Sound
<1>2. /\ v1 \in Nodes(n) /\ v2 \in Nodes(n) /\ v1 < v2 /\ {v1, v2} \notin E
      /\ v1 \in Nat /\ v2 \in Nat
  BY <1>1 DEF Branchable, Nodes
<1>3. n - 1 \in Nat \ {0}
  BY <1>1, <1>2 DEF Nodes
<1>4. C \subseteq Edges(n - 1)
  BY <1>1, <1>2, ContractedEdges
<1>5. Cover(sets, n - 1, C)
  BY <1>1, <1>2, SameChildIsCovered
<1>6. ids \in [Nodes(n - 1) -> Nat]
  <2>1. \A v \in Nodes(n - 1) : (IF v < v2 THEN v ELSE v + 1) \in Nodes(n)
    BY <1>1, <1>2 DEF Nodes
  <2>. QED  BY <1>1, <2>1 DEF ContractedIds
<1>7. C \in Graphs /\ sets \in Graphs /\ {} \in Graphs /\ ids \in Namings
  <2>1. Nodes(n - 1) \subseteq Nat
    BY <1>3 DEF Nodes
  <2>2. C \in Graphs
    BY <1>4, <2>1 DEF Graphs, Edges
  <2>3. sets \in Graphs
    BY <1>5, <2>1 DEF Graphs, Cover
  <2>4. ids \in Namings
    BY <1>3, <1>6 DEF Namings
  <2>5. {} \in Graphs
    BY DEF Graphs
  <2>. QED  BY <2>2, <2>3, <2>4, <2>5
<1>8. c = [ncount |-> n - 1, elist |-> <<C>>, graph |-> C,
           ids |-> <<ids>>, names |-> ids,
           kind |-> "same", v1 |-> v1, v2 |-> v2, best |-> {}, cclasses |-> sets]
  BY <1>1 DEF create_same
<1> HIDE DEF C, sets, ids, c
<1>9. c \in Colordata
  <2>1. <<C>> \in Seq(Graphs) /\ <<ids>> \in Seq(Namings)
    BY <1>7
  <2>. QED  BY <1>2, <1>3, <1>7, <1>8, <2>1 DEF Colordata
<1>10. Sound(c)
  BY <1>3, <1>4, <1>5, <1>6, <1>8 DEF Sound
<1>11. Linked(d, c)
  BY <1>2, <1>8 DEF Linked, C, ids
<1>. QED  BY <1>9, <1>10, <1>11 DEF c

(* So is a node with an edge more. *)
LEMMA DifferChildIsSound ==
  ASSUME NEW d \in Colordata, Sound(d), d.elist # <<>>, d.cclasses # {},
         NEW v1, NEW v2, Branchable(d, v1, v2)
  PROVE  LET c == create_differ(d, v1, v2)
         IN  c \in Colordata /\ Sound(c) /\ Linked(d, c)
<1> DEFINE n == d.ncount
           E == d.graph
           F == E \cup {{v1, v2}}
           sets == transfer_differ_cclasses(d.cclasses, v1, v2)
           c == create_differ(d, v1, v2)
<1>1. /\ d.elist[1] = E /\ d.ids = <<d.names>>
      /\ n \in Nat \ {0} /\ E \subseteq Edges(n) /\ d.names \in [Nodes(n) -> Nat]
      /\ Cover(d.cclasses, n, E)
  BY DEF Sound
<1>2. /\ v1 \in Nodes(n) /\ v2 \in Nodes(n) /\ v1 < v2
      /\ v1 \in Nat /\ v2 \in Nat
  BY <1>1 DEF Branchable, Nodes
<1>3. F \subseteq Edges(n)
  BY <1>1, <1>2, PairIsEdge DEF Nodes
<1>4. Cover(sets, n, F)
  BY <1>1, <1>2, DifferChildIsCovered
<1>5. F \in Graphs /\ sets \in Graphs /\ {} \in Graphs
  <2>1. Nodes(n) \subseteq Nat
    BY <1>1 DEF Nodes
  <2>2. F \in Graphs
    BY <1>3, <2>1 DEF Graphs, Edges
  <2>3. sets \in Graphs
    BY <1>4, <2>1 DEF Graphs, Cover
  <2>. QED  BY <2>2, <2>3 DEF Graphs
<1>6. c = [ncount |-> n, elist |-> <<F>>, graph |-> F,
           ids |-> d.ids, names |-> d.names,
           kind |-> "diff", v1 |-> v1, v2 |-> v2, best |-> {}, cclasses |-> sets]
  BY <1>1 DEF create_differ
<1> HIDE DEF F, sets, c
<1>7. c \in Colordata
  <2>1. <<F>> \in Seq(Graphs)
    BY <1>5
  <2>. QED  BY <1>1, <1>2, <1>5, <1>6, <2>1 DEF Colordata
<1>8. Sound(c)
  BY <1>1, <1>3, <1>4, <1>6 DEF Sound
<1>9. Linked(d, c)
  BY <1>2, <1>6 DEF Linked, F
<1>. QED  BY <1>7, <1>8, <1>9 DEF c

(* What either decision does to the chromatic number. *)
LEMMA DecisionBounds ==
  ASSUME NEW d \in Colordata, Sound(d), d.elist # <<>>,
         NEW v1, NEW v2, Branchable(d, v1, v2)
  PROVE  LET here == ChromaticNumber(d.ncount, d.graph)
             same == create_same(d, v1, v2)
             diff == create_differ(d, v1, v2)
         IN  /\ ChromaticNumber(same.ncount, same.graph) \in here .. here + 1
             /\ ChromaticNumber(diff.ncount, diff.graph) \in here .. here + 1
             /\ \A c \in [Nodes(d.ncount) -> 1 .. here] : Proper(c, d.ncount, d.graph) =>
                  IF c[v1] = c[v2]
                  THEN ChromaticNumber(same.ncount, same.graph) = here
                  ELSE ChromaticNumber(diff.ncount, diff.graph) = here
<1> DEFINE n == d.ncount
           E == d.graph
           C == contract_elist(E, v1, v2)
           F == E \cup {{v1, v2}}
           here == ChromaticNumber(n, E)
           same == create_same(d, v1, v2)
           diff == create_differ(d, v1, v2)
<1>1. d.elist[1] = E /\ n \in Nat \ {0} /\ E \subseteq Edges(n)
  BY DEF Sound
<1>2. /\ same.ncount = n - 1 /\ same.graph = C
      /\ diff.ncount = n /\ diff.graph = F
  BY <1>1 DEF create_same, create_differ
<1>3. v1 \in Nodes(n) /\ v2 \in Nodes(n) /\ v1 < v2 /\ {v1, v2} \notin E
  BY DEF Branchable
<1>4. n - 1 \in Nat \ {0} /\ C \subseteq Edges(n - 1)
  <2>1. n - 1 \in Nat \ {0}
    BY <1>1, <1>3 DEF Nodes
  <2>. QED  BY <1>1, <1>3, <2>1, ContractedEdges
<1>5. F \subseteq Edges(n)
  <2>1. v1 # v2
    BY <1>1, <1>3 DEF Nodes
  <2>. QED  BY <1>1, <1>3, <2>1, PairIsEdge
<1> HIDE DEF C, F, n, E, here, same, diff
<1>6. here \in Nat /\ Colourable(n, E, here) /\ \A k \in Nat : Colourable(n, E, k) => here <= k
  BY <1>1, ChromaticNumberIsLeast DEF here, n, E
<1>7. /\ ChromaticNumber(n - 1, C) \in Nat
      /\ Colourable(n - 1, C, ChromaticNumber(n - 1, C))
      /\ \A k \in Nat : Colourable(n - 1, C, k) => ChromaticNumber(n - 1, C) <= k
  <2> DEFINE m == n - 1
  <2>1. m \in Nat \ {0} /\ C \subseteq Edges(m)
    BY <1>4
  <2> HIDE DEF m
  <2>2. /\ ChromaticNumber(m, C) \in Nat /\ Colourable(m, C, ChromaticNumber(m, C))
        /\ \A k \in Nat : Colourable(m, C, k) => ChromaticNumber(m, C) <= k
    BY <2>1, ChromaticNumberIsLeast
  <2>. QED  BY <2>2 DEF m
<1>8. /\ ChromaticNumber(n, F) \in Nat
      /\ Colourable(n, F, ChromaticNumber(n, F))
      /\ \A k \in Nat : Colourable(n, F, k) => ChromaticNumber(n, F) <= k
  BY <1>1, <1>5, ChromaticNumberIsLeast
<1>9. Colourable(n - 1, C, here + 1) /\ Colourable(n, F, here + 1)
  BY <1>1, <1>3, <1>6, OneColourMore DEF C, F
<1>10. ChromaticNumber(n - 1, C) \in here .. here + 1
  <2>1. Colourable(n, E, ChromaticNumber(n - 1, C))
    BY <1>1, <1>3, <1>7, ContractionIsNotEasier DEF C
  <2>. QED  BY <1>6, <1>7, <1>9, <2>1
<1>11. ChromaticNumber(n, F) \in here .. here + 1
  <2>1. \A k : Colourable(n, F, k) => Colourable(n, E, k)
    BY DEF Colourable, Proper, F
  <2>. QED  BY <1>6, <1>8, <1>9, <2>1
<1>12. ASSUME NEW c \in [Nodes(n) -> 1 .. here], Proper(c, n, E)
       PROVE  IF c[v1] = c[v2] THEN ChromaticNumber(n - 1, C) = here
                               ELSE ChromaticNumber(n, F) = here
  <2>1. CASE c[v1] = c[v2]
    <3>1. Colourable(n - 1, C, here)
      BY <1>1, <1>3, <1>6, <1>12, <2>1, AgreeingColouringContracts DEF C
    <3>. QED  BY <1>6, <1>7, <1>10, <2>1, <3>1
  <2>2. CASE c[v1] # c[v2]
    <3>1. \A u, w \in Nodes(n) : {u, w} = {v1, v2} => c[u] # c[w]
      <4>1. \A u, w : {u, w} = {v1, v2} => (u = v1 /\ w = v2) \/ (u = v2 /\ w = v1)
        OBVIOUS
      <4>. QED  BY <2>2, <4>1
    <3>2. Colourable(n, F, here)
      BY <1>12, <3>1 DEF Colourable, Proper, F
    <3>. QED  BY <1>6, <1>8, <1>11, <2>2, <3>2
  <2>. QED  BY <2>1, <2>2
<1>13. /\ here = ChromaticNumber(d.ncount, d.graph)
       /\ n = d.ncount /\ E = d.graph
       /\ same = create_same(d, v1, v2) /\ diff = create_differ(d, v1, v2)
  BY DEF here, n, E, same, diff
<1>. QED  BY <1>2, <1>10, <1>11, <1>12, <1>13

Agreeing(c, n, E, v1, v2) ==
  /\ Proper(c, n, E)
  /\ \/ c[v1] = c[v2]
     \/ \E m \in Neighbours(v1, E) \ Neighbours(v2, E) : c[m] = c[v2]

(* Among the vertices that may share a colour with v2, v1 and those next   *)
(* to v1, one has its colour in some optimal colouring.                    *)
LEMMA SomeoneAgrees ==
  ASSUME NEW n \in Nat, NEW E, E \subseteq Edges(n), NEW k \in Nat, Colourable(n, E, k),
         NEW v1 \in Nodes(n), NEW v2 \in Nodes(n), v1 # v2, {v1, v2} \notin E
  PROVE  \E c \in [Nodes(n) -> 1 .. k] : Agreeing(c, n, E, v1, v2)
<1>1. PICK c \in [Nodes(n) -> 1 .. k] : Proper(c, n, E)
  BY DEF Colourable
<1>2. SUFFICES ASSUME \A m \in Neighbours(v1, E) \ Neighbours(v2, E) : c[m] # c[v2]
               PROVE  \E d \in [Nodes(n) -> 1 .. k] : Proper(d, n, E) /\ d[v1] = d[v2]
  BY <1>1 DEF Agreeing
<1> DEFINE d == [c EXCEPT ![v1] = c[v2]]
<1>3. d \in [Nodes(n) -> 1 .. k] /\ d[v1] = d[v2]
      /\ \A u \in Nodes(n) : d[u] = IF u = v1 THEN c[v2] ELSE c[u]
  OBVIOUS
<1>4. \A u, w \in Nodes(n) : {u, w} \in E => u # w
  BY <1>1 DEF Proper
<1>5. ASSUME NEW w \in Nodes(n), {v1, w} \in E \/ {w, v1} \in E PROVE c[w] # c[v2]
  <2>0. {v1, w} \in E
    <3>1. {v1, w} = {w, v1}
      OBVIOUS
    <3>. QED  BY <1>5, <3>1
  <2>1. w # v1 /\ w # v2
    BY <1>4, <2>0
  <2>2. w \in Neighbours(v1, E)
    BY <2>0, <2>1 DEF Neighbours
  <2>3. CASE w \in Neighbours(v2, E)
    <3>1. PICK e \in E : v2 \in e /\ w \in e
      BY <2>3 DEF Neighbours
    <3>2. PICK x, y \in Nodes(n) : e = {x, y}
      BY <3>1, EdgeIsPair
    <3>3. {w, v2} \in E
      <4>1. e = {w, v2}
        BY <2>1, <3>1, <3>2
      <4>. QED  BY <3>1, <4>1
    <3>. QED  BY <1>1, <3>3 DEF Proper
  <2>4. CASE w \notin Neighbours(v2, E)
    BY <1>2, <2>2, <2>4
  <2>. QED  BY <2>3, <2>4
<1>6. ASSUME NEW u \in Nodes(n), NEW w \in Nodes(n), {u, w} \in E
      PROVE  d[u] # d[w]
  <2>1. CASE u = v1
    BY <1>3, <1>4, <1>5, <1>6, <2>1
  <2>2. CASE w = v1
    BY <1>3, <1>4, <1>5, <1>6, <2>2
  <2>3. CASE u # v1 /\ w # v1
    BY <1>1, <1>3, <1>6, <2>3 DEF Proper
  <2>. QED  BY <2>1, <2>2, <2>3
<1>. QED  BY <1>3, <1>6 DEF Proper

(* A colouring of a child travels to its parent. *)
LEMMA LiftedIsColouring ==
  ASSUME NEW p \in Colordata, Sound(p), NEW c \in Colordata, Sound(c), Linked(p, c),
         c.best # {}
  PROVE  /\ IsColouring(Lifted(c.best, c), p.ncount, p.graph)
         /\ Lifted(c.best, c) \in Graphs
         /\ Lifted(c.best, c) # {}
<1>1. IsColouring(c.best, c.ncount, c.graph)
  BY DEF Sound
<1>2. p.ncount \in Nat \ {0} /\ p.graph \subseteq Edges(p.ncount)
  BY DEF Sound
<1>3. c.v1 \in Nodes(p.ncount) /\ c.v2 \in Nodes(p.ncount) /\ c.v1 < c.v2
  BY DEF Linked
<1>4. IsColouring(Lifted(c.best, c), p.ncount, p.graph)
  <2>1. CASE c.kind = "same"
    BY <1>1, <1>2, <1>3, <2>1, SameColouringLifts DEF Linked
  <2>2. CASE c.kind = "diff"
    <3>1. c.ncount = p.ncount /\ p.graph \subseteq c.graph
      BY <2>2 DEF Linked
    <3>. QED  BY <1>1, <2>2, <3>1, DifferColouringLifts
  <2>. QED  BY <2>1, <2>2 DEF Linked
<1>5. Nodes(p.ncount) \subseteq Nat /\ Nodes(p.ncount) # {}
  BY <1>2 DEF Nodes
<1>. QED  BY <1>4, <1>5 DEF IsColouring, Graphs

-----------------------------------------------------------------------------
(* One lemma per action.                                                   *)

(* What the invariant says of the node at hand. *)
LEMMA NodeAtHand ==
  ASSUME PathInv(path)
  PROVE  /\ Len(path) \in Nat \ {0} /\ path \in Seq(Colordata)
         /\ cd = path[Len(path)] /\ cd \in Colordata /\ Sound(cd)
BY DEF PathInv, cd, Last

(* The root alone, with its graph as it was read, satisfies the invariant. *)
LEMMA InitHolds ==
  ASSUME Init
  PROVE  IInv
<1>1. PICK E \in SUBSET Edges(NCount) :
        path = <<[ncount |-> NCount, elist |-> <<E>>, graph |-> E,
                  ids |-> <<[v \in Nodes(NCount) |-> v]>>,
                  names |-> [v \in Nodes(NCount) |-> v], kind |-> "root",
                  v1 |-> -1, v2 |-> -1, best |-> {}, cclasses |-> {}]>>
  BY DEF Init
<1> DEFINE ids == [v \in Nodes(NCount) |-> v]
           d == [ncount |-> NCount, elist |-> <<E>>, graph |-> E, ids |-> <<ids>>,
                 names |-> ids, kind |-> "root", v1 |-> -1, v2 |-> -1,
                 best |-> {}, cclasses |-> {}]
<1>2. path = <<d>>
  BY <1>1
<1>3. Nodes(NCount) \subseteq Nat /\ NCount \in Nat \ {0}
  BY ColorGraphAssumption DEF Nodes
<1>4. ids \in [Nodes(NCount) -> Nat]
  BY <1>3
<1>5. E \in Graphs /\ {} \in Graphs /\ ids \in Namings
  <2>1. E \in Graphs /\ {} \in Graphs
    BY <1>3 DEF Graphs, Edges
  <2>2. ids \in Namings
    BY <1>3, <1>4 DEF Namings
  <2>. QED  BY <2>1, <2>2
<1>6. E \subseteq Edges(NCount)
  OBVIOUS
<1>7. ids = [v \in Nodes(NCount) |-> v]
  OBVIOUS
<1> HIDE DEF ids
<1>8. d \in Colordata
  <2>1. <<E>> \in Seq(Graphs) /\ <<ids>> \in Seq(Namings)
    BY <1>5
  <2>. QED  BY <1>3, <1>5, <2>1 DEF Colordata
<1>9. Sound(d)
  BY <1>3, <1>4, <1>6 DEF Sound
<1>10. IsRoot(d)
  BY <1>7 DEF IsRoot
<1>11. PathInv(path)
  <2> HIDE DEF d
  <2>1. path \in Seq(Colordata) /\ Len(path) = 1 /\ path[1] = d
    BY <1>2, <1>8
  <2>. QED  BY <1>9, <1>10, <2>1 DEF PathInv
<1>. QED  BY <1>11 DEF IInv, Init

(* compute_lower_bound leaves a cover of the node by stable sets. *)
LEMMA ComputeKeeps ==
  ASSUME IInv, compute_lower_bound
  PROVE  IInv'
<1> DEFINE n == Len(path)
<1>1. PICK C \in Covers(cd.ncount, cd.elist[1]) :
        path' = [path EXCEPT ![n].cclasses = C]
  BY DEF compute_lower_bound
<1> DEFINE d == [cd EXCEPT !.cclasses = C]
<1>2. /\ n \in Nat \ {0} /\ path \in Seq(Colordata) /\ PathInv(path)
      /\ cd = path[n] /\ cd \in Colordata /\ Sound(cd)
  BY NodeAtHand DEF IInv
<1>3. path' = [path EXCEPT ![n] = d]
  BY <1>1, <1>2
<1>4. cd.elist[1] = cd.graph /\ cd.elist # <<>> /\ cd.ncount \in Nat \ {0}
  BY <1>2 DEF compute_lower_bound, Sound
<1>5. Cover(C, cd.ncount, cd.graph) /\ C # {} /\ C \in Graphs
  <2>1. /\ UNION C = Nodes(cd.ncount)
        /\ \A S \in C : S \in SUBSET Nodes(cd.ncount) /\ S # {} /\ Stable(S, cd.graph)
    BY <1>1, <1>4 DEF Covers, kSubset
  <2>2. Nodes(cd.ncount) # {} /\ Nodes(cd.ncount) \subseteq Nat
    BY <1>4 DEF Nodes
  <2>. QED  BY <2>1, <2>2 DEF Cover, Graphs
<1>6. d \in Colordata
  BY <1>2, <1>5 DEF Colordata
<1>7. /\ d.cclasses = C /\ d.ncount = cd.ncount /\ d.graph = cd.graph
      /\ d.names = cd.names /\ d.kind = cd.kind /\ d.v1 = cd.v1 /\ d.v2 = cd.v2
      /\ d.elist = cd.elist /\ d.ids = cd.ids /\ d.best = cd.best
  BY <1>2 DEF Colordata
<1> HIDE DEF d
<1>8. Sound(d)
  BY <1>2, <1>5, <1>7 DEF Sound
<1>9. PathInv(path')
  BY <1>2, <1>3, <1>6, <1>7, <1>8, UpdateKeepsPath
<1>10. cd' = d
  BY <1>2, <1>3 DEF cd, Last
<1>. QED  BY <1>5, <1>7, <1>9, <1>10 DEF IInv

(* A waiting node loses its list, the root never. *)
LEMMA WaitKeeps ==
  ASSUME IInv, Wait
  PROVE  IInv'
<1> DEFINE n == Len(path)
           d == [cd EXCEPT !.elist = <<>>, !.ids = <<>>]
<1>1. /\ n \in Nat \ {0} /\ path \in Seq(Colordata) /\ PathInv(path)
      /\ cd = path[n] /\ cd \in Colordata /\ Sound(cd)
  BY NodeAtHand DEF IInv
<1>2. path' = [path EXCEPT ![n] = d] /\ cd.kind # "root" /\ solved' = solved
  BY DEF Wait, free_elist
<1>3. d \in Colordata
  <2>1. <<>> \in Seq(Graphs) /\ <<>> \in Seq(Namings)
    OBVIOUS
  <2>. QED  BY <1>1, <2>1 DEF Colordata
<1>4. /\ d.cclasses = cd.cclasses /\ d.ncount = cd.ncount /\ d.graph = cd.graph
      /\ d.names = cd.names /\ d.kind = cd.kind /\ d.v1 = cd.v1 /\ d.v2 = cd.v2
      /\ d.elist = <<>> /\ d.best = cd.best
  BY <1>1 DEF Colordata
<1> HIDE DEF d
<1>5. Sound(d)
  BY <1>1, <1>4 DEF Sound
<1>6. PathInv(path')
  BY <1>1, <1>2, <1>3, <1>4, <1>5, UpdateKeepsPath
<1>7. cd' = d
  BY <1>1, <1>2 DEF cd, Last
<1>. QED  BY <1>2, <1>4, <1>6, <1>7 DEF IInv

(* The list is built again from the root's. *)
LEMMA RecoverKeeps ==
  ASSUME IInv, Recover
  PROVE  IInv'
<1> DEFINE n == Len(path)
           d == [cd EXCEPT !.elist = <<cd.graph>>, !.ids = <<cd.names>>]
<1>1. /\ n \in Nat \ {0} /\ path \in Seq(Colordata) /\ PathInv(path)
      /\ cd = path[n] /\ cd \in Colordata /\ Sound(cd)
  BY NodeAtHand DEF IInv
<1>2. cd.elist = <<>> /\ path' = [path EXCEPT ![n] = recover_elist(path)] /\ solved' = solved
  BY DEF Recover
<1>3. Steps(path) = [E |-> cd.graph, ids |-> cd.names]
  BY <1>1, StepsRecover
<1>4. recover_elist(path) = d
  BY <1>1, <1>2, <1>3 DEF recover_elist, Last
<1>5. d \in Colordata
  <2>1. <<cd.graph>> \in Seq(Graphs) /\ <<cd.names>> \in Seq(Namings)
    BY <1>1 DEF Colordata
  <2>. QED  BY <1>1, <2>1 DEF Colordata
<1>6. /\ d.cclasses = cd.cclasses /\ d.ncount = cd.ncount /\ d.graph = cd.graph
      /\ d.names = cd.names /\ d.kind = cd.kind /\ d.v1 = cd.v1 /\ d.v2 = cd.v2
      /\ d.elist = <<cd.graph>> /\ d.ids = <<cd.names>> /\ d.best = cd.best
  BY <1>1 DEF Colordata
<1>7. cd.kind # "root"
  <2> HIDE DEF n, d
  <2>1. CASE n = 1
    <3>1. cd.elist = <<cd.graph>>
      BY <1>1, <2>1 DEF PathInv, IsRoot
    <3>2. <<cd.graph>> # <<>>
      OBVIOUS
    <3>. QED  BY <1>2, <3>1, <3>2
  <2>2. CASE n # 1
    <3>0. n \in Nat /\ n > 1
      BY <1>1, <2>2
    <3>1. n - 1 \in 1 .. n - 1 /\ (n - 1) + 1 = n
      BY <3>0
    <3>2. Linked(path[n - 1], path[n])
      BY <1>1, <3>1 DEF PathInv, n
    <3>. QED  BY <1>1, <3>2 DEF Linked
  <2>. QED  BY <2>1, <2>2
<1> HIDE DEF d
<1>8. Sound(d)
  BY <1>1, <1>6 DEF Sound
<1>9. PathInv(path')
  BY <1>1, <1>2, <1>4, <1>5, <1>6, <1>7, <1>8, UpdateKeepsPath
<1>10. cd' = d
  BY <1>1, <1>2, <1>4 DEF cd, Last
<1>. QED  BY <1>2, <1>6, <1>9, <1>10 DEF IInv

(* A child is created from the lists of its parent, which then lose them. *)
LEMMA BranchKeeps ==
  ASSUME IInv, Branch
  PROVE  IInv'
<1> DEFINE n == Len(path)
           d == [free_elist(cd) EXCEPT !.cclasses = {}]
           mid == [path EXCEPT ![n] = d]
<1>1. /\ n \in Nat \ {0} /\ path \in Seq(Colordata) /\ PathInv(path)
      /\ cd = path[n] /\ cd \in Colordata /\ Sound(cd)
  BY NodeAtHand DEF IInv
<1>2. PICK child \in Children(cd) : path' = Append(mid, child) /\ solved' = FALSE
  BY DEF Branch
<1>3. cd.elist # <<>> /\ cd.cclasses # {}
  BY DEF Branch, IInv
<1>4. PICK v1, v2 :
        /\ Branchable(cd, v1, v2)
        /\ child \in {create_same(cd, v1, v2), create_differ(cd, v1, v2)}
  <2>1. PICK p \in Candidates(cd) :
          child \in {create_same(cd, p[1], p[2]), create_differ(cd, p[1], p[2])}
                    \cup create_same_seq(cd, p[1], p[2])
    BY <1>2 DEF Children
  <2>. QED  BY <1>1, <1>3, <2>1, ChildrenAreBranchable
<1>5. child \in Colordata /\ Sound(child) /\ Linked(cd, child)
  <2>1. CASE child = create_same(cd, v1, v2)
    BY <1>1, <1>3, <1>4, <2>1, SameChildIsSound
  <2>2. CASE child = create_differ(cd, v1, v2)
    BY <1>1, <1>3, <1>4, <2>2, DifferChildIsSound
  <2>. QED  BY <1>4, <2>1, <2>2
<1>6. /\ d \in Colordata
      /\ d.cclasses = {} /\ d.ncount = cd.ncount /\ d.graph = cd.graph
      /\ d.names = cd.names /\ d.kind = cd.kind /\ d.v1 = cd.v1 /\ d.v2 = cd.v2
      /\ d.best = cd.best
      /\ IF cd.kind = "root" THEN d.elist = cd.elist /\ d.ids = cd.ids
                             ELSE d.elist = <<>>
  <2>1. {} \in Graphs /\ <<>> \in Seq(Graphs) /\ <<>> \in Seq(Namings)
    BY DEF Graphs
  <2>2. CASE cd.kind = "root"
    <3>1. d = [cd EXCEPT !.cclasses = {}]
      BY <2>2 DEF free_elist
    <3> HIDE DEF d
    <3>. QED  BY <1>1, <2>1, <2>2, <3>1 DEF Colordata
  <2>3. CASE cd.kind # "root"
    <3>1. d = [[cd EXCEPT !.elist = <<>>, !.ids = <<>>] EXCEPT !.cclasses = {}]
      BY <2>3 DEF free_elist
    <3> HIDE DEF d
    <3>. QED  BY <1>1, <2>1, <2>3, <3>1 DEF Colordata
  <2>. QED  BY <2>2, <2>3
<1> HIDE DEF d
<1>7. Sound(d)
  BY <1>1, <1>6 DEF Sound
<1>8. PathInv(mid) /\ Len(mid) = n /\ mid[n] = d
  BY <1>1, <1>6, <1>7, UpdateKeepsPath
<1>9. Linked(d, child)
  BY <1>5, <1>6 DEF Linked
<1> HIDE DEF mid
<1>10. PathInv(path')
  BY <1>2, <1>5, <1>8, <1>9, AppendKeepsPath
<1>. QED  BY <1>2, <1>10 DEF IInv

(* In a complete graph the sets of the LP are the colour classes. *)
LEMMA GrabKeeps ==
  ASSUME IInv, grab_integral_solution
  PROVE  IInv'
<1> DEFINE n == Len(path)
           d == [cd EXCEPT !.best = cd.cclasses]
<1>1. /\ n \in Nat \ {0} /\ path \in Seq(Colordata) /\ PathInv(path)
      /\ cd = path[n] /\ cd \in Colordata /\ Sound(cd)
  BY NodeAtHand DEF IInv
<1>2. path' = [path EXCEPT ![n] = d]
  BY <1>1 DEF grab_integral_solution
<1>3. cd.cclasses # {} /\ Candidates(cd) = {}
  BY DEF grab_integral_solution, IInv
<1>4. cd.ncount \in Nat /\ Cover(cd.cclasses, cd.ncount, cd.graph)
  BY <1>1, <1>3 DEF Sound
<1>5. ASSUME NEW u \in Nodes(cd.ncount), NEW w \in Nodes(cd.ncount), u < w,
             NEW S \in cd.cclasses, {u, w} \subseteq S
      PROVE  FALSE
  <2>1. <<u, w>> \in Candidates(cd)
    BY <1>5 DEF Candidates
  <2>. QED  BY <1>3, <2>1
<1>6. IsColouring(cd.cclasses, cd.ncount, cd.graph)
  BY <1>4, <1>5, SingletonsAreColouring
<1>7. /\ d \in Colordata
      /\ d.cclasses = cd.cclasses /\ d.ncount = cd.ncount /\ d.graph = cd.graph
      /\ d.names = cd.names /\ d.kind = cd.kind /\ d.v1 = cd.v1 /\ d.v2 = cd.v2
      /\ d.elist = cd.elist /\ d.ids = cd.ids /\ d.best = cd.cclasses
  BY <1>1 DEF Colordata
<1> HIDE DEF d
<1>8. Sound(d)
  BY <1>1, <1>6, <1>7 DEF Sound
<1>9. PathInv(path')
  BY <1>1, <1>2, <1>7, <1>8, UpdateKeepsPath
<1>10. cd' = d
  BY <1>1, <1>2 DEF cd, Last
<1>. QED  BY <1>3, <1>7, <1>9, <1>10 DEF IInv

(* The parent takes its child's colouring. *)
LEMMA CollectKeeps ==
  ASSUME IInv, collect_children
  PROVE  IInv'
<1> DEFINE n == Len(path)
           up == Front(path)
           m == Len(up)
           best == Lifted(cd.best, cd)
           d == [up[m] EXCEPT !.best = best]
<1>1. /\ n \in Nat \ {0} /\ path \in Seq(Colordata) /\ PathInv(path)
      /\ cd = path[n] /\ cd \in Colordata /\ Sound(cd)
  BY NodeAtHand DEF IInv
<1>2. /\ cd.best # {} /\ n > 1
      /\ path' = [up EXCEPT ![m].best = best] /\ solved' = TRUE
  BY DEF collect_children
<1>3. PathInv(up) /\ m = n - 1 /\ up[m] = path[n - 1]
  <2>1. n - 1 \in 1 .. n - 1
    BY <1>1, <1>2
  <2>. QED  BY <1>1, <1>2, <2>1, FrontKeepsPath
<1>4. up \in Seq(Colordata) /\ m \in Nat \ {0} /\ up[m] \in Colordata /\ Sound(up[m])
  BY SMTT(60), <1>1, <1>2, <1>3 DEF PathInv
<1>5. Linked(up[m], cd)
  <2>1. n - 1 \in 1 .. n - 1 /\ (n - 1) + 1 = n
    BY <1>1, <1>2
  <2>2. Linked(path[n - 1], path[(n - 1) + 1])
    BY <1>1, <2>1 DEF PathInv
  <2>. QED  BY <1>1, <1>3, <2>1, <2>2
<1>6. /\ IsColouring(best, up[m].ncount, up[m].graph)
      /\ best \in Graphs /\ best # {}
  BY <1>1, <1>2, <1>4, <1>5, LiftedIsColouring
<1> HIDE DEF best, up, m
<1>7. /\ d \in Colordata
      /\ d.cclasses = up[m].cclasses /\ d.ncount = up[m].ncount /\ d.graph = up[m].graph
      /\ d.names = up[m].names /\ d.kind = up[m].kind /\ d.v1 = up[m].v1
      /\ d.v2 = up[m].v2 /\ d.elist = up[m].elist /\ d.ids = up[m].ids /\ d.best = best
  BY <1>4, <1>6 DEF Colordata
<1>8. path' = [up EXCEPT ![m] = d]
  BY <1>2, <1>4
<1> HIDE DEF d
<1>9. Sound(d)
  BY <1>4, <1>6, <1>7 DEF Sound
<1>10. PathInv(path')
  <2>1. m = Len(up)
    BY DEF m
  <2>. QED  BY <1>3, <1>7, <1>8, <1>9, <2>1, UpdateKeepsPath
<1>11. cd' = d
  <2>1. m = Len(up)
    BY DEF m
  <2>2. Len(path') = m /\ path'[m] = d
    BY <1>4, <1>8, <2>1
  <2>. QED  BY <2>2 DEF cd, Last
<1>. QED  BY <1>6, <1>7, <1>10, <1>11 DEF IInv

-----------------------------------------------------------------------------
(* The theorems.                                                           *)

(* The invariant holds for every graph and every way of walking its tree:    *)
(* each node on the path is what its parent's decision makes of it, and    *)
(* its lists, sets and colouring are those of its graph.                   *)
THEOREM Invariance == Spec => []IInv
<1>1. Init => IInv
  BY InitHolds
<1>2. IInv /\ [Next]_vars => IInv'
  <2>1. SUFFICES ASSUME IInv, [Next]_vars PROVE IInv'
    OBVIOUS
  <2>2. CASE compute_lower_bound
    BY <2>1, <2>2, ComputeKeeps
  <2>3. CASE Wait
    BY <2>1, <2>3, WaitKeeps
  <2>4. CASE Recover
    BY <2>1, <2>4, RecoverKeeps
  <2>5. CASE Branch
    BY <2>1, <2>5, BranchKeeps
  <2>6. CASE grab_integral_solution
    BY <2>1, <2>6, GrabKeeps
  <2>7. CASE collect_children
    BY <2>1, <2>7, CollectKeeps
  <2>8. CASE UNCHANGED vars
    BY <2>1, <2>8 DEF vars, IInv, cd
  <2>. QED  BY <2>1, <2>2, <2>3, <2>4, <2>5, <2>6, <2>7, <2>8 DEF Next
<1>. QED  BY <1>1, <1>2, PTL DEF Spec

(* create_same, create_differ and create_same_seq hand their children      *)
(* covers by stable sets.                                                  *)
THEOREM ChildrenInheritCovers == Spec => []InheritedSetsFit
<1>1. IInv => InheritedSetsFit
  BY NodeAtHand DEF IInv, Sound, Cover, InheritedSetsFit
<1>. QED  BY <1>1, Invariance, PTL

(* recover_elist builds the list the node was created with.                *)
THEOREM RecoveryIsExact == Spec => []RecoveredIsOriginal
<1>1. IInv => RecoveredIsOriginal
  BY NodeAtHand DEF IInv, Sound, RecoveredIsOriginal
<1>. QED  BY <1>1, Invariance, PTL

(* collect_same_children and collect_diff_children hand colourings of the  *)
(* child's graph on as colourings of the parent's.                         *)
THEOREM CollectedColoursFit == Spec => []CollectedIsColouring
<1>1. IInv => CollectedIsColouring
  BY NodeAtHand DEF IInv, Sound, CollectedIsColouring
<1>. QED  BY <1>1, Invariance, PTL

(* Whichever vertices and whichever way of branching the solver chooses,   *)
(* one child keeps the chromatic number, none lowers it and none raises it *)
(* by more than one.                                                       *)
THEOREM BranchingKeepsOptimum == Spec => []BranchingIsExact
<1>1. IInv => BranchingIsExact
  <2>1. SUFFICES ASSUME IInv, solved, cd.best = {}, cd.elist # <<>>, NEW p \in Candidates(cd)
                 PROVE  LET chi(child) == ChromaticNumber(child.ncount, child.graph)
                            same == create_same(cd, p[1], p[2])
                            diff == create_differ(cd, p[1], p[2])
                            seq  == create_same_seq(cd, p[1], p[2])
                            here == ChromaticNumber(cd.ncount, cd.graph)
                        IN  /\ \E child \in {same, diff} : chi(child) = here
                            /\ \E child \in seq : chi(child) = here
                            /\ \A child \in {same, diff} \cup seq :
                                 chi(child) \in here .. here + 1
    BY DEF BranchingIsExact
  <2> DEFINE chi(child) == ChromaticNumber(child.ncount, child.graph)
             same == create_same(cd, p[1], p[2])
             diff == create_differ(cd, p[1], p[2])
             seq  == create_same_seq(cd, p[1], p[2])
             n    == cd.ncount
             E    == cd.graph
             here == ChromaticNumber(n, E)
             member(m) == create_same(cd, Min({m, p[2]}), Max({m, p[2]}))
  <2>2. cd \in Colordata /\ Sound(cd) /\ cd.cclasses # {}
    BY <2>1, NodeAtHand DEF IInv
  <2>3. /\ cd.elist[1] = E /\ n \in Nat \ {0} /\ E \subseteq Edges(n)
    BY <2>1, <2>2 DEF Sound
  <2>4. Branchable(cd, p[1], p[2])
    BY <2>2, CandidateIsBranchable
  <2>5. here \in Nat /\ Colourable(n, E, here)
    BY <2>3, ChromaticNumberIsLeast
  <2>6. \E child \in {same, diff} : chi(child) = here
    <3>1. PICK c \in [Nodes(n) -> 1 .. here] : Proper(c, n, E)
      BY <2>5 DEF Colourable
    <3>2. IF c[p[1]] = c[p[2]] THEN chi(same) = here ELSE chi(diff) = here
      BY <2>1, <2>2, <2>4, <3>1, DecisionBounds
    <3> HIDE DEF same, diff
    <3>. QED  BY <3>2
  <2>7. \E child \in seq : chi(child) = here
    <3>1. same \in seq /\ \A m \in Neighbours(p[1], E) \ Neighbours(p[2], E) : member(m) \in seq
      BY <2>3 DEF create_same_seq
    <3>2. p[1] \in Nodes(n) /\ p[2] \in Nodes(n) /\ p[1] # p[2] /\ {p[1], p[2]} \notin E
      BY <2>3, <2>4 DEF Branchable, Nodes
    <3>3. PICK c \in [Nodes(n) -> 1 .. here] :
            /\ Proper(c, n, E)
            /\ \/ c[p[1]] = c[p[2]]
               \/ \E m \in Neighbours(p[1], E) \ Neighbours(p[2], E) : c[m] = c[p[2]]
      <4> DEFINE v1 == p[1]
                 v2 == p[2]
      <4>1. /\ v1 \in Nodes(n) /\ v2 \in Nodes(n) /\ v1 # v2 /\ {v1, v2} \notin E
            /\ n \in Nat /\ E \subseteq Edges(n) /\ here \in Nat /\ Colourable(n, E, here)
        BY <2>3, <2>5, <3>2
      <4> HIDE DEF n, E, here, v1, v2
      <4>2. \E c \in [Nodes(n) -> 1 .. here] : Agreeing(c, n, E, v1, v2)
        BY <4>1, SomeoneAgrees
      <4>. QED  BY <4>2 DEF Agreeing, v1, v2
    <3>4. CASE c[p[1]] = c[p[2]]
      <4>1. chi(same) = here
        BY <2>1, <2>2, <2>4, <3>3, <3>4, DecisionBounds
      <4> HIDE DEF same, seq
      <4>. QED  BY <3>1, <4>1
    <3>5. CASE \E m \in Neighbours(p[1], E) \ Neighbours(p[2], E) : c[m] = c[p[2]]
      <4>1. PICK m \in Neighbours(p[1], E) \ Neighbours(p[2], E) : c[m] = c[p[2]]
        BY <3>5
      <4> DEFINE a == Min({m, p[2]})
                 b == Max({m, p[2]})
      <4>2. a \in {m, p[2]} /\ b \in {m, p[2]} /\ Branchable(cd, a, b)
        BY <2>2, <2>4, <4>1, SequenceIsBranchable
      <4>3. member(m) = create_same(cd, a, b)
        OBVIOUS
      <4> HIDE DEF a, b
      <4>4. c[a] = c[b]
        BY <4>1, <4>2
      <4>5. chi(create_same(cd, a, b)) = here
        BY <2>1, <2>2, <3>3, <4>2, <4>4, DecisionBounds
      <4> HIDE DEF member, seq
      <4>. QED  BY <3>1, <4>1, <4>3, <4>5
    <3>. QED  BY <3>3, <3>4, <3>5
  <2>8. ASSUME NEW child \in {same, diff} \cup seq PROVE chi(child) \in here .. here + 1
    <3>1. PICK v1, v2 : /\ Branchable(cd, v1, v2)
                        /\ child \in {create_same(cd, v1, v2), create_differ(cd, v1, v2)}
      BY <2>1, <2>2, ChildrenAreBranchable
    <3>. QED  BY <2>1, <2>2, <3>1, DecisionBounds
  <2> HIDE DEF same, diff, seq
  <2>9. /\ \E child \in {same, diff} : chi(child) = here
        /\ \E child \in seq : chi(child) = here
        /\ \A child \in {same, diff} \cup seq : chi(child) \in here .. here + 1
    BY <2>6, <2>7, <2>8
  <2>. QED  BY <2>9 DEF same, diff, seq
<1>. QED  BY <1>1, Invariance, PTL
=============================================================================
