--------------------------- MODULE HeuristicsProofs ----------------------------
(***************************************************************************)
(* Proofs about the instances of the nodes and about what is found on them *)
(* without the linear relaxation.                                          *)
(*                                                                         *)
(* First the structure of an instance: whatever is removed, preprocessed   *)
(* and branched on, the partitions and their indices agree, completed      *)
(* cliques stay complete, and branching uses up the undecided vertices.    *)
(* Then what an instance is worth: preprocessing keeps the solutions,      *)
(* branching splits them, and a colouring of a node extends to the input.  *)
(* Last the heuristics and checks: the greedy colouring of exactcolors     *)
(* colours properly, a heuristic that reports FEASIBLE has a colouring of  *)
(* the input, and the feasibility check of a branch-and-price node is      *)
(* right.                                                                  *)
(***************************************************************************)
EXTENDS Heuristics, FiniteSetTheorems, SequenceTheorems, WellFoundedInduction, TLAPS

-----------------------------------------------------------------------------
(* A nonempty set of naturals has a least element. *)
LEMMA LeastNatural ==
  ASSUME NEW T \in SUBSET Nat, T # {}
  PROVE  \E m \in T : \A k \in T : m <= k
<1>1. PICK x \in T : \A y \in T : ~(<<y, x>> \in OpToRel(<, Nat))
  BY NatLessThanWellFounded, WFMin
<1>2. \A y \in T : ~(y < x)
  BY <1>1 DEF OpToRel
<1>. QED  BY <1>2

-----------------------------------------------------------------------------
(* The invariant of an instance.                                           *)

(* The parts partition W, none is empty, and index names the part of a     *)
(* vertex.                                                                 *)
Aligned(parts, index, W) ==
  /\ parts \in Seq(SUBSET W)
  /\ \A i \in 1 .. Len(parts) : parts[i] # {}
  /\ index = [v \in W |-> index[v]]
  /\ \A v \in W : /\ index[v] \in 1 .. Len(parts)
                  /\ \A i \in 1 .. Len(parts) : v \in parts[i] <=> index[v] = i

Fields == {"V", "E", "P", "Q", "vertex2Ppart", "vertex2Qpart", "isolated",
           "isGCP", "isInfeasible", "hasTrivialSolution"}

Sound(d) ==
  /\ DOMAIN d = Fields
  /\ IsFiniteSet(d.V)
  /\ \A e \in d.E : e \subseteq d.V /\ Cardinality(e) = 2
  /\ Aligned(d.P, d.vertex2Ppart, d.V)
  /\ Aligned(d.Q, d.vertex2Qpart, d.V)
  /\ d.isGCP \in BOOLEAN /\ d.isInfeasible \in BOOLEAN /\ d.hasTrivialSolution \in BOOLEAN

Part(d, v) == d.P[d.vertex2Ppart[v]]

QPart(d, v) == d.Q[d.vertex2Qpart[v]]

(* r is what preprocessing or branching makes of d: vertices are gone, the *)
(* edges between the others are there, and so are their parts; a vertex    *)
(* that is saved as isolated is gone.                                      *)
Reduces(d, r) ==
  /\ Sound(r)
  /\ r.V \subseteq d.V
  /\ \A e \in d.E : e \subseteq r.V => e \in r.E
  /\ \A v \in r.V : /\ Part(r, v) = Part(d, v) \cap r.V
                    /\ QPart(r, v) = QPart(d, v) \cap r.V
  /\ r.isolated \subseteq d.isolated \cup (d.V \ r.V)

(* r is d without some vertices: nothing else is different, but r is       *)
(* infeasible where a P-part lost all its vertices.                        *)
Restricts(d, r) ==
  /\ Reduces(d, r)
  /\ r.E = {e \in d.E : e \subseteq r.V}
  /\ r.isolated = d.isolated
  /\ r.isGCP = d.isGCP
  /\ r.hasTrivialSolution = d.hasTrivialSolution
  /\ r.isInfeasible <=> d.isInfeasible \/ \E v \in d.V : Part(d, v) \cap r.V = {}

(* P-parts are cliques. *)
Cliques(d) == \A v \in d.V : \A u \in Part(d, v) : u # v => {u, v} \in d.E

(* Parts consist of vertices, and a vertex is in its part. *)
LEMMA PartsAreVertices ==
  ASSUME NEW d, Sound(d)
  PROVE  \A v \in d.V : /\ Part(d, v) \subseteq d.V /\ v \in Part(d, v)
                        /\ QPart(d, v) \subseteq d.V /\ v \in QPart(d, v)
<1>1. TAKE v \in d.V
<1>2. /\ d.P \in Seq(SUBSET d.V) /\ d.Q \in Seq(SUBSET d.V)
      /\ d.vertex2Ppart[v] \in 1 .. Len(d.P)
      /\ d.vertex2Qpart[v] \in 1 .. Len(d.Q)
      /\ v \in d.P[d.vertex2Ppart[v]] /\ v \in d.Q[d.vertex2Qpart[v]]
  BY DEF Sound, Aligned
<1>3. d.P[d.vertex2Ppart[v]] \in SUBSET d.V
  BY <1>2, ElementOfSeq
<1>4. d.Q[d.vertex2Qpart[v]] \in SUBSET d.V
  BY <1>2, ElementOfSeq
<1>. QED  BY <1>2, <1>3, <1>4 DEF Part, QPart

(* A vertex of a part has that part, and two vertices without a common one *)
(* have parts without a common one.                                        *)
LEMMA PartsAreClasses ==
  ASSUME NEW d, Sound(d), NEW v \in d.V, NEW u \in d.V
  PROVE  /\ u \in Part(d, v) <=> Part(d, u) = Part(d, v)
         /\ u \in QPart(d, v) <=> QPart(d, u) = QPart(d, v)
         /\ u \notin Part(d, v) => Part(d, u) \cap Part(d, v) = {}
         /\ u \notin QPart(d, v) => QPart(d, u) \cap QPart(d, v) = {}
<1>1. \A w \in d.V :
        /\ d.vertex2Ppart[w] \in 1 .. Len(d.P)
        /\ d.vertex2Qpart[w] \in 1 .. Len(d.Q)
        /\ \A i \in 1 .. Len(d.P) : w \in d.P[i] <=> d.vertex2Ppart[w] = i
        /\ \A i \in 1 .. Len(d.Q) : w \in d.Q[i] <=> d.vertex2Qpart[w] = i
  BY DEF Sound, Aligned
<1>2. /\ Part(d, u) \subseteq d.V /\ u \in Part(d, u)
      /\ QPart(d, u) \subseteq d.V /\ u \in QPart(d, u)
  BY PartsAreVertices
<1>3. /\ \A w \in d.V : w \in Part(d, v) <=> d.vertex2Ppart[w] = d.vertex2Ppart[v]
      /\ \A w \in d.V : w \in QPart(d, v) <=> d.vertex2Qpart[w] = d.vertex2Qpart[v]
      /\ \A w \in d.V : w \in Part(d, u) <=> d.vertex2Ppart[w] = d.vertex2Ppart[u]
      /\ \A w \in d.V : w \in QPart(d, u) <=> d.vertex2Qpart[w] = d.vertex2Qpart[u]
  BY SMTT(60), <1>1 DEF Part, QPart
<1>4. Part(d, v) \subseteq d.V /\ QPart(d, v) \subseteq d.V
  BY PartsAreVertices
<1>5. u \in Part(d, v) <=> Part(d, u) = Part(d, v)
  BY <1>2, <1>3 DEF Part
<1>6. u \in QPart(d, v) <=> QPart(d, u) = QPart(d, v)
  BY <1>2, <1>3 DEF QPart
<1>7. u \notin Part(d, v) => Part(d, u) \cap Part(d, v) = {}
  BY <1>2, <1>3, <1>4
<1>8. u \notin QPart(d, v) => QPart(d, u) \cap QPart(d, v) = {}
  BY <1>2, <1>3, <1>4
<1>. QED  BY <1>5, <1>6, <1>7, <1>8

(* An instance is a reduction of itself. *)
LEMMA ReducesItself ==
  ASSUME NEW d, Sound(d)
  PROVE  Reduces(d, d)
<1>1. \A v \in d.V : Part(d, v) \subseteq d.V /\ QPart(d, v) \subseteq d.V
  BY PartsAreVertices
<1>. QED  BY <1>1 DEF Reduces

(* Reductions compose. *)
LEMMA ReducesTransitive ==
  ASSUME NEW d, NEW r, NEW s, Reduces(d, r), Reduces(r, s)
  PROVE  Reduces(d, s)
<1>1. \A e \in d.E : e \subseteq s.V => e \in s.E
  BY DEF Reduces
<1>2. \A v \in s.V : /\ Part(s, v) = Part(d, v) \cap s.V
                      /\ QPart(s, v) = QPart(d, v) \cap s.V
  BY DEF Reduces
<1>. QED  BY <1>1, <1>2 DEF Reduces

(* An instance is a restriction of itself. *)
LEMMA RestrictsItself ==
  ASSUME NEW d, Sound(d)
  PROVE  Restricts(d, d)
<1>1. \A v \in d.V : Part(d, v) \cap d.V # {}
  BY PartsAreVertices
<1>2. d.E = {e \in d.E : e \subseteq d.V}
  BY DEF Sound
<1>. QED  BY <1>1, <1>2, ReducesItself DEF Restricts

(* Restrictions compose. *)
LEMMA RestrictsTransitive ==
  ASSUME NEW d, Sound(d), NEW r, NEW s, Restricts(d, r), Restricts(r, s)
  PROVE  Restricts(d, s)
<1>1. Reduces(d, r) /\ Reduces(r, s) /\ Reduces(d, s)
  BY ReducesTransitive DEF Restricts
<1>2. s.V \subseteq r.V /\ r.V \subseteq d.V /\ Sound(r)
  BY <1>1 DEF Reduces
<1>3. s.E = {e \in d.E : e \subseteq s.V}
  BY <1>2 DEF Restricts
<1>4. ASSUME NEW v \in d.V, Part(d, v) \cap s.V = {}, Part(d, v) \cap r.V # {}
      PROVE  \E u \in r.V : Part(r, u) \cap s.V = {}
  <2>1. PICK u \in r.V : u \in Part(d, v)
    BY <1>4
  <2>2. Part(d, u) = Part(d, v)
    BY <1>2, <1>4, <2>1, PartsAreClasses
  <2>3. Part(r, u) = Part(d, u) \cap r.V
    BY <1>1 DEF Reduces
  <2>. QED  BY <1>4, <2>1, <2>2, <2>3
<1>5. ASSUME NEW u \in r.V, Part(r, u) \cap s.V = {}
      PROVE  \E v \in d.V : Part(d, v) \cap s.V = {}
  <2>1. Part(r, u) = Part(d, u) \cap r.V
    BY <1>1 DEF Reduces
  <2>2. Part(d, u) \cap s.V = {}
    BY <1>2, <1>5, <2>1
  <2>. QED  BY <1>2, <2>2
<1>6. ASSUME NEW v \in d.V, Part(d, v) \cap r.V = {}
      PROVE  Part(d, v) \cap s.V = {}
  BY <1>2, <1>6
<1>7. /\ r.isInfeasible <=> d.isInfeasible \/ \E v \in d.V : Part(d, v) \cap r.V = {}
      /\ s.isInfeasible <=> r.isInfeasible \/ \E u \in r.V : Part(r, u) \cap s.V = {}
  BY DEF Restricts
<1>8. s.isInfeasible <=> d.isInfeasible \/ \E v \in d.V : Part(d, v) \cap s.V = {}
  BY <1>4, <1>5, <1>6, <1>7
<1>9. /\ s.isolated = d.isolated /\ s.isGCP = d.isGCP
      /\ s.hasTrivialSolution = d.hasTrivialSolution
  BY DEF Restricts
<1>. QED  BY <1>1, <1>3, <1>8, <1>9 DEF Restricts

(* Completed cliques stay complete. *)
LEMMA ReductionKeepsCliques ==
  ASSUME NEW d, NEW r, Reduces(d, r), Cliques(d)
  PROVE  Cliques(r)
<1>1. SUFFICES ASSUME NEW v \in r.V, NEW u \in Part(r, v), u # v
               PROVE  {u, v} \in r.E
  BY DEF Cliques
<1>2. u \in Part(d, v) /\ u \in r.V /\ v \in d.V
  BY DEF Reduces
<1>. QED  BY <1>1, <1>2 DEF Reduces, Cliques

-----------------------------------------------------------------------------
(* The removal of a vertex.                                                *)

(* The other vertices of W keep their parts, but for v. *)
PartsKept(parts, index, newparts, newindex, W, v) ==
  \A u \in W \ {v} : newparts[newindex[u]] = parts[index[u]] \ {v}

(* Without moves the later parts down when the part of v empties, and      *)
(* Reindexed tells their vertices so.                                      *)
LEMMA RemovalAligns ==
  ASSUME NEW W, NEW parts, NEW index, Aligned(parts, index, W), NEW v \in W
  PROVE  /\ Aligned(Without(parts, index[v], v),
                    Reindexed(index, parts, index[v], v), W \ {v})
         /\ PartsKept(parts, index, Without(parts, index[v], v),
                      Reindexed(index, parts, index[v], v), W, v)
<1> DEFINE n == Len(parts)
           i == index[v]
           new == Without(parts, i, v)
           moved == Reindexed(index, parts, i, v)
           Rest == W \ {v}
<1>1. /\ n \in Nat /\ i \in 1 .. n /\ v \in parts[i]
      /\ \A k \in 1 .. n : parts[k] \subseteq W /\ parts[k] # {}
      /\ \A u \in W : index[u] \in 1 .. n
      /\ \A u \in W : \A k \in 1 .. n : u \in parts[k] <=> index[u] = k
      /\ DOMAIN index = W
  <2>1. n \in Nat /\ \A k \in 1 .. n : parts[k] \subseteq W
    BY LenProperties, ElementOfSeq DEF Aligned
  <2>. QED  BY <2>1 DEF Aligned
<1>2. DOMAIN moved = Rest
  BY <1>1 DEF Reindexed
<1>3. CASE parts[i] = {v}
  <2>1. \A u \in Rest : index[u] # i
    BY <1>1, <1>3
  <2>2. \A u \in Rest : moved[u] = IF index[u] > i THEN index[u] - 1 ELSE index[u]
    <3>1. SUFFICES ASSUME NEW u \in Rest
                   PROVE  moved[u] = IF index[u] > i THEN index[u] - 1 ELSE index[u]
      OBVIOUS
    <3>2. moved[u] = IF \E k \in i + 1 .. n : u \in parts[k]
                     THEN (CHOOSE k \in i + 1 .. n : u \in parts[k]) - 1 ELSE index[u]
      BY <1>1, <1>3 DEF Reindexed
    <3>3. \A k \in i + 1 .. n : u \in parts[k] <=> index[u] = k
      BY <1>1
    <3>4. CASE index[u] > i
      <4>1. index[u] \in i + 1 .. n
        BY <1>1, <3>4
      <4>2. (CHOOSE k \in i + 1 .. n : u \in parts[k]) = index[u]
        BY <3>3, <4>1
      <4>. QED  BY <3>2, <3>3, <3>4, <4>1, <4>2
    <3>5. CASE ~(index[u] > i)
      <4>1. ~ \E k \in i + 1 .. n : u \in parts[k]
        BY <1>1, <3>3, <3>5
      <4>. QED  BY <3>2, <3>5, <4>1
    <3>. QED  BY <3>4, <3>5
  <2>3. /\ new \in Seq(SUBSET Rest) /\ Len(new) = n - 1
        /\ \A k \in 1 .. n - 1 : new[k] = IF k < i THEN parts[k] ELSE parts[k + 1]
    <3> DEFINE front == SubSeq(parts, 1, i - 1)
               back  == SubSeq(parts, i + 1, n)
    <3>1. new = front \o back
      BY <1>3 DEF Without, RemoveAt
    <3>2. \A k \in 1 .. n : k # i => parts[k] \in SUBSET Rest
      BY <1>1
    <3>3. /\ front \in Seq(SUBSET Rest) /\ Len(front) = i - 1
          /\ \A k \in 1 .. i - 1 : front[k] = parts[k]
      <4>1. \A k \in 1 .. i - 1 : parts[k] \in SUBSET Rest
        BY <1>1, <3>2
      <4>2. /\ front \in Seq(SUBSET Rest)
            /\ Len(front) = IF 1 <= i - 1 THEN (i - 1) - 1 + 1 ELSE 0
            /\ \A k \in 1 .. (i - 1) - 1 + 1 : front[k] = parts[1 + k - 1]
        BY <1>1, <4>1, SubSeqProperties
      <4>. QED  BY <1>1, <4>2
    <3>4. /\ back \in Seq(SUBSET Rest) /\ Len(back) = n - i
          /\ \A k \in 1 .. n - i : back[k] = parts[i + k]
      <4>1. \A k \in i + 1 .. n : parts[k] \in SUBSET Rest
        BY <1>1, <3>2
      <4>2. /\ back \in Seq(SUBSET Rest)
            /\ Len(back) = IF i + 1 <= n THEN n - (i + 1) + 1 ELSE 0
            /\ \A k \in 1 .. n - (i + 1) + 1 : back[k] = parts[(i + 1) + k - 1]
        BY <1>1, <4>1, SubSeqProperties
      <4>. QED  BY <1>1, <4>2
    <3>. HIDE DEF front, back
    <3>5. /\ front \o back \in Seq(SUBSET Rest)
          /\ Len(front \o back) = n - 1
          /\ \A k \in 1 .. n - 1 :
               (front \o back)[k] = IF k <= i - 1 THEN front[k] ELSE back[k - (i - 1)]
      <4>1. /\ front \o back \in Seq(SUBSET Rest)
            /\ Len(front \o back) = Len(front) + Len(back)
            /\ \A k \in 1 .. Len(front) + Len(back) :
                 (front \o back)[k] =
                   IF k <= Len(front) THEN front[k] ELSE back[k - Len(front)]
        <5> HIDE DEF Rest
        <5>. QED  BY <3>3, <3>4, ConcatProperties, Zenon
      <4>2. Len(front) + Len(back) = n - 1 /\ Len(front) = i - 1
        BY <1>1, <3>3, <3>4
      <4>. QED  BY <4>1, <4>2
    <3>6. SUFFICES ASSUME NEW k \in 1 .. n - 1
                   PROVE  (front \o back)[k] = IF k < i THEN parts[k] ELSE parts[k + 1]
      BY <1>1, <3>1, <3>5
    <3>7. CASE k < i
      BY <1>1, <3>3, <3>5, <3>7
    <3>8. CASE ~(k < i)
      <4>1. k - (i - 1) \in 1 .. n - i /\ i + (k - (i - 1)) = k + 1
        BY <1>1, <3>8
      <4>. QED  BY SMTT(60), <1>1, <3>4, <3>5, <3>8, <4>1
    <3>. QED  BY <3>7, <3>8
  <2>. HIDE DEF new, moved
  <2>4. \A k \in 1 .. Len(new) : new[k] # {}
    <3>1. SUFFICES ASSUME NEW k \in 1 .. n - 1 PROVE new[k] # {}
      BY <2>3
    <3>2. k \in 1 .. n /\ k + 1 \in 1 .. n
      BY <1>1
    <3>. QED  BY <1>1, <2>3, <3>2
  <2>5. \A u \in Rest : moved[u] \in 1 .. Len(new)
    BY <1>1, <2>1, <2>2, <2>3
  <2>6. \A u \in Rest : \A k \in 1 .. Len(new) : u \in new[k] <=> moved[u] = k
    <3>1. SUFFICES ASSUME NEW u \in Rest, NEW k \in 1 .. n - 1
                   PROVE  u \in new[k] <=> moved[u] = k
      BY <2>3
    <3>2. k \in 1 .. n /\ k + 1 \in 1 .. n
      BY <1>1
    <3>3. CASE k < i
      <4>1. u \in new[k] <=> index[u] = k
        BY <1>1, <2>3, <3>2, <3>3
      <4>. QED  BY <1>1, <2>1, <2>2, <3>3, <4>1
    <3>4. CASE ~(k < i)
      <4>1. u \in new[k] <=> index[u] = k + 1
        BY <1>1, <2>3, <3>2, <3>4
      <4>. QED  BY <1>1, <2>1, <2>2, <3>4, <4>1
    <3>. QED  BY <3>3, <3>4
  <2>7. \A u \in Rest : new[moved[u]] = parts[index[u]] \ {v}
    <3>1. SUFFICES ASSUME NEW u \in Rest PROVE new[moved[u]] = parts[index[u]] \ {v}
      OBVIOUS
    <3>2. new[moved[u]] = parts[index[u]]
      BY <1>1, <2>1, <2>2, <2>3
    <3>3. v \notin parts[index[u]]
      BY <1>1, <2>1
    <3>. QED  BY <3>2, <3>3
  <2>8. moved = [u \in Rest |-> moved[u]]
    BY <1>2 DEF moved, Reindexed
  <2>. QED  BY <2>3, <2>4, <2>5, <2>6, <2>7, <2>8 DEF Aligned, PartsKept, new, moved
<1>4. CASE parts[i] # {v}
  <2>1. new = [parts EXCEPT ![i] = @ \ {v}]
    BY <1>4 DEF Without
  <2>2. \A u \in Rest : moved[u] = index[u]
    BY <1>1, <1>4 DEF Reindexed
  <2>3. /\ new \in Seq(SUBSET Rest) /\ Len(new) = n
        /\ \A k \in 1 .. n : new[k] = parts[k] \ {v}
    <3>1. \A k \in 1 .. n : k # i => v \notin parts[k]
      BY <1>1
    <3>2. parts = [k \in 1 .. n |-> parts[k]]
      BY LenProperties DEF Aligned
    <3>3. new = [k \in 1 .. n |-> parts[k] \ {v}]
      <4>1. DOMAIN parts = 1 .. n
        BY <3>2
      <4>2. new = [k \in 1 .. n |-> IF k = i THEN parts[i] \ {v} ELSE parts[k]]
        BY <2>1, <4>1
      <4>3. \A k \in 1 .. n : (IF k = i THEN parts[i] \ {v} ELSE parts[k]) = parts[k] \ {v}
        BY <3>1
      <4>. QED  BY <4>2, <4>3
    <3>4. new \in [1 .. n -> SUBSET Rest]
      BY <1>1, <3>3
    <3>. QED  BY <1>1, <3>3, <3>4
  <2>. HIDE DEF new, moved
  <2>4. \A k \in 1 .. Len(new) : new[k] # {}
    <3>1. SUFFICES ASSUME NEW k \in 1 .. n PROVE parts[k] \ {v} # {}
      BY <2>3
    <3>2. CASE k = i
      BY <1>1, <1>4, <3>2
    <3>3. CASE k # i
      BY <1>1, <3>3
    <3>. QED  BY <3>2, <3>3
  <2>5. \A u \in Rest : /\ moved[u] \in 1 .. Len(new)
                        /\ \A k \in 1 .. Len(new) : u \in new[k] <=> moved[u] = k
                        /\ new[moved[u]] = parts[index[u]] \ {v}
    BY <1>1, <2>2, <2>3
  <2>6. moved = [u \in Rest |-> moved[u]]
    BY <1>2 DEF moved, Reindexed
  <2>. QED  BY <2>3, <2>4, <2>5, <2>6 DEF Aligned, PartsKept, new, moved
<1>. QED  BY <1>3, <1>4

(* The removal of a vertex restricts the instance to the others. *)
LEMMA RemoveVertexRestricts ==
  ASSUME NEW d, Sound(d), NEW v \in d.V
  PROVE  /\ Restricts(d, RemoveVertex(d, v))
         /\ RemoveVertex(d, v).V = d.V \ {v}
<1> DEFINE r  == RemoveVertex(d, v)
           pi == d.vertex2Ppart[v]
           qj == d.vertex2Qpart[v]
<1>1. /\ r.V = d.V \ {v} /\ r.E = {e \in d.E : v \notin e}
      /\ r.P = Without(d.P, pi, v) /\ r.Q = Without(d.Q, qj, v)
      /\ r.vertex2Ppart = Reindexed(d.vertex2Ppart, d.P, pi, v)
      /\ r.vertex2Qpart = Reindexed(d.vertex2Qpart, d.Q, qj, v)
      /\ r.isolated = d.isolated /\ r.isGCP = d.isGCP
      /\ r.isInfeasible = (d.isInfeasible \/ d.P[pi] = {v})
      /\ r.hasTrivialSolution = d.hasTrivialSolution
  BY DEF Sound, Fields, RemoveVertex
<1>2. DOMAIN r = Fields
  BY DEF Sound, Fields, RemoveVertex
<1>. HIDE DEF r
<1>3. /\ Aligned(r.P, r.vertex2Ppart, r.V)
      /\ \A u \in r.V : r.P[r.vertex2Ppart[u]] = d.P[d.vertex2Ppart[u]] \ {v}
  <2>1. Aligned(d.P, d.vertex2Ppart, d.V)
    BY DEF Sound
  <2>2. /\ Aligned(Without(d.P, pi, v), Reindexed(d.vertex2Ppart, d.P, pi, v), d.V \ {v})
        /\ PartsKept(d.P, d.vertex2Ppart, Without(d.P, pi, v),
                     Reindexed(d.vertex2Ppart, d.P, pi, v), d.V, v)
    BY <2>1, RemovalAligns, Zenon
  <2>. QED  BY <1>1, <2>2 DEF PartsKept
<1>4. /\ Aligned(r.Q, r.vertex2Qpart, r.V)
      /\ \A u \in r.V : r.Q[r.vertex2Qpart[u]] = d.Q[d.vertex2Qpart[u]] \ {v}
  <2>1. Aligned(d.Q, d.vertex2Qpart, d.V)
    BY DEF Sound
  <2>2. /\ Aligned(Without(d.Q, qj, v), Reindexed(d.vertex2Qpart, d.Q, qj, v), d.V \ {v})
        /\ PartsKept(d.Q, d.vertex2Qpart, Without(d.Q, qj, v),
                     Reindexed(d.vertex2Qpart, d.Q, qj, v), d.V, v)
    BY <2>1, RemovalAligns, Zenon
  <2>. QED  BY <1>1, <2>2 DEF PartsKept
<1>5. IsFiniteSet(r.V)
  BY <1>1, FS_RemoveElement DEF Sound
<1>6. \A e \in r.E : e \subseteq r.V /\ Cardinality(e) = 2
  BY <1>1 DEF Sound
<1>7. r.isGCP \in BOOLEAN /\ r.isInfeasible \in BOOLEAN /\ r.hasTrivialSolution \in BOOLEAN
  BY <1>1 DEF Sound
<1>8. Sound(r)
  BY <1>2, <1>3, <1>4, <1>5, <1>6, <1>7 DEF Sound
<1>9. \A e \in d.E : e \subseteq r.V => e \in r.E
  BY <1>1
<1>10. \A u \in r.V : /\ Part(r, u) = Part(d, u) \cap r.V
                     /\ QPart(r, u) = QPart(d, u) \cap r.V
  <2>1. \A u \in r.V : Part(r, u) = Part(d, u) \ {v} /\ QPart(r, u) = QPart(d, u) \ {v}
    BY <1>3, <1>4 DEF Part, QPart
  <2>. QED  BY <1>1, <2>1, PartsAreVertices
<1>11. r.isolated \subseteq d.isolated \cup (d.V \ r.V)
  BY <1>1
<1>12. r.V = d.V \ {v}
  BY <1>1
<1>13. Reduces(d, r)
  BY <1>8, <1>9, <1>10, <1>11, <1>12 DEF Reduces
<1>14. r.E = {e \in d.E : e \subseteq r.V}
  BY <1>1 DEF Sound
<1>15. r.isInfeasible <=> d.isInfeasible \/ \E u \in d.V : Part(d, u) \cap r.V = {}
  <2>1. Part(d, v) = {v} => Part(d, v) \cap r.V = {}
    BY <1>1
  <2>2. ASSUME NEW u \in d.V, Part(d, u) \cap r.V = {}
        PROVE  Part(d, v) = {v}
    <3>1. u \in Part(d, u) /\ Part(d, u) \subseteq d.V
      BY PartsAreVertices
    <3>2. u = v /\ Part(d, u) = {v}
      BY <1>1, <2>2, <3>1
    <3>. QED  BY <3>2
  <2>. QED  BY <1>1, <2>1, <2>2 DEF Part
<1>16. Restricts(d, r)
  BY <1>1, <1>13, <1>14, <1>15 DEF Restricts
<1>. QED  BY <1>12, <1>16 DEF r

(* The function that RemoveAll folds with, on the sets of T.               *)
FoldsRemoval(h, d, T) ==
  h = [s \in T |->
         IF s = {} THEN d
         ELSE RemoveVertex(h[s \ {CHOOSE x \in s : TRUE}], CHOOSE x \in s : TRUE)]

(* That function exists on the subsets of a finite set. *)
LEMMA FoldExists ==
  ASSUME NEW d, NEW S, IsFiniteSet(S)
  PROVE  \E h : FoldsRemoval(h, d, SUBSET S)
<1> DEFINE Upto(n) == {s \in SUBSET S : Cardinality(s) <= n}
           Bad == {n \in Nat : ~ \E h : FoldsRemoval(h, d, Upto(n))}
<1>1. \A s \in SUBSET S : IsFiniteSet(s) /\ Cardinality(s) \in Nat
  BY FS_Subset, FS_CardinalityType
<1>2. SUFFICES Bad = {}
  <2>1. \E h : FoldsRemoval(h, d, Upto(Cardinality(S)))
    BY <1>1, <1>2
  <2>2. Upto(Cardinality(S)) = SUBSET S
    BY FS_Subset
  <2>. QED  BY <2>1, <2>2
<1>3. SUFFICES ASSUME Bad # {} PROVE FALSE
  OBVIOUS
<1>4. PICK m \in Bad : \A k \in Bad : m <= k
  BY <1>3, LeastNatural
<1>5. m # 0
  <2>1. Upto(0) = {{}}
    BY <1>1, FS_EmptySet
  <2>2. FoldsRemoval([s \in {{}} |-> d], d, {{}})
    BY DEF FoldsRemoval
  <2>. QED  BY <1>4, <2>1, <2>2
<1>6. m \in Nat /\ m - 1 \in Nat /\ m - 1 \notin Bad
  <2>1. Bad \subseteq Nat
    OBVIOUS
  <2>. HIDE DEF Bad
  <2>. QED  BY <1>4, <1>5, <2>1
<1>7. PICK h : FoldsRemoval(h, d, Upto(m - 1))
  BY <1>6
<1> DEFINE next(g) == [s \in Upto(m) |->
                         IF s = {} THEN d
                         ELSE RemoveVertex(g[s \ {CHOOSE x \in s : TRUE}],
                                           CHOOSE x \in s : TRUE)]
<1>8. \A s \in Upto(m) : s # {} => s \ {CHOOSE x \in s : TRUE} \in Upto(m - 1)
  <2>1. TAKE s \in Upto(m)
  <2>2. HAVE s # {}
  <2>3. (CHOOSE x \in s : TRUE) \in s
    BY <2>2
  <2>4. Cardinality(s \ {CHOOSE x \in s : TRUE}) = Cardinality(s) - 1
    BY <1>1, <2>3, FS_RemoveElement
  <2>. QED  BY <1>1, <1>6, <2>1, <2>4
<1>9. \A t \in Upto(m - 1) : next(h)[t] = h[t]
  <2>1. \A t \in Upto(m - 1) : t \in Upto(m)
    BY <1>1, <1>6
  <2>. HIDE DEF Upto
  <2>. QED  BY <1>7, <2>1 DEF FoldsRemoval
<1>. HIDE DEF Upto
<1>10. next(next(h)) = next(h)
  <2>1. \A s \in Upto(m) : s # {} =>
          next(h)[s \ {CHOOSE x \in s : TRUE}] = h[s \ {CHOOSE x \in s : TRUE}]
    <3>. HIDE DEF next
    <3>. QED  BY <1>8, <1>9
  <2> DEFINE body(g, s) == IF s = {} THEN d
                           ELSE RemoveVertex(g[s \ {CHOOSE x \in s : TRUE}],
                                             CHOOSE x \in s : TRUE)
  <2>2. \A s \in Upto(m) : body(next(h), s) = body(h, s)
    <3>. HIDE DEF next
    <3>. QED  BY <2>1
  <2>3. \A g : next(g) = [s \in Upto(m) |-> body(g, s)]
    OBVIOUS
  <2>. HIDE DEF body, next
  <2>. QED  BY <2>2, <2>3
<1>11. FoldsRemoval(next(h), d, Upto(m))
  BY <1>10 DEF FoldsRemoval
<1>. QED  BY <1>4, <1>11 DEF Upto

(* The removal of a set of vertices restricts the instance to the others. *)
LEMMA RemoveAllRestricts ==
  ASSUME NEW d, Sound(d), NEW S \in SUBSET d.V
  PROVE  Restricts(d, RemoveAll(d, S)) /\ RemoveAll(d, S).V = d.V \ S
<1> DEFINE h == CHOOSE g : FoldsRemoval(g, d, SUBSET S)
           Good(s) == Restricts(d, h[s]) /\ h[s].V = d.V \ s
           Bad == {n \in Nat : \E s \in SUBSET S : Cardinality(s) = n /\ ~Good(s)}
<1>1. IsFiniteSet(S)
  BY FS_Subset DEF Sound
<1>2. FoldsRemoval(h, d, SUBSET S)
  BY <1>1, FoldExists
<1>3. RemoveAll(d, S) = h[S]
  BY DEF RemoveAll, FoldSet, MapThenFoldSet, FoldsRemoval
<1>. HIDE DEF h
<1>4. \A s \in SUBSET S : IsFiniteSet(s) /\ Cardinality(s) \in Nat
  BY <1>1, FS_Subset, FS_CardinalityType
<1>5. SUFFICES Bad = {}
  BY <1>3, <1>4
<1>6. SUFFICES ASSUME Bad # {} PROVE FALSE
  OBVIOUS
<1>7. PICK m \in Bad : \A k \in Bad : m <= k
  BY <1>6, LeastNatural
<1>8. PICK s \in SUBSET S : Cardinality(s) = m /\ ~Good(s)
  BY <1>7
<1>9. CASE s = {}
  BY <1>2, <1>8, <1>9, RestrictsItself DEF FoldsRemoval
<1>10. CASE s # {}
  <2> DEFINE x == CHOOSE y \in s : TRUE
             t == s \ {x}
  <2>1. x \in s
    BY <1>10
  <2>2. Cardinality(t) = m - 1 /\ t \in SUBSET S /\ m - 1 \in Nat
    <3>1. IsFiniteSet(s) /\ Cardinality(s) \in Nat /\ Cardinality(t) \in Nat
      BY <1>4
    <3>2. Cardinality(s \ {x}) = Cardinality(s) - 1
      <4>. HIDE DEF x
      <4>. QED  BY <2>1, <3>1, FS_RemoveElement
    <3>. QED  BY <1>8, <3>1, <3>2
  <2>3. Good(t)
    <3>1. m - 1 \notin Bad
      BY <1>7, <2>2
    <3>2. \A n \in Nat \ Bad : \A u \in SUBSET S : Cardinality(u) = n => Good(u)
      OBVIOUS
    <3>. HIDE DEF Good, Bad, t
    <3>. QED  BY <2>2, <3>1, <3>2
  <2>4. h[s] = RemoveVertex(h[t], x)
    BY <1>2, <1>10 DEF FoldsRemoval
  <2>. HIDE DEF x
  <2>5. x \in h[t].V /\ Sound(h[t])
    BY <2>1, <2>3 DEF Restricts, Reduces
  <2>6. Restricts(h[t], h[s]) /\ h[s].V = h[t].V \ {x}
    <3>1. \A e, y : Sound(e) /\ y \in e.V =>
            Restricts(e, RemoveVertex(e, y)) /\ RemoveVertex(e, y).V = e.V \ {y}
      BY RemoveVertexRestricts
    <3>2. PICK e : e = h[t]
      OBVIOUS
    <3>3. /\ Restricts(e, RemoveVertex(e, x))
          /\ RemoveVertex(e, x).V = e.V \ {x}
      BY <2>5, <3>1, <3>2
    <3>. QED  BY <2>4, <3>2, <3>3
  <2>7. Good(s)
    <3>1. Restricts(d, h[s])
      BY <2>3, <2>6, RestrictsTransitive
    <3>2. h[s].V = d.V \ s
      BY <2>1, <2>3, <2>6
    <3>. QED  BY <3>1, <3>2
  <2>. QED  BY <1>8, <2>7
<1>. QED  BY <1>9, <1>10

(* Removals are reductions. *)
LEMMA RemoveAllReduces ==
  ASSUME NEW d, Sound(d), NEW S \in SUBSET d.V
  PROVE  Reduces(d, RemoveAll(d, S)) /\ RemoveAll(d, S).V = d.V \ S
BY RemoveAllRestricts DEF Restricts

(* So is the removal of one vertex. *)
LEMMA RemoveVertexReduces ==
  ASSUME NEW d, Sound(d), NEW v \in d.V
  PROVE  Reduces(d, RemoveVertex(d, v)) /\ RemoveVertex(d, v).V = d.V \ {v}
BY RemoveVertexRestricts DEF Restricts

-----------------------------------------------------------------------------
(* The steps of preprocessing.                                             *)

(* Two different vertices make an edge. *)
LEMMA PairHasTwo ==
  ASSUME NEW u, NEW v, u # v
  PROVE  Cardinality({u, v}) = 2
<1>1. IsFiniteSet({v}) /\ Cardinality({v}) = 1
  BY FS_Singleton
<1>2. Cardinality({v} \cup {u}) = Cardinality({v}) + 1
  BY <1>1, FS_AddElement
<1>3. {v} \cup {u} = {u, v}
  OBVIOUS
<1>. QED  BY <1>1, <1>2, <1>3

(* Step 1 completes the P-parts. *)
LEMMA Step1Completes ==
  ASSUME NEW d, Sound(d)
  PROVE  Reduces(d, Step1(d)) /\ Cliques(Step1(d))
<1> DEFINE r == Step1(d)
           added == UNION {kSubset(2, d.P[i]) : i \in DOMAIN d.P}
<1>1. /\ r.V = d.V /\ r.P = d.P /\ r.Q = d.Q
      /\ r.vertex2Ppart = d.vertex2Ppart /\ r.vertex2Qpart = d.vertex2Qpart
      /\ r.isolated = d.isolated /\ r.isGCP = d.isGCP
      /\ r.isInfeasible = d.isInfeasible
      /\ r.hasTrivialSolution = d.hasTrivialSolution
      /\ DOMAIN r = Fields
  BY DEF Sound, Fields, Step1
<1>2. r.E = d.E \cup added
  BY DEF Sound, Fields, Step1
<1>. HIDE DEF r, added
<1>3. /\ DOMAIN d.P = 1 .. Len(d.P)
      /\ \A i \in 1 .. Len(d.P) : d.P[i] \subseteq d.V
      /\ \A v \in d.V : d.vertex2Ppart[v] \in 1 .. Len(d.P)
  <2>1. d.P \in Seq(SUBSET d.V)
    BY DEF Sound, Aligned
  <2>2. \A i \in 1 .. Len(d.P) : d.P[i] \in SUBSET d.V
    BY <2>1, ElementOfSeq
  <2>. QED  BY <2>1, <2>2, LenProperties DEF Sound, Aligned
<1>4. \A e \in added : e \subseteq d.V /\ Cardinality(e) = 2
  BY <1>3 DEF added, kSubset
<1>5. \A e \in r.E : e \subseteq r.V /\ Cardinality(e) = 2
  BY <1>1, <1>2, <1>4 DEF Sound
<1>6. Sound(r)
  BY <1>1, <1>5 DEF Sound
<1>7. Reduces(d, r)
  <2>1. \A v \in d.V : /\ Part(r, v) = Part(d, v) /\ Part(d, v) \subseteq d.V
                      /\ QPart(r, v) = QPart(d, v) /\ QPart(d, v) \subseteq d.V
    BY <1>1, PartsAreVertices DEF Part, QPart
  <2>. QED  BY <1>1, <1>2, <1>6, <2>1 DEF Reduces
<1>8. Cliques(r)
  <2>1. SUFFICES ASSUME NEW v \in d.V, NEW u \in d.P[d.vertex2Ppart[v]], u # v
                 PROVE  {u, v} \in r.E
    BY <1>1 DEF Cliques, Part
  <2>2. v \in d.P[d.vertex2Ppart[v]]
    BY PartsAreVertices DEF Part
  <2>3. {u, v} \in kSubset(2, d.P[d.vertex2Ppart[v]])
    BY <2>1, <2>2, PairHasTwo DEF kSubset
  <2>. QED  BY <1>2, <1>3, <2>3 DEF added
<1>. QED  BY <1>7, <1>8 DEF r

(* A pass of step 2 removes vertices and does nothing else. *)
LEMMA PassRestricts ==
  ASSUME NEW d, Sound(d)
  PROVE  Restricts(d, Pass(d))
<1>1. \A i : Conflicting(d, i) \in SUBSET d.V
  BY DEF Conflicting, Neighbours
<1>2. \A i : Restricts(d, RemoveAll(d, Conflicting(d, i)))
  <2>1. \A S \in SUBSET d.V : Restricts(d, RemoveAll(d, S))
    BY RemoveAllRestricts
  <2>. QED  BY <1>1, <2>1
<1>. QED  BY <1>2, RestrictsItself DEF Pass

(* A P-part of one vertex with neighbours in its Q-part makes step 2 go on.*)
Forced(d) == {i \in DOMAIN d.P : Cardinality(d.P[i]) = 1 /\ Conflicting(d, i) # {}}

(* A pass changes nothing, or it removes a vertex. *)
LEMMA PassProgresses ==
  ASSUME NEW d, Sound(d)
  PROVE  IF Forced(d) = {} THEN Pass(d) = d
         ELSE Cardinality(Pass(d).V) < Cardinality(d.V)
<1>1. CASE Forced(d) = {}
  BY <1>1 DEF Pass, Forced
<1>2. CASE Forced(d) # {}
  <2> DEFINE m == Min(Forced(d))
             S == Conflicting(d, m)
  <2>1. Forced(d) \in SUBSET Nat
    BY LenProperties DEF Forced, Sound, Aligned
  <2>2. m \in Forced(d)
    <3>1. \E x \in Forced(d) : \A y \in Forced(d) : x <= y
      BY <1>2, <2>1, LeastNatural
    <3>. QED  BY <3>1 DEF Min
  <2>3. Pass(d) = RemoveAll(d, S)
    BY <1>2 DEF Pass, Forced
  <2>4. S # {} /\ S \in SUBSET d.V
    BY <2>2 DEF Forced, Conflicting, Neighbours
  <2>. HIDE DEF S
  <2>5. Pass(d).V = d.V \ S /\ IsFiniteSet(d.V)
    BY <2>3, <2>4, RemoveAllReduces DEF Sound
  <2>6. Pass(d).V \subseteq d.V /\ Pass(d).V # d.V
    BY <2>4, <2>5
  <2>. QED  BY <1>2, <2>5, <2>6, FS_Subset, FS_CardinalityType
<1>. QED  BY <1>1, <1>2

(* The function that step 2 computes its passes with. *)
Iterates(h, d, n) == h = [k \in 0 .. n |-> IF k = 0 THEN d ELSE Pass(h[k - 1])]

(* That function exists. *)
LEMMA IteratesExist ==
  ASSUME NEW d, NEW n \in Nat
  PROVE  \E h : Iterates(h, d, n)
<1> DEFINE Bad == {k \in Nat : ~ \E h : Iterates(h, d, k)}
<1>1. SUFFICES ASSUME Bad # {} PROVE FALSE
  OBVIOUS
<1>2. PICK m \in Bad : \A k \in Bad : m <= k
  BY <1>1, LeastNatural
<1>3. m # 0
  <2>1. Iterates([k \in 0 .. 0 |-> d], d, 0)
    BY DEF Iterates
  <2>. QED  BY <1>2, <2>1
<1>4. m \in Nat /\ m - 1 \in Nat /\ m - 1 \notin Bad
  <2>1. Bad \subseteq Nat
    OBVIOUS
  <2>. HIDE DEF Bad
  <2>. QED  BY <1>2, <1>3, <2>1
<1>5. PICK h : Iterates(h, d, m - 1)
  BY <1>4
<1> DEFINE next == [k \in 0 .. m |-> IF k = 0 THEN d ELSE Pass(h[k - 1])]
<1>6. \A k \in 0 .. m - 1 : next[k] = h[k]
  BY <1>4, <1>5 DEF Iterates
<1>7. \A k \in 0 .. m : k # 0 => next[k - 1] = h[k - 1]
  <2>. HIDE DEF next
  <2>. QED  BY <1>4, <1>6
<1>8. next = [k \in 0 .. m |-> IF k = 0 THEN d ELSE Pass(next[k - 1])]
  <2> DEFINE body(g, k) == IF k = 0 THEN d ELSE Pass(g[k - 1])
  <2>1. \A k \in 0 .. m : body(next, k) = body(h, k)
    <3>. HIDE DEF next
    <3>. QED  BY <1>7
  <2>2. next = [k \in 0 .. m |-> body(h, k)]
    OBVIOUS
  <2>. HIDE DEF body, next
  <2>3. next = [k \in 0 .. m |-> body(next, k)]
    BY <2>1, <2>2
  <2>. QED  BY <2>3 DEF body
<1>. HIDE DEF next
<1>9. Iterates(next, d, m)
  BY <1>8 DEF Iterates
<1>. QED  BY <1>2, <1>9

(* Step 2 only removes vertices, and it ends where a pass changes nothing: *)
(* as many passes as there are vertices are enough.                        *)
THEOREM Step2Settles ==
  ASSUME NEW d, Sound(d)
  PROVE  Restricts(d, Step2(d)) /\ Forced(Step2(d)) = {}
<1> DEFINE n == Cardinality(d.V)
           h == CHOOSE g : Iterates(g, d, n)
           Good(k) == /\ Restricts(d, h[k])
                      /\ Forced(h[k]) = {} \/ Cardinality(h[k].V) <= n - k
           Bad == {k \in Nat : k <= n /\ ~Good(k)}
<1>1. n \in Nat
  BY FS_CardinalityType DEF Sound
<1>2. Iterates(h, d, n)
  BY <1>1, IteratesExist
<1>3. Step2(d) = h[n]
  BY DEF Step2, Iterates
<1>. HIDE DEF h, n
<1>4. Bad = {}
  <2>1. SUFFICES ASSUME Bad # {} PROVE FALSE
    OBVIOUS
  <2>2. PICK m \in Bad : \A k \in Bad : m <= k
    BY <2>1, LeastNatural
  <2>3. m \in Nat /\ m <= n /\ ~Good(m)
    BY <2>2
  <2>4. CASE m = 0
    <3>1. h[0] = d
      BY <1>1, <1>2 DEF Iterates
    <3>2. Good(0)
      BY <1>1, <3>1, RestrictsItself DEF n
    <3>. QED  BY <2>3, <2>4, <3>2
  <2>5. CASE m # 0
    <3>1. m - 1 \in Nat /\ m - 1 <= n
      BY <1>1, <2>3, <2>5
    <3>2. m - 1 \notin Bad
      <4>1. m - 1 \in Bad => m <= m - 1
        BY <2>2
      <4>. QED  BY <2>3, <4>1
    <3>3. Good(m - 1)
      BY <3>1, <3>2
    <3> DEFINE e == h[m - 1]
    <3>4. h[m] = Pass(e)
      BY <1>1, <1>2, <2>3, <2>5 DEF Iterates
    <3>5. Restricts(d, e) /\ Sound(e)
      BY <3>3 DEF Restricts, Reduces
    <3>6. Forced(e) = {} \/ Cardinality(e.V) <= n - (m - 1)
      BY <3>3
    <3>. HIDE DEF e
    <3>7. Restricts(e, h[m])
      BY <3>4, <3>5, PassRestricts
    <3>8. Restricts(d, h[m])
      BY <3>5, <3>7, RestrictsTransitive
    <3>9. CASE Forced(e) = {}
      <4>1. h[m] = e
        BY <3>4, <3>5, <3>9, PassProgresses
      <4>. QED  BY <2>3, <3>8, <3>9, <4>1
    <3>10. CASE Forced(e) # {}
      <4>1. Cardinality(h[m].V) < Cardinality(e.V)
        BY <3>4, <3>5, <3>10, PassProgresses
      <4>2. Cardinality(h[m].V) \in Nat /\ Cardinality(e.V) \in Nat
        BY <3>5, <3>7, FS_CardinalityType DEF Restricts, Reduces, Sound
      <4>3. Cardinality(h[m].V) <= n - m
        BY <1>1, <2>3, <3>6, <3>10, <4>1, <4>2
      <4>. QED  BY <2>3, <3>8, <4>3
    <3>. QED  BY <3>9, <3>10
  <2>. QED  BY <2>4, <2>5
<1>5. Good(n)
  BY <1>1, <1>4
<1>6. ASSUME Cardinality(h[n].V) <= 0
      PROVE  Forced(h[n]) = {}
  <2>1. Sound(h[n])
    BY <1>5 DEF Restricts, Reduces
  <2>2. h[n].V = {}
    BY <1>6, <2>1, FS_CardinalityType, FS_EmptySet DEF Sound
  <2>3. \A i : Conflicting(h[n], i) = {}
    BY <2>2 DEF Conflicting, Neighbours
  <2>. QED  BY <2>3 DEF Forced
<1>7. Forced(h[n]) = {}
  BY <1>1, <1>5, <1>6
<1>. QED  BY <1>3, <1>5, <1>7

(* Step 3 is a reduction that saves what it removes. *)
LEMMA Step3Reduces ==
  ASSUME NEW d, Sound(d)
  PROVE  Reduces(d, Step3(d))
<1> DEFINE r == RemoveAll(d, Isolated(d))
           s == Step3(d)
<1>1. Isolated(d) \in SUBSET d.V
  BY DEF Isolated
<1>2. Reduces(d, r) /\ r.V = d.V \ Isolated(d) /\ Sound(r)
  BY <1>1, RemoveAllReduces DEF Reduces
<1>3. s = [r EXCEPT !.isolated = r.isolated \cup Isolated(d),
                    !.isInfeasible = d.isInfeasible]
  BY DEF Step3
<1>. HIDE DEF r, s
<1>4. /\ DOMAIN s = Fields
      /\ s.V = r.V /\ s.E = r.E /\ s.P = r.P /\ s.Q = r.Q
      /\ s.vertex2Ppart = r.vertex2Ppart /\ s.vertex2Qpart = r.vertex2Qpart
      /\ s.isGCP = r.isGCP /\ s.hasTrivialSolution = r.hasTrivialSolution
      /\ s.isolated = r.isolated \cup Isolated(d)
      /\ s.isInfeasible = d.isInfeasible
  BY <1>2, <1>3 DEF Sound, Fields
<1>5. Sound(s)
  BY <1>2, <1>4 DEF Sound
<1>6. \A v \in s.V : Part(s, v) = Part(r, v) /\ QPart(s, v) = QPart(r, v)
  BY <1>4 DEF Part, QPart
<1>7. s.isolated \subseteq d.isolated \cup (d.V \ s.V)
  BY <1>1, <1>2, <1>4 DEF Reduces
<1>8. Reduces(d, s)
  BY <1>2, <1>4, <1>5, <1>6, <1>7 DEF Reduces
<1>. QED  BY <1>8 DEF s

(* Step 4 only sets a flag. *)
LEMMA Step4Reduces ==
  ASSUME NEW d, Sound(d)
  PROVE  Reduces(d, Step4(d))
<1> DEFINE s == Step4(d)
<1>1. /\ DOMAIN s = Fields
      /\ s.V = d.V /\ s.E = d.E /\ s.P = d.P /\ s.Q = d.Q
      /\ s.vertex2Ppart = d.vertex2Ppart /\ s.vertex2Qpart = d.vertex2Qpart
      /\ s.isGCP = d.isGCP /\ s.isInfeasible = d.isInfeasible
      /\ s.isolated = d.isolated
      /\ s.hasTrivialSolution = (d.hasTrivialSolution \/ Len(d.P) = 1)
  BY DEF Step4, Sound, Fields
<1>. HIDE DEF s
<1>2. Sound(s)
  BY <1>1 DEF Sound
<1>3. Reduces(d, d)
  BY ReducesItself
<1>4. \A v \in s.V : Part(s, v) = Part(d, v) /\ QPart(s, v) = QPart(d, v)
  BY <1>1 DEF Part, QPart
<1>5. Reduces(d, s)
  BY <1>1, <1>2, <1>3, <1>4 DEF Reduces
<1>. QED  BY <1>5 DEF s

(* Preprocessing is a reduction; where the cliques are complete, or are    *)
(* completed first, they are complete afterwards, and the assertion of     *)
(* step 3 holds on the way.                                                *)
LEMMA PreprocessingReduces ==
  ASSUME NEW d, Sound(d), NEW clique \in BOOLEAN
  PROVE  /\ Reduces(d, Preprocessed(d, clique))
         /\ clique \/ Cliques(d) => /\ Step3Assertion(Reduced(d, clique))
                                   /\ Cliques(Preprocessed(d, clique))
<1> DEFINE a == IF clique THEN Step1(d) ELSE d
           b == Step2(a)
           c == Step3(b)
<1>1. Reduces(d, a) /\ Sound(a) /\ (clique \/ Cliques(d) => Cliques(a))
  BY Step1Completes, ReducesItself DEF Reduces
<1>2. Reduced(d, clique) = b /\ Preprocessed(d, clique) = Step4(c)
  BY DEF Reduced, Preprocessed
<1>. HIDE DEF a
<1>3. Reduces(a, b) /\ Sound(b)
  BY <1>1, Step2Settles DEF Restricts, Reduces
<1>. HIDE DEF b
<1>4. Reduces(b, c) /\ Sound(c)
  BY <1>3, Step3Reduces DEF Reduces
<1>. HIDE DEF c
<1>5. Reduces(c, Step4(c))
  BY <1>4, Step4Reduces
<1>6. Reduces(d, b) /\ Reduces(b, Step4(c)) /\ Reduces(d, Step4(c))
  BY <1>1, <1>3, <1>4, <1>5, ReducesTransitive
<1>7. ASSUME clique \/ Cliques(d)
      PROVE  Cliques(b) /\ Cliques(Step4(c)) /\ Step3Assertion(b)
  <2>1. Cliques(b) /\ Cliques(Step4(c))
    BY <1>1, <1>3, <1>6, <1>7, ReductionKeepsCliques
  <2>2. SUFFICES ASSUME NEW u \in Isolated(b)
                 PROVE  b.P[b.vertex2Ppart[u]] = {u}
    BY <2>1 DEF Step3Assertion
  <2>3. u \in b.V /\ \A w \in b.V : {w, u} \notin b.E
    <3>1. \A w : {w, u} = {u, w}
      OBVIOUS
    <3>. QED  BY <3>1 DEF Isolated, Neighbours
  <2>4. Part(b, u) \subseteq b.V /\ u \in Part(b, u)
    BY <1>3, <2>3, PartsAreVertices
  <2>5. \A w \in Part(b, u) : w = u
    BY <2>1, <2>3, <2>4 DEF Cliques
  <2>. QED  BY <2>4, <2>5 DEF Part
<1>. QED  BY <1>2, <1>6, <1>7

(* A branching decision is a reduction that settles the branching vertex.  *)
LEMMA DecisionReduces ==
  ASSUME NEW d, Sound(d), NEW v \in d.V, NEW side \in {"left", "right"}
  PROVE  /\ Reduces(d, Decided(d, v, side))
         /\ v \in Decided(d, v, side).V => Part(Decided(d, v, side), v) \subseteq {v}
<1>1. CASE side = "left"
  <2> DEFINE S == Part(d, v) \ {v}
  <2>1. S \in SUBSET d.V
    BY PartsAreVertices
  <2>2. Decided(d, v, side) = RemoveAll(d, S)
    BY <1>1 DEF Decided, PreselectVertex, Part
  <2>3. Reduces(d, RemoveAll(d, S)) /\ RemoveAll(d, S).V = d.V \ S
    <3>. HIDE DEF S
    <3>. QED  BY <2>1, RemoveAllReduces
  <2>4. v \in RemoveAll(d, S).V => Part(RemoveAll(d, S), v) = Part(d, v) \cap (d.V \ S)
    BY <2>3 DEF Reduces
  <2>5. Part(d, v) \cap (d.V \ S) \subseteq {v}
    OBVIOUS
  <2>. HIDE DEF S
  <2>. QED  BY <2>2, <2>3, <2>4, <2>5
<1>2. CASE side = "right"
  <2>1. Decided(d, v, side) = RemoveVertex(d, v)
    BY <1>2 DEF Decided, ForbidVertex
  <2>. QED  BY <2>1, RemoveVertexReduces
<1>. QED  BY <1>1, <1>2

(* A son is a reduction of its father that settles the branching vertex.   *)
LEMMA SonReduces ==
  ASSUME NEW d, Sound(d), NEW v \in d.V, NEW side \in {"left", "right"}
  PROVE  /\ Reduces(d, Son(d, v, side))
         /\ v \in Son(d, v, side).V => Part(Son(d, v, side), v) \subseteq {v}
<1> DEFINE e == Decided(d, v, side)
           r == Son(d, v, side)
<1>1. Reduces(d, e) /\ Sound(e) /\ (v \in e.V => Part(e, v) \subseteq {v})
  BY DecisionReduces DEF Reduces
<1>2. r = Preprocessed(e, FALSE) \/ r = e
  BY DEF Son
<1>. HIDE DEF e, r
<1>3. Reduces(e, r)
  BY <1>1, <1>2, PreprocessingReduces, ReducesItself
<1>4. Reduces(d, r) /\ (v \in r.V => Part(r, v) \subseteq {v})
  BY <1>1, <1>3, ReducesTransitive DEF Reduces
<1>. QED  BY <1>4 DEF r

(* Reductions use up undecided vertices; a son uses up the vertex it was   *)
(* branched on.                                                            *)
LEMMA SonsDecide ==
  ASSUME NEW d, Sound(d), NEW v \in BranchingVertices(d),
         NEW side \in {"left", "right"}
  PROVE  Undecided(Son(d, v, side)) < Undecided(d)
<1> DEFINE r == Son(d, v, side)
<1>1. v \in d.V
  BY DEF BranchingVertices
<1>2. Reduces(d, r) /\ (v \in r.V => Part(r, v) \subseteq {v})
  BY <1>1, SonReduces
<1>. HIDE DEF r
<1>3. Sound(r) /\ r.V \subseteq d.V
  BY <1>2 DEF Reduces
<1>4. \A u \in r.V : Part(r, u) \subseteq Part(d, u) /\ IsFiniteSet(Part(d, u))
  BY <1>2, PartsAreVertices, FS_Subset DEF Reduces, Sound
<1>5. BranchingVertices(r) \subseteq BranchingVertices(d)
  <2>1. \A u \in r.V : Cardinality(Part(r, u)) <= Cardinality(Part(d, u))
    BY <1>4, FS_Subset
  <2>2. \A u \in r.V : /\ Cardinality(Part(r, u)) \in Nat
                       /\ Cardinality(Part(d, u)) \in Nat
    BY <1>4, FS_Subset, FS_CardinalityType
  <2>. QED  BY <1>3, <2>1, <2>2 DEF BranchingVertices, Part
<1>6. v \notin BranchingVertices(r)
  <2>1. Cardinality({v}) = 1 /\ IsFiniteSet({v})
    BY FS_Singleton
  <2>2. \A s \in SUBSET {v} : Cardinality(s) \in Nat /\ Cardinality(s) <= 1
    BY <2>1, FS_Subset, FS_CardinalityType
  <2>3. v \in r.V => ~(Cardinality(Part(r, v)) > 1)
    BY <1>2, <2>2
  <2>. QED  BY <2>3 DEF BranchingVertices, Part
<1>7. IsFiniteSet(BranchingVertices(d))
  <2>1. BranchingVertices(d) \in SUBSET d.V
    BY DEF BranchingVertices
  <2>. QED  BY <2>1, FS_Subset DEF Sound
<1>8. Cardinality(BranchingVertices(r)) < Cardinality(BranchingVertices(d))
  <2>1. BranchingVertices(r) # BranchingVertices(d)
    BY <1>6
  <2>. QED  BY <1>5, <1>7, <2>1, FS_Subset, FS_CardinalityType
<1>. QED  BY <1>8 DEF r, Undecided

-----------------------------------------------------------------------------
(* The path from the input to a node.                                      *)

(* The cliques that the branch-and-price solver completes stay complete.   *)
Completed ==
  (caller.solver = "byp" /\ caller.preprocessing /\ phase = "node") => Cliques(dpcp)

IInv ==
  /\ input \in Inputs
  /\ caller \in [solver : Callers, preprocessing : Preprocessing]
  /\ phase \in {"read", "node", "aborted"}
  /\ alive \subseteq input.V
  /\ Sound(dpcp)
  /\ dpcp.V \subseteq input.V
  /\ dpcp.isolated \subseteq input.V \ dpcp.V
  /\ Completed
  /\ caller.solver = "byp" => phase # "aborted"

(* An index built from a partition names the parts. *)
LEMMA IndexAligns ==
  ASSUME NEW V, NEW parts \in Seq(SUBSET V), IsPartition(parts, V)
  PROVE  Aligned(parts, Index(parts, V), V)
<1>1. DOMAIN parts = 1 .. Len(parts)
  BY LenProperties
<1>2. \A v \in V : \E i \in 1 .. Len(parts) :
        v \in parts[i] /\ \A j \in 1 .. Len(parts) : v \in parts[j] => i = j
  BY <1>1 DEF IsPartition
<1>3. \A v \in V : /\ Index(parts, V)[v] \in 1 .. Len(parts)
                   /\ v \in parts[Index(parts, V)[v]]
  BY <1>1, <1>2 DEF Index
<1>4. \A v \in V, i \in 1 .. Len(parts) : v \in parts[i] <=> Index(parts, V)[v] = i
  BY <1>2, <1>3
<1>5. \A i \in 1 .. Len(parts) : parts[i] # {}
  BY <1>1 DEF IsPartition
<1>6. Index(parts, V) = [v \in V |-> Index(parts, V)[v]]
  BY DEF Index
<1>. QED  BY <1>3, <1>4, <1>5, <1>6 DEF Aligned

(* The instance that is read is sound. *)
LEMMA InputIsSound ==
  ASSUME NEW p \in Inputs
  PROVE  /\ Sound(DPCPInst(p))
         /\ DPCPInst(p).V = p.V /\ DPCPInst(p).E = p.E
         /\ DPCPInst(p).P = p.P /\ DPCPInst(p).Q = p.Q
         /\ DPCPInst(p).isolated = {} /\ DPCPInst(p).isGCP = IsGCP(p.P)
         /\ DPCPInst(p).isInfeasible = FALSE
         /\ DPCPInst(p).hasTrivialSolution = FALSE
<1> DEFINE d == DPCPInst(p)
<1>1. /\ IsFiniteSet(p.V)
      /\ p.E \subseteq {e \in SUBSET p.V : Cardinality(e) = 2}
      /\ p.P \in Seq(SUBSET p.V) /\ IsPartition(p.P, p.V)
      /\ p.Q \in Seq(SUBSET p.V) /\ IsPartition(p.Q, p.V)
  BY DpcpAssumption
<1>2. /\ DOMAIN d = Fields
      /\ d.V = p.V /\ d.E = p.E
      /\ d.P = p.P /\ d.vertex2Ppart = Index(p.P, p.V)
      /\ d.Q = p.Q /\ d.vertex2Qpart = Index(p.Q, p.V)
      /\ d.isolated = {} /\ d.isGCP = IsGCP(p.P)
      /\ d.isInfeasible = FALSE /\ d.hasTrivialSolution = FALSE
  BY DEF DPCPInst, Fields
<1>. HIDE DEF d
<1>3. /\ Aligned(p.P, Index(p.P, p.V), p.V)
      /\ Aligned(p.Q, Index(p.Q, p.V), p.V)
  BY <1>1, IndexAligns
<1>4. \A e \in d.E : e \subseteq d.V /\ Cardinality(e) = 2
  BY <1>1, <1>2
<1>5. d.isGCP \in BOOLEAN /\ d.isInfeasible \in BOOLEAN /\ d.hasTrivialSolution \in BOOLEAN
  BY <1>2 DEF IsGCP
<1>6. Sound(d)
  BY <1>1, <1>2, <1>3, <1>4, <1>5 DEF Sound
<1>. QED  BY <1>2, <1>6 DEF d

(* The instance that is constructed from the input satisfies the invariant. *)
LEMMA InitHolds == Init => IInv
<1>1. SUFFICES ASSUME Init PROVE IInv
  OBVIOUS
<1>2. input \in Inputs /\ dpcp = DPCPInst(input)
  BY <1>1 DEF Init
<1>3. Sound(dpcp) /\ dpcp.V = input.V /\ dpcp.isolated = {}
  BY <1>2, InputIsSound
<1>. QED  BY <1>1, <1>3 DEF Init, IInv, Completed

(* What a reduction keeps of the invariant. *)
LEMMA ReductionStaysInside ==
  ASSUME NEW d, NEW r, Reduces(d, r),
         d.V \subseteq input.V, d.isolated \subseteq input.V \ d.V
  PROVE  Sound(r) /\ r.V \subseteq input.V /\ r.isolated \subseteq input.V \ r.V
BY DEF Reduces

(* The branch-and-price solver never aborts while it prepares the input. *)
LEMMA PreparePreserves ==
  ASSUME IInv, Prepare
  PROVE  IInv'
<1> DEFINE clique == caller.solver = "byp"
<1>1. Sound(dpcp) /\ clique \in BOOLEAN
  BY DEF IInv
<1>2. CASE MustPreprocess
  <2>1. dpcp' = Preprocessed(dpcp, clique)
    BY <1>2 DEF Prepare
  <2>. HIDE DEF clique
  <2>2. Reduces(dpcp, dpcp') /\ (clique => Cliques(dpcp'))
    BY <1>1, <2>1, PreprocessingReduces
  <2>3. /\ Sound(dpcp') /\ dpcp'.V \subseteq input.V
        /\ dpcp'.isolated \subseteq input.V \ dpcp'.V
    BY <2>2, ReductionStaysInside DEF IInv
  <2>. QED  BY <2>2, <2>3 DEF IInv, Prepare, Completed, clique
<1>3. CASE ~MustPreprocess
  <2>1. dpcp' = dpcp /\ ~caller.preprocessing
    BY <1>3 DEF Prepare, MustPreprocess
  <2>. QED  BY <2>1 DEF IInv, Prepare, Completed
<1>. QED  BY <1>2, <1>3

(* The assertion of step 3 holds for the branch-and-price solver. *)
LEMMA AbortPreserves ==
  ASSUME IInv, PrepareAborts
  PROVE  IInv'
<1>1. caller.solver # "byp"
  <2>1. Step3Assertion(Reduced(dpcp, TRUE))
    BY PreprocessingReduces DEF IInv
  <2>. QED  BY <2>1 DEF PrepareAborts
<1>. QED  BY <1>1 DEF IInv, PrepareAborts, Completed

(* A son is a reduction of its node. *)
LEMMA BranchPreserves ==
  ASSUME IInv, NEW v \in dpcp.V, NEW side \in {"left", "right"}, Branch(v, side)
  PROVE  IInv'
<1>1. dpcp' = Son(dpcp, v, side)
  BY DEF Branch
<1>2. Reduces(dpcp, dpcp')
  BY <1>1, SonReduces DEF IInv
<1>3. /\ Sound(dpcp') /\ dpcp'.V \subseteq input.V
      /\ dpcp'.isolated \subseteq input.V \ dpcp'.V
  BY <1>2, ReductionStaysInside DEF IInv
<1>4. Completed'
  <2>1. Cliques(dpcp) => Cliques(dpcp')
    BY <1>2, ReductionKeepsCliques
  <2>. QED  BY <2>1 DEF IInv, Completed, Branch
<1>. QED  BY <1>3, <1>4 DEF IInv, Branch

(* The invariant of the path holds. *)
THEOREM Inductive == Spec => []IInv
<1>1. IInv /\ [Next]_vars => IInv'
  <2>1. SUFFICES ASSUME IInv, [Next]_vars PROVE IInv'
    OBVIOUS
  <2>2. CASE UNCHANGED vars
    BY <2>1, <2>2 DEF vars, IInv, Completed
  <2>3. CASE Prepare
    BY <2>1, <2>3, PreparePreserves
  <2>4. CASE PrepareAborts
    BY <2>1, <2>4, AbortPreserves
  <2>5. CASE BranchLeft \/ BranchRight
    BY <2>1, <2>5, BranchPreserves DEF BranchLeft, BranchRight
  <2>. QED  BY <2>1, <2>2, <2>3, <2>4, <2>5 DEF Next
<1>. QED  BY InitHolds, <1>1, PTL DEF Spec

-----------------------------------------------------------------------------
(* The properties of module Dpcp.                                          *)

(* The instance of every node has the types of its class.                  *)
THEOREM TypeCorrect == Spec => []TypeOK
<1>1. IInv => TypeOK
  <2>1. SUFFICES ASSUME IInv PROVE TypeOK
    OBVIOUS
  <2>2. \A parts, index : Aligned(parts, index, dpcp.V) =>
          /\ \A part \in Range(parts) : part # {} /\ part \subseteq dpcp.V
          /\ DOMAIN index = dpcp.V
    <3>1. TAKE parts, index
    <3>2. HAVE Aligned(parts, index, dpcp.V)
    <3>3. /\ DOMAIN parts = 1 .. Len(parts)
          /\ \A i \in 1 .. Len(parts) : parts[i] # {} /\ parts[i] \in SUBSET dpcp.V
      BY <3>2, LenProperties, ElementOfSeq DEF Aligned
    <3>. QED  BY <3>2, <3>3 DEF Aligned, Range
  <2>3. /\ \A part \in Range(dpcp.P) \cup Range(dpcp.Q) :
             part # {} /\ part \subseteq dpcp.V
        /\ DOMAIN dpcp.vertex2Ppart = dpcp.V /\ DOMAIN dpcp.vertex2Qpart = dpcp.V
    BY <2>1, <2>2 DEF IInv, Sound
  <2>. QED  BY <2>1, <2>3 DEF IInv, Sound, TypeOK
<1>. QED  BY Inductive, <1>1, PTL

(* The partitions and the index maps agree at every node, whatever was     *)
(* removed on the way.                                                     *)
THEOREM PartitionsAgree == Spec => []Consistent
<1>1. IInv => Consistent
  <2>1. SUFFICES ASSUME IInv PROVE Consistent
    OBVIOUS
  <2>2. DOMAIN dpcp.P = 1 .. Len(dpcp.P) /\ DOMAIN dpcp.Q = 1 .. Len(dpcp.Q)
    BY <2>1, LenProperties DEF IInv, Sound, Aligned
  <2>. QED  BY ZenonT(60), <2>1, <2>2 DEF IInv, Sound, Aligned, Consistent
<1>. QED  BY Inductive, <1>1, PTL

(* The cliques that step 1 completes at the root last: the assertion of    *)
(* step 3 holds in every node of the branch-and-price solver.              *)
THEOREM CliquesStay == Spec => []CliquesLast
<1>1. IInv => CliquesLast
  <2>1. SUFFICES ASSUME IInv, caller.solver = "byp",
                        NEW v \in dpcp.V, NEW side \in {"left", "right"},
                        Branching(v), caller.preprocessing
                 PROVE  Step3Assertion(Reduced(Decided(dpcp, v, side), FALSE))
    BY DEF IInv, CliquesLast
  <2>2. Cliques(dpcp)
    BY <2>1 DEF IInv, Completed, Branching
  <2> DEFINE e == Decided(dpcp, v, side)
  <2>3. Reduces(dpcp, e) /\ Sound(e)
    BY <2>1, DecisionReduces DEF IInv, Reduces
  <2>. HIDE DEF e
  <2>4. Cliques(e)
    BY <2>2, <2>3, ReductionKeepsCliques
  <2>5. Step3Assertion(Reduced(e, FALSE))
    BY <2>3, <2>4, PreprocessingReduces
  <2>. QED  BY <2>5 DEF e
<1>. QED  BY Inductive, <1>1, PTL

(* Both sons of every node have fewer undecided vertices, so that the tree *)
(* of a search is finite.                                                  *)
THEOREM BranchingDecides == Spec => []SonsAreSmaller
<1>1. IInv => SonsAreSmaller
  BY SonsDecide DEF IInv, SonsAreSmaller, Branching
<1>. QED  BY Inductive, <1>1, PTL

-----------------------------------------------------------------------------
(* A set of one element. *)
LEMMA OneElement ==
  ASSUME NEW T, IsFiniteSet(T)
  PROVE  Cardinality(T) = 1 <=> \E x \in T : T = {x}
<1>1. ASSUME NEW x \in T, Cardinality(T) = 1
      PROVE  T = {x}
  <2>1. IsFiniteSet(T \ {x}) /\ Cardinality(T \ {x}) = 1 - 1
    BY <1>1, FS_RemoveElement
  <2>2. T \ {x} = {}
    BY <2>1, FS_EmptySet
  <2>. QED  BY <2>2
<1>2. Cardinality(T) = 1 => T # {}
  BY FS_EmptySet
<1>3. \A x : Cardinality({x}) = 1
  BY FS_Singleton
<1>. QED  BY <1>1, <1>2, <1>3

-----------------------------------------------------------------------------
(* The solutions of an instance.                                           *)

(* f colours S with 1 .. k: adjacent vertices differ, those of a Q-part    *)
(* agree.                                                                  *)
Proper(d, S, f, k) ==
  /\ f \in [S -> 1 .. k]
  /\ \A u, w \in S : /\ {u, w} \in d.E => f[u] # f[w]
                     /\ w \in QPart(d, u) => f[u] = f[w]

(* S has one vertex of each P-part, and f colours it. *)
Solution(d, S, f, k) ==
  /\ S \subseteq d.V
  /\ \A v \in d.V : \E s \in S : Part(d, v) \cap S = {s}
  /\ Proper(d, S, f, k)

(* d has a solution in W with k colours. *)
Solves(d, W, k) ==
  \E S \in SUBSET W : \E f \in [S -> 1 .. k] : Solution(d, S, f, k)

(* The same for an instance that may be infeasible: the P-part that is gone*)
(* cannot be seen in d.P.                                                  *)
Solvable(d, W, k) == ~d.isInfeasible /\ Solves(d, W, k)

(* What d can do with a set of r and all that is not in r, r can do with   *)
(* the set.                                                                *)
Keeps(d, r) ==
  \A W \in SUBSET r.V, k \in Nat \ {0} :
    Solvable(d, W \cup (d.V \ r.V), k) <=> Solvable(r, W, k)

(* More vertices and more colours do not hurt. *)
LEMMA SolvesMore ==
  ASSUME NEW d, NEW W, NEW X, W \subseteq X, NEW k \in Nat, NEW m \in Nat, k <= m,
         Solves(d, W, k)
  PROVE  Solves(d, X, m)
<1>1. PICK S \in SUBSET W : \E f \in [S -> 1 .. k] : Solution(d, S, f, k)
  BY DEF Solves
<1>2. PICK f \in [S -> 1 .. k] : Solution(d, S, f, k)
  BY <1>1
<1>3. f \in [S -> 1 .. m] /\ S \in SUBSET X
  BY <1>1
<1>4. Solution(d, S, f, m)
  BY <1>2, <1>3 DEF Solution, Proper
<1>. QED  BY <1>3, <1>4 DEF Solves

(* Reductions that keep the solutions compose. *)
LEMMA KeepsTransitive ==
  ASSUME NEW d, NEW r, NEW s, r.V \subseteq d.V, s.V \subseteq r.V,
         Keeps(d, r), Keeps(r, s)
  PROVE  Keeps(d, s)
<1>1. SUFFICES ASSUME NEW W \in SUBSET s.V, NEW k \in Nat \ {0}
               PROVE  Solvable(d, W \cup (d.V \ s.V), k) <=> Solvable(s, W, k)
  BY DEF Keeps
<1> DEFINE X == W \cup (r.V \ s.V)
<1>2. X \in SUBSET r.V /\ X \cup (d.V \ r.V) = W \cup (d.V \ s.V)
  OBVIOUS
<1>3. Solvable(r, X, k) <=> Solvable(s, W, k)
  BY DEF Keeps
<1>. HIDE DEF X
<1>4. Solvable(d, X \cup (d.V \ r.V), k) <=> Solvable(r, X, k)
  BY <1>2 DEF Keeps
<1>. QED  BY <1>2, <1>3, <1>4

(* An instance keeps its own solutions. *)
LEMMA KeepsItself ==
  ASSUME NEW d
  PROVE  Keeps(d, d)
<1>1. \A W : W \cup (d.V \ d.V) = W
  OBVIOUS
<1>. QED  BY <1>1 DEF Keeps

(* A restriction has the solutions that avoid what was removed.            *)
LEMMA RestrictionSolves ==
  ASSUME NEW d, Sound(d), NEW r, Restricts(d, r), NEW W \in SUBSET r.V, NEW k
  PROVE  Solvable(d, W, k) <=> Solvable(r, W, k)
<1>1. /\ r.V \subseteq d.V /\ Sound(r)
      /\ \A v \in r.V : /\ Part(r, v) = Part(d, v) \cap r.V
                        /\ QPart(r, v) = QPart(d, v) \cap r.V
      /\ r.E = {e \in d.E : e \subseteq r.V}
      /\ r.isInfeasible <=> d.isInfeasible \/ \E v \in d.V : Part(d, v) \cap r.V = {}
  BY DEF Restricts, Reduces
<1>2. ASSUME NEW S \in SUBSET W, NEW f \in [S -> 1 .. k], Solution(d, S, f, k)
      PROVE  /\ Solution(r, S, f, k)
             /\ \A v \in d.V : Part(d, v) \cap r.V # {}
  <2>1. \A v \in d.V : \E s \in S : Part(d, v) \cap S = {s}
    BY <1>2 DEF Solution, Proper
  <2>2. \A v \in r.V : Part(r, v) \cap S = Part(d, v) \cap S
    BY <1>1
  <2>3. \A u, w \in S : /\ {u, w} \in r.E => f[u] # f[w]
                        /\ w \in QPart(r, u) => f[u] = f[w]
    BY <1>1, <1>2 DEF Solution, Proper
  <2>4. \A v \in r.V : \E s \in S : Part(r, v) \cap S = {s}
    BY <1>1, <2>1, <2>2
  <2>5. \A v \in d.V : Part(d, v) \cap r.V # {}
    BY <2>1
  <2>. QED  BY <2>3, <2>4, <2>5 DEF Solution, Proper
<1>3. ASSUME NEW S \in SUBSET W, NEW f \in [S -> 1 .. k], Solution(r, S, f, k),
             \A v \in d.V : Part(d, v) \cap r.V # {}
      PROVE  Solution(d, S, f, k)
  <2>1. ASSUME NEW v \in d.V
        PROVE  \E s \in S : Part(d, v) \cap S = {s}
    <3>1. PICK u \in r.V : u \in Part(d, v)
      BY <1>3
    <3>2. Part(d, u) = Part(d, v)
      BY <1>1, <3>1, PartsAreClasses
    <3>3. Part(r, u) \cap S = Part(d, u) \cap S
      BY <1>1
    <3>. QED  BY <1>3, <3>2, <3>3 DEF Solution, Proper
  <2>2. \A u, w \in S : u \in r.V /\ w \in r.V /\ {u, w} \subseteq r.V
    OBVIOUS
  <2>3. \A u, w \in S : /\ {u, w} \in d.E => f[u] # f[w]
                        /\ w \in QPart(d, u) => f[u] = f[w]
    BY <1>1, <1>3, <2>2 DEF Solution, Proper
  <2>. QED  BY <1>1, <2>1, <2>3 DEF Solution, Proper
<1>. QED  BY <1>1, <1>2, <1>3 DEF Solvable, Solves

-----------------------------------------------------------------------------
(* Preprocessing keeps the solutions.                                      *)

(* The edges of step 1 join vertices that no solution has both of.         *)
LEMMA Step1Keeps ==
  ASSUME NEW d, Sound(d)
  PROVE  Keeps(d, Step1(d))
<1> DEFINE r == Step1(d)
           added == UNION {kSubset(2, d.P[i]) : i \in DOMAIN d.P}
<1>1. /\ r.V = d.V /\ r.P = d.P /\ r.Q = d.Q
      /\ r.vertex2Ppart = d.vertex2Ppart /\ r.vertex2Qpart = d.vertex2Qpart
      /\ r.isInfeasible = d.isInfeasible
      /\ r.E = d.E \cup added
  BY DEF Sound, Fields, Step1
<1>2. \A v \in d.V : Part(r, v) = Part(d, v) /\ QPart(r, v) = QPart(d, v)
  BY <1>1 DEF Part, QPart
<1>3. ASSUME NEW S, NEW f, NEW k, Solution(d, S, f, k),
             NEW u \in S, NEW w \in S, {u, w} \in added
      PROVE  FALSE
  <2>1. PICK i \in 1 .. Len(d.P) : {u, w} \in kSubset(2, d.P[i])
    <3>1. DOMAIN d.P = 1 .. Len(d.P)
      BY LenProperties DEF Sound, Aligned
    <3>. QED  BY <1>3, <3>1
  <2>2. u \in d.P[i] /\ w \in d.P[i] /\ u # w
    <3> DEFINE e == {u, w}
    <3>1. e \in kSubset(2, d.P[i])
      BY <2>1
    <3>2. u = w => e = {u}
      OBVIOUS
    <3>3. u \in e /\ w \in e
      OBVIOUS
    <3>. HIDE DEF e
    <3>4. e \in SUBSET d.P[i] /\ Cardinality(e) = 2
      BY <3>1 DEF kSubset
    <3>5. e = {u} => Cardinality(e) = 1
      BY FS_Singleton, Zenon
    <3>6. u # w
      BY <3>2, <3>4, <3>5
    <3>. QED  BY <3>3, <3>4, <3>6
  <2>3. u \in d.V /\ Part(d, u) = d.P[i]
    <3>1. u \in d.V
      BY <1>3 DEF Solution, Proper
    <3>. QED  BY ZenonT(60), <2>2, <3>1 DEF Part, Sound, Aligned
  <2>4. PICK s \in S : Part(d, u) \cap S = {s}
    BY <1>3, <2>3 DEF Solution, Proper
  <2>. QED  BY <2>2, <2>3, <2>4
<1>. HIDE DEF r, added
<1>4. \A S, f, k : Solution(d, S, f, k) <=> Solution(r, S, f, k)
  <2>1. TAKE S, f, k
  <2>2. ASSUME Solution(d, S, f, k) PROVE Solution(r, S, f, k)
    <3>1. \A u, w \in S : /\ {u, w} \in r.E => f[u] # f[w]
                          /\ w \in QPart(r, u) => f[u] = f[w]
      BY ZenonT(60), <1>1, <1>2, <1>3, <2>2 DEF Solution, Proper
    <3>. QED  BY <1>1, <1>2, <2>2, <3>1 DEF Solution, Proper
  <2>3. ASSUME Solution(r, S, f, k) PROVE Solution(d, S, f, k)
    <3>1. \A u, w \in S : /\ {u, w} \in d.E => f[u] # f[w]
                          /\ w \in QPart(d, u) => f[u] = f[w]
      BY <1>1, <1>2, <2>3 DEF Solution, Proper
    <3>. QED  BY <1>1, <1>2, <2>3, <3>1 DEF Solution, Proper
  <2>. QED  BY <2>2, <2>3
<1>5. \A W, k : Solvable(d, W, k) <=> Solvable(r, W, k)
  BY <1>1, <1>4 DEF Solvable, Solves
<1>6. Keeps(d, r)
  <2>1. \A W : W \cup (d.V \ r.V) = W
    BY <1>1
  <2>. QED  BY <1>5, <2>1 DEF Keeps
<1>. QED  BY <1>6 DEF r

(* A removal that no solution notices keeps the solutions.                 *)
LEMMA UnusedIsKept ==
  ASSUME NEW d, Sound(d), NEW X \in SUBSET d.V,
         \A S, f, k : Solution(d, S, f, k) => S \cap X = {}
  PROVE  Keeps(d, RemoveAll(d, X))
<1> DEFINE r == RemoveAll(d, X)
<1>1. Restricts(d, r) /\ r.V = d.V \ X
  BY RemoveAllRestricts
<1>. HIDE DEF r
<1>2. SUFFICES ASSUME NEW W \in SUBSET r.V, NEW k \in Nat \ {0}
               PROVE  Solvable(d, W \cup (d.V \ r.V), k) <=> Solvable(r, W, k)
  BY DEF Keeps, r
<1>3. Solvable(d, W, k) <=> Solvable(r, W, k)
  BY <1>1, RestrictionSolves
<1>4. W \cup (d.V \ r.V) = W \cup X
  BY <1>1
<1>5. \A S \in SUBSET (W \cup X) : S \cap X = {} => S \in SUBSET W
  OBVIOUS
<1>6. SUBSET W \subseteq SUBSET (W \cup X)
  OBVIOUS
<1>7. Solves(d, W \cup X, k) <=> Solves(d, W, k)
  BY <1>5, <1>6 DEF Solves
<1>. QED  BY <1>3, <1>4, <1>7 DEF Solvable

(* A pass of step 2 removes the neighbours in its Q-part of a vertex that  *)
(* every solution has.                                                     *)
LEMMA PassKeeps ==
  ASSUME NEW d, Sound(d)
  PROVE  Keeps(d, Pass(d))
<1>1. CASE Forced(d) = {}
  BY <1>1, KeepsItself DEF Pass, Forced
<1>2. CASE Forced(d) # {}
  <2> DEFINE m == Min(Forced(d))
             X == Conflicting(d, m)
  <2>1. m \in Forced(d)
    <3>1. Forced(d) \in SUBSET Nat
      BY LenProperties DEF Forced, Sound, Aligned
    <3>2. \E x \in Forced(d) : \A y \in Forced(d) : x <= y
      BY <1>2, <3>1, LeastNatural
    <3>. QED  BY <3>2 DEF Min
  <2>2. Pass(d) = RemoveAll(d, X)
    BY <1>2 DEF Pass, Forced
  <2>3. X \in SUBSET d.V
    BY DEF Conflicting, Neighbours
  <2>. HIDE DEF m
  <2>4. /\ m \in 1 .. Len(d.P) /\ d.P[m] \in SUBSET d.V /\ d.P[m] # {}
        /\ Cardinality(d.P[m]) = 1
    <3>1. m \in 1 .. Len(d.P) /\ d.P \in Seq(SUBSET d.V)
      BY <2>1, LenProperties DEF Forced, Sound, Aligned
    <3>2. d.P[m] \in SUBSET d.V
      BY <3>1, ElementOfSeq
    <3>. QED  BY <2>1, <3>1, <3>2 DEF Forced, Sound, Aligned
  <2>5. PICK p \in d.V : d.P[m] = {p}
    <3>1. IsFiniteSet(d.P[m])
      BY <2>4, FS_Subset DEF Sound
    <3>. QED  BY <2>4, <3>1, OneElement
  <2>6. Part(d, p) = {p}
    BY ZenonT(60), <2>4, <2>5 DEF Part, Sound, Aligned
  <2>7. ASSUME NEW S, NEW f, NEW k, Solution(d, S, f, k), NEW u \in S, u \in X
        PROVE  FALSE
    <3>1. p \in S
      BY <2>5, <2>6, <2>7 DEF Solution, Proper
    <3>2. u \in d.V /\ {p, u} \in d.E /\ d.vertex2Qpart[u] = d.vertex2Qpart[p]
      BY <2>5, <2>7 DEF Conflicting, Neighbours
    <3>3. u \in QPart(d, p)
      BY <3>2, PartsAreVertices DEF QPart
    <3>. QED  BY <2>7, <3>1, <3>2, <3>3 DEF Solution, Proper
  <2>8. Keeps(d, RemoveAll(d, X))
    <3>1. \A S, f, k : Solution(d, S, f, k) => S \cap X = {}
      BY <2>7
    <3>. HIDE DEF X
    <3>. QED  BY <2>3, <3>1, UnusedIsKept
  <2>. QED  BY <2>2, <2>8
<1>. QED  BY <1>1, <1>2

(* Step 2 keeps the solutions. *)
LEMMA Step2Keeps ==
  ASSUME NEW d, Sound(d)
  PROVE  Keeps(d, Step2(d))
<1> DEFINE n == Cardinality(d.V)
           h == CHOOSE g : Iterates(g, d, n)
           Good(k) == Reduces(d, h[k]) /\ Keeps(d, h[k])
           Bad == {k \in Nat : k <= n /\ ~Good(k)}
<1>1. n \in Nat
  BY FS_CardinalityType DEF Sound
<1>2. Iterates(h, d, n)
  BY <1>1, IteratesExist
<1>3. Step2(d) = h[n]
  BY DEF Step2, Iterates
<1>. HIDE DEF h, n
<1>4. Bad = {}
  <2>1. SUFFICES ASSUME Bad # {} PROVE FALSE
    OBVIOUS
  <2>2. PICK m \in Bad : \A k \in Bad : m <= k
    BY <2>1, LeastNatural
  <2>3. m \in Nat /\ m <= n /\ ~Good(m)
    BY <2>2
  <2>4. CASE m = 0
    <3>1. h[0] = d
      BY <1>1, <1>2 DEF Iterates
    <3>2. Good(0)
      BY <3>1, ReducesItself, KeepsItself
    <3>. QED  BY <2>3, <2>4, <3>2
  <2>5. CASE m # 0
    <3>1. m - 1 \in Nat /\ m - 1 <= n
      BY <1>1, <2>3, <2>5
    <3>2. m - 1 \notin Bad
      <4>1. m - 1 \in Bad => m <= m - 1
        BY <2>2
      <4>. QED  BY <2>3, <4>1
    <3>3. Good(m - 1)
      BY <3>1, <3>2
    <3> DEFINE e == h[m - 1]
    <3>4. h[m] = Pass(e)
      BY <1>1, <1>2, <2>3, <2>5 DEF Iterates
    <3>5. Reduces(d, e) /\ Sound(e) /\ Keeps(d, e)
      BY <3>3 DEF Reduces
    <3>. HIDE DEF e
    <3>6. Reduces(e, Pass(e)) /\ Keeps(e, Pass(e))
      BY <3>5, PassRestricts, PassKeeps DEF Restricts
    <3>7. Reduces(d, Pass(e))
      BY <3>5, <3>6, ReducesTransitive
    <3>8. Keeps(d, Pass(e))
      BY <3>5, <3>6, KeepsTransitive DEF Reduces
    <3>. QED  BY <2>3, <3>4, <3>7, <3>8
  <2>. QED  BY <2>4, <2>5
<1>5. Good(n)
  BY <1>1, <1>4
<1>. QED  BY <1>3, <1>5

(* The colouring f and the vertices of I: each gets the colour of its      *)
(* Q-part, or the first one.                                               *)
Saved(d, f, u) ==
  LET same == DOMAIN f \cap QPart(d, u)
  IN IF same = {} THEN 1 ELSE f[CHOOSE w \in same : TRUE]

Extended(d, f, I) ==
  [u \in DOMAIN f \cup I |-> IF u \in DOMAIN f THEN f[u] ELSE Saved(d, f, u)]

(* Vertices without neighbours can always be coloured that way. *)
LEMMA ExtensionColours ==
  ASSUME NEW d, Sound(d), NEW S \in SUBSET d.V, NEW I \in SUBSET d.V,
         NEW k \in Nat \ {0}, NEW f, Proper(d, S, f, k),
         \A u \in I, w \in S \cup I : {u, w} \notin d.E
  PROVE  Proper(d, S \cup I, Extended(d, f, I), k)
<1> DEFINE g == Extended(d, f, I)
<1>0. /\ f \in [S -> 1 .. k]
      /\ \A u, w \in S : /\ {u, w} \in d.E => f[u] # f[w]
                         /\ w \in QPart(d, u) => f[u] = f[w]
  BY DEF Proper
<1>1. DOMAIN f = S /\ 1 \in 1 .. k
  BY <1>0
<1>2. g = [u \in S \cup I |-> IF u \in S THEN f[u] ELSE Saved(d, f, u)]
  BY <1>1 DEF Extended
<1>3. ASSUME NEW u \in I
      PROVE  /\ Saved(d, f, u) \in 1 .. k
             /\ \A w \in S : w \in QPart(d, u) => Saved(d, f, u) = f[w]
  <2> DEFINE same == S \cap QPart(d, u)
             c == CHOOSE w \in same : TRUE
  <2>1. Saved(d, f, u) = IF same = {} THEN 1 ELSE f[c]
    BY <1>1 DEF Saved
  <2>2. CASE same = {}
    BY <1>1, <2>1, <2>2
  <2>3. CASE same # {}
    <3>1. c \in same
      BY <2>3
    <3>. HIDE DEF c
    <3>2. ASSUME NEW w \in S, w \in QPart(d, u)
          PROVE  f[c] = f[w]
      <4>1. QPart(d, c) = QPart(d, u) /\ QPart(d, w) = QPart(d, u)
        BY <3>1, <3>2, PartsAreClasses
      <4>. QED  BY <1>0, <3>1, <3>2, <4>1
    <3>. QED  BY <1>0, <2>1, <2>3, <3>1, <3>2
  <2>. QED  BY <2>2, <2>3
<1>4. \A u, w \in I : QPart(d, u) = QPart(d, w) => Saved(d, f, u) = Saved(d, f, w)
  BY DEF Saved
<1>. HIDE DEF g
<1>5. g \in [S \cup I -> 1 .. k]
  BY <1>0, <1>2, <1>3
<1>6. ASSUME NEW u \in S \cup I, NEW w \in S \cup I, {u, w} \in d.E
      PROVE  g[u] # g[w]
  <2>1. {u, w} = {w, u}
    OBVIOUS
  <2>2. u \notin I /\ w \notin I
    BY <1>6, <2>1
  <2>. QED  BY <1>0, <1>2, <1>6, <2>2
<1>7. ASSUME NEW u \in S \cup I, NEW w \in S \cup I, w \in QPart(d, u)
      PROVE  g[u] = g[w]
  <2>1. QPart(d, w) = QPart(d, u) /\ u \in QPart(d, w)
    BY <1>7, PartsAreClasses
  <2>2. CASE u \in S /\ w \in S
    BY <1>0, <1>2, <1>7, <2>2
  <2>3. CASE u \in S /\ w \notin S
    BY <1>2, <1>3, <2>1, <2>3
  <2>4. CASE u \notin S /\ w \in S
    BY <1>2, <1>3, <1>7, <2>4
  <2>5. CASE u \notin S /\ w \notin S
    BY <1>2, <1>4, <2>1, <2>5
  <2>. QED  BY <2>2, <2>3, <2>4, <2>5
<1>. QED  BY <1>5, <1>6, <1>7 DEF g, Proper

(* Step 3 removes the isolated vertices and saves them; the instance is as *)
(* feasible as it was.                                                     *)
LEMMA Step3Saves ==
  ASSUME NEW d, Sound(d)
  PROVE  /\ Restricts(d, RemoveAll(d, Isolated(d)))
         /\ Step3(d).V = d.V \ Isolated(d) /\ RemoveAll(d, Isolated(d)).V = Step3(d).V
         /\ Step3(d).E = RemoveAll(d, Isolated(d)).E
         /\ Step3(d).isolated = d.isolated \cup Isolated(d)
         /\ Step3(d).isInfeasible = d.isInfeasible
         /\ Step3(d).isGCP = d.isGCP
         /\ Step3(d).hasTrivialSolution = d.hasTrivialSolution
         /\ \A v : /\ Part(Step3(d), v) = Part(RemoveAll(d, Isolated(d)), v)
                   /\ QPart(Step3(d), v) = QPart(RemoveAll(d, Isolated(d)), v)
<1> DEFINE r == RemoveAll(d, Isolated(d))
           s == Step3(d)
<1>1. Isolated(d) \in SUBSET d.V
  BY DEF Isolated
<1>2. Restricts(d, r) /\ r.V = d.V \ Isolated(d) /\ Sound(r)
  BY <1>1, RemoveAllRestricts DEF Restricts, Reduces
<1>3. r.isolated = d.isolated /\ r.isGCP = d.isGCP
      /\ r.hasTrivialSolution = d.hasTrivialSolution
  BY <1>2 DEF Restricts
<1>4. s = [r EXCEPT !.isolated = r.isolated \cup Isolated(d),
                    !.isInfeasible = d.isInfeasible]
  BY DEF Step3
<1>. HIDE DEF r, s
<1>5. /\ s.V = r.V /\ s.E = r.E /\ s.P = r.P /\ s.Q = r.Q
      /\ s.vertex2Ppart = r.vertex2Ppart /\ s.vertex2Qpart = r.vertex2Qpart
      /\ s.isGCP = r.isGCP /\ s.hasTrivialSolution = r.hasTrivialSolution
      /\ s.isolated = r.isolated \cup Isolated(d)
      /\ s.isInfeasible = d.isInfeasible
  BY <1>2, <1>4 DEF Sound, Fields
<1>6. \A v : Part(s, v) = Part(r, v) /\ QPart(s, v) = QPart(r, v)
  BY <1>5 DEF Part, QPart
<1>7. /\ Restricts(d, r)
      /\ s.V = d.V \ Isolated(d) /\ r.V = s.V
      /\ s.E = r.E
      /\ s.isolated = d.isolated \cup Isolated(d)
      /\ s.isInfeasible = d.isInfeasible
      /\ s.isGCP = d.isGCP
      /\ s.hasTrivialSolution = d.hasTrivialSolution
  BY <1>2, <1>3, <1>5
<1>. QED  BY <1>6, <1>7 DEF r, s

(* Where isolated vertices are alone in their P-parts every solution has   *)
(* them all, and step 3 keeps the solutions.                               *)
LEMMA Step3Keeps ==
  ASSUME NEW d, Sound(d), Step3Assertion(d)
  PROVE  Keeps(d, Step3(d))
<1> DEFINE s == Step3(d)
           I == Isolated(d)
<1>1. /\ s.V = d.V \ I /\ s.isInfeasible = d.isInfeasible
      /\ s.E = {e \in d.E : e \subseteq s.V}
      /\ \A v \in s.V : /\ Part(s, v) = Part(d, v) \cap s.V
                        /\ QPart(s, v) = QPart(d, v) \cap s.V
  BY Step3Saves DEF Restricts, Reduces
<1>2. /\ I \in SUBSET d.V
      /\ \A u \in I : Part(d, u) = {u}
      /\ \A u \in I, w \in d.V : {u, w} \notin d.E
  BY DEF Step3Assertion, Part, Isolated, Neighbours
<1>3. \A v \in s.V : Part(d, v) \cap I = {}
  <2>1. SUFFICES ASSUME NEW v \in s.V, NEW u \in I, u \in Part(d, v) PROVE FALSE
    OBVIOUS
  <2>2. Part(d, u) = Part(d, v) /\ v \in Part(d, v)
    BY <1>1, <1>2, <2>1, PartsAreClasses, PartsAreVertices
  <2>. QED  BY <1>1, <1>2, <2>2
<1>. HIDE DEF s, I
<1>4. SUFFICES ASSUME NEW W \in SUBSET s.V, NEW k \in Nat \ {0}
               PROVE  Solves(d, W \cup I, k) <=> Solves(s, W, k)
  <2>1. \A W : W \cup (d.V \ s.V) = W \cup I
    BY <1>1, <1>2
  <2>. QED  BY <1>1, <1>4, <2>1 DEF Keeps, Solvable, s
<1>5. ASSUME NEW S \in SUBSET (W \cup I), NEW f \in [S -> 1 .. k], Solution(d, S, f, k)
      PROVE  Solves(s, W, k)
  <2> DEFINE T == S \ I
             g == [u \in T |-> f[u]]
  <2>1. T \in SUBSET W /\ g \in [T -> 1 .. k]
    OBVIOUS
  <2>2. ASSUME NEW v \in s.V
        PROVE  \E t \in T : Part(s, v) \cap T = {t}
    <3>1. PICK t \in S : Part(d, v) \cap S = {t}
      BY <1>1, <1>5, <2>2 DEF Solution, Proper
    <3>2. t \in T /\ Part(s, v) \cap T = Part(d, v) \cap S
      BY <1>1, <1>3, <1>5, <3>1
    <3>. QED  BY <3>1, <3>2
  <2>3. \A u, w \in T : /\ {u, w} \in s.E => g[u] # g[w]
                        /\ w \in QPart(s, u) => g[u] = g[w]
    <3>1. \A u, w \in T : /\ {u, w} \in d.E => f[u] # f[w]
                          /\ w \in QPart(d, u) => f[u] = f[w]
      BY <1>5 DEF Solution, Proper
    <3>2. \A u \in T : u \in s.V /\ g[u] = f[u]
      BY <2>1
    <3>. QED  BY <1>1, <3>1, <3>2
  <2>. HIDE DEF g
  <2>4. Solution(s, T, g, k)
    BY <2>1, <2>2, <2>3 DEF Solution, Proper
  <2>. QED  BY <2>1, <2>4 DEF Solves
<1>6. ASSUME NEW S \in SUBSET W, NEW f \in [S -> 1 .. k], Solution(s, S, f, k)
      PROVE  Solves(d, W \cup I, k)
  <2> DEFINE g == Extended(d, f, I)
  <2>1. S \in SUBSET s.V /\ S \in SUBSET d.V
    BY <1>1
  <2>2. \A u, w \in S : /\ {u, w} \in d.E => f[u] # f[w]
                        /\ w \in QPart(d, u) => f[u] = f[w]
    <3>1. \A u, w \in S : /\ {u, w} \in s.E => f[u] # f[w]
                          /\ w \in QPart(s, u) => f[u] = f[w]
      BY <1>6 DEF Solution, Proper
    <3>2. \A u, w \in S : u \in s.V /\ w \in s.V /\ {u, w} \subseteq s.V
      BY <2>1
    <3>. QED  BY <1>1, <3>1, <3>2
  <2>3. \A u \in I, w \in S \cup I : {u, w} \notin d.E
    BY <1>2, <2>1
  <2>4. Proper(d, S \cup I, g, k)
    <3>1. Proper(d, S, f, k)
      BY <1>6, <2>2 DEF Proper
    <3>2. I \in SUBSET d.V
      BY <1>2
    <3>. QED  BY <2>1, <2>3, <3>1, <3>2, ExtensionColours
  <2>. HIDE DEF g
  <2>5. ASSUME NEW v \in d.V
        PROVE  \E t \in S \cup I : Part(d, v) \cap (S \cup I) = {t}
    <3>1. CASE v \in I
      BY <1>2, <3>1
    <3>2. CASE v \in s.V
      <4>1. PICK t \in S : Part(s, v) \cap S = {t}
        BY <1>6, <3>2 DEF Solution, Proper
      <4>2. Part(d, v) \cap (S \cup I) = Part(s, v) \cap S
        BY <1>1, <1>3, <2>1, <3>2
      <4>. QED  BY <4>1, <4>2
    <3>. QED  BY <1>1, <3>1, <3>2
  <2>6. Solution(d, S \cup I, g, k)
    <3>1. S \cup I \in SUBSET d.V
      BY <1>2, <2>1
    <3>. QED  BY <2>4, <2>5, <3>1 DEF Solution
  <2>. QED  BY <2>4, <2>6 DEF Solves, Proper
<1>. QED  BY <1>5, <1>6 DEF Solves

(* Step 4 only sets a flag. *)
LEMMA Step4Keeps ==
  ASSUME NEW d, Sound(d)
  PROVE  Keeps(d, Step4(d))
<1> DEFINE s == Step4(d)
<1>1. /\ s.V = d.V /\ s.E = d.E /\ s.P = d.P /\ s.Q = d.Q
      /\ s.vertex2Ppart = d.vertex2Ppart /\ s.vertex2Qpart = d.vertex2Qpart
      /\ s.isInfeasible = d.isInfeasible
  BY DEF Step4, Sound, Fields
<1>. HIDE DEF s
<1>2. \A v : Part(s, v) = Part(d, v) /\ QPart(s, v) = QPart(d, v)
  BY <1>1 DEF Part, QPart
<1>3. \A S, f, k : Solution(s, S, f, k) <=> Solution(d, S, f, k)
  BY ZenonT(60), <1>1, <1>2 DEF Solution, Proper
<1>4. \A W, k : Solvable(s, W, k) <=> Solvable(d, W, k)
  BY <1>1, <1>3 DEF Solvable, Solves
<1>5. \A W : W \cup (d.V \ s.V) = W
  BY <1>1
<1>6. Keeps(d, s)
  BY <1>1, <1>4, <1>5 DEF Keeps
<1>. QED  BY <1>6 DEF s

(* Preprocessing keeps the solutions, unless the assertion of step 3 fails.*)
LEMMA PreprocessingKeeps ==
  ASSUME NEW d, Sound(d), NEW clique \in BOOLEAN,
         Step3Assertion(Reduced(d, clique))
  PROVE  Keeps(d, Preprocessed(d, clique))
<1> DEFINE a == IF clique THEN Step1(d) ELSE d
           b == Step2(a)
           c == Step3(b)
<1>1. Reduces(d, a) /\ Sound(a) /\ Keeps(d, a)
  BY Step1Completes, ReducesItself, Step1Keeps, KeepsItself DEF Reduces
<1>2. Reduced(d, clique) = b /\ Preprocessed(d, clique) = Step4(c)
  BY DEF Reduced, Preprocessed
<1>. HIDE DEF a
<1>3. Reduces(a, b) /\ Sound(b) /\ Keeps(a, b)
  BY <1>1, Step2Settles, Step2Keeps DEF Restricts, Reduces
<1>. HIDE DEF b
<1>4. Reduces(b, c) /\ Sound(c) /\ Keeps(b, c)
  BY <1>2, <1>3, Step3Reduces, Step3Keeps DEF Reduces
<1>. HIDE DEF c
<1>5. Reduces(c, Step4(c)) /\ Keeps(c, Step4(c))
  BY <1>4, Step4Reduces, Step4Keeps
<1>6. a.V \subseteq d.V /\ b.V \subseteq a.V /\ c.V \subseteq b.V /\ Step4(c).V \subseteq c.V
  BY <1>1, <1>3, <1>4, <1>5 DEF Reduces
<1>7. Keeps(d, b)
  BY <1>1, <1>3, <1>6, KeepsTransitive
<1>8. Keeps(d, c)
  BY <1>4, <1>6, <1>7, KeepsTransitive
<1>9. Keeps(d, Step4(c))
  BY <1>5, <1>6, <1>8, KeepsTransitive
<1>. QED  BY <1>2, <1>9

-----------------------------------------------------------------------------
(* The optimum of an instance, as the specification defines it.            *)

(* The least element of a set of naturals. *)
LEMMA MinIsLeast ==
  ASSUME NEW T \in SUBSET Nat, T # {}
  PROVE  Min(T) \in T /\ \A x \in T : Min(T) <= x
<1>1. \E x \in T : \A y \in T : x <= y
  BY LeastNatural
<1>. QED  BY <1>1 DEF Min

(* The parts of the partitions are those of the vertices. *)
LEMMA RangesAreParts ==
  ASSUME NEW d, Sound(d)
  PROVE  /\ Range(d.P) = {Part(d, v) : v \in d.V}
         /\ Range(d.Q) = {QPart(d, v) : v \in d.V}
<1>1. /\ DOMAIN d.P = 1 .. Len(d.P) /\ DOMAIN d.Q = 1 .. Len(d.Q)
      /\ \A i \in 1 .. Len(d.P) : d.P[i] \in SUBSET d.V /\ d.P[i] # {}
      /\ \A i \in 1 .. Len(d.Q) : d.Q[i] \in SUBSET d.V /\ d.Q[i] # {}
  BY LenProperties, ElementOfSeq DEF Sound, Aligned
<1>2. \A v \in d.V :
        /\ d.vertex2Ppart[v] \in 1 .. Len(d.P)
        /\ d.vertex2Qpart[v] \in 1 .. Len(d.Q)
        /\ \A i \in 1 .. Len(d.P) : v \in d.P[i] <=> d.vertex2Ppart[v] = i
        /\ \A i \in 1 .. Len(d.Q) : v \in d.Q[i] <=> d.vertex2Qpart[v] = i
  BY DEF Sound, Aligned
<1>3. \A i \in 1 .. Len(d.P) : \E v \in d.V : d.P[i] = Part(d, v)
  <2>1. TAKE i \in 1 .. Len(d.P)
  <2>2. PICK v \in d.P[i] : TRUE
    BY <1>1
  <2>3. v \in d.V /\ d.vertex2Ppart[v] = i
    BY <1>1, <1>2, <2>2
  <2>. QED  BY <2>3 DEF Part
<1>4. \A i \in 1 .. Len(d.Q) : \E v \in d.V : d.Q[i] = QPart(d, v)
  <2>1. TAKE i \in 1 .. Len(d.Q)
  <2>2. PICK v \in d.Q[i] : TRUE
    BY <1>1
  <2>3. v \in d.V /\ d.vertex2Qpart[v] = i
    BY <1>1, <1>2, <2>2
  <2>. QED  BY <2>3 DEF QPart
<1>5. \A v \in d.V : Part(d, v) \in Range(d.P) /\ QPart(d, v) \in Range(d.Q)
  BY <1>1, <1>2 DEF Part, QPart, Range
<1>6. \A part \in Range(d.P) : \E v \in d.V : part = Part(d, v)
  BY <1>1, <1>3 DEF Range
<1>7. \A part \in Range(d.Q) : \E v \in d.V : part = QPart(d, v)
  BY <1>1, <1>4 DEF Range
<1>. QED  BY <1>5, <1>6, <1>7

(* The colourings of the specification are the proper ones. *)
LEMMA ColouringsAreProper ==
  ASSUME NEW d, Sound(d), NEW S \in SUBSET d.V, NEW f, NEW k
  PROVE  f \in Colourings(S, d.E, Range(d.Q), k) <=> Proper(d, S, f, k)
<1>1. Range(d.Q) = {QPart(d, v) : v \in d.V}
  BY RangesAreParts
<1>2. ASSUME \A part \in Range(d.Q) : \A u, w \in S \cap part : f[u] = f[w],
             NEW u \in S, NEW w \in S, w \in QPart(d, u)
      PROVE  f[u] = f[w]
  <2>1. u \in d.V /\ u \in QPart(d, u) /\ QPart(d, u) \in Range(d.Q)
    BY <1>1, PartsAreVertices
  <2>. QED  BY <1>2, <2>1
<1>3. ASSUME \A u, w \in S : w \in QPart(d, u) => f[u] = f[w],
             NEW part \in Range(d.Q), NEW u \in S \cap part, NEW w \in S \cap part
      PROVE  f[u] = f[w]
  <2>1. PICK v \in d.V : part = QPart(d, v)
    BY <1>1
  <2>2. QPart(d, u) = QPart(d, v)
    BY <2>1, PartsAreClasses
  <2>. QED  BY <1>3, <2>1, <2>2
<1>4. (\A part \in Range(d.Q) : \A u, w \in S \cap part : f[u] = f[w])
        <=> \A u, w \in S : w \in QPart(d, u) => f[u] = f[w]
  BY <1>2, <1>3
<1>5. f \in Colourings(S, d.E, Range(d.Q), k)
        <=> /\ f \in [S -> 1 .. k]
            /\ \A u, w \in S : {u, w} \in d.E => f[u] # f[w]
            /\ \A part \in Range(d.Q) : \A u, w \in S \cap part : f[u] = f[w]
  BY DEF Colourings
<1>6. Proper(d, S, f, k)
        <=> /\ f \in [S -> 1 .. k]
            /\ \A u, w \in S : {u, w} \in d.E => f[u] # f[w]
            /\ \A u, w \in S : w \in QPart(d, u) => f[u] = f[w]
  BY DEF Proper
<1>. QED  BY <1>4, <1>5, <1>6

(* What a selection is, vertex by vertex. *)
Selected(d, S) ==
  /\ S \subseteq d.V
  /\ \A v \in d.V : \E s \in S : Part(d, v) \cap S = {s}
  /\ \A u, w \in S : w \in QPart(d, u) => {u, w} \notin d.E

(* The selections of the model, one vertex of every P-part without an edge
   inside a Q-part, are those of the predicate Selected. *)
LEMMA SelectionsAreSelected ==
  ASSUME NEW d, Sound(d), NEW S
  PROVE  S \in Selections(d.V, d.E, Range(d.P), Range(d.Q)) <=> Selected(d, S)
<1>1. /\ Range(d.P) = {Part(d, v) : v \in d.V}
      /\ Range(d.Q) = {QPart(d, v) : v \in d.V}
  BY RangesAreParts
<1>2. SUFFICES ASSUME S \in SUBSET d.V
               PROVE  S \in Selections(d.V, d.E, Range(d.P), Range(d.Q)) <=> Selected(d, S)
  BY DEF Selections, Selected
<1>3. \A v \in d.V : Cardinality(S \cap Part(d, v)) = 1
                       <=> \E s \in S : Part(d, v) \cap S = {s}
  <2>1. TAKE v \in d.V
  <2> DEFINE T == S \cap Part(d, v)
  <2>2. IsFiniteSet(S)
    BY <1>2, FS_Subset DEF Sound
  <2>3. IsFiniteSet(T)
    BY <2>2, FS_Subset
  <2>4. T = Part(d, v) \cap S /\ (\A x : T = {x} => x \in S)
    OBVIOUS
  <2>. HIDE DEF T
  <2>5. Cardinality(T) = 1 <=> \E x : T = {x}
    BY <2>3, OneElement
  <2>6. Cardinality(T) = 1 <=> \E s \in S : Part(d, v) \cap S = {s}
    BY <2>4, <2>5
  <2>. QED  BY <2>6 DEF T
<1>4. (\A part \in Range(d.P) : Cardinality(S \cap part) = 1)
        <=> \A v \in d.V : \E s \in S : Part(d, v) \cap S = {s}
  BY <1>1, <1>3
<1>5. ASSUME \A part \in Range(d.Q) : \A u, w \in S \cap part : {u, w} \notin d.E,
             NEW u \in S, NEW w \in S, w \in QPart(d, u)
      PROVE  {u, w} \notin d.E
  <2>1. u \in d.V /\ u \in QPart(d, u) /\ QPart(d, u) \in Range(d.Q)
    BY <1>1, <1>2, PartsAreVertices
  <2>. QED  BY <1>5, <2>1
<1>6. ASSUME \A u, w \in S : w \in QPart(d, u) => {u, w} \notin d.E,
             NEW part \in Range(d.Q), NEW u \in S \cap part, NEW w \in S \cap part
      PROVE  {u, w} \notin d.E
  <2>1. PICK v \in d.V : part = QPart(d, v)
    BY <1>1
  <2>2. QPart(d, u) = QPart(d, v)
    BY <1>2, <2>1, PartsAreClasses
  <2>. QED  BY <1>6, <2>1, <2>2
<1>7. (\A part \in Range(d.Q) : \A u, w \in S \cap part : {u, w} \notin d.E)
        <=> \A u, w \in S : w \in QPart(d, u) => {u, w} \notin d.E
  BY <1>5, <1>6
<1>8. S \in Selections(d.V, d.E, Range(d.P), Range(d.Q))
        <=> /\ \A part \in Range(d.P) : Cardinality(S \cap part) = 1
            /\ \A part \in Range(d.Q) : \A u, w \in S \cap part : {u, w} \notin d.E
  BY <1>2 DEF Selections
<1>. QED  BY <1>2, <1>4, <1>7, <1>8 DEF Selected

(* A solution is a selection with a colouring. *)
LEMMA SolutionsAreSelected ==
  ASSUME NEW d, NEW S, NEW f, NEW k
  PROVE  Solution(d, S, f, k) <=> Selected(d, S) /\ Proper(d, S, f, k)
BY DEF Solution, Selected, Proper

(* A selection has a colouring with as many colours as it has vertices:    *)
(* each Q-part gets the number of one of its vertices.                     *)
LEMMA SelectionHasColouring ==
  ASSUME NEW d, Sound(d), NEW S, Selected(d, S)
  PROVE  /\ IsFiniteSet(S) /\ Cardinality(S) \in Nat
         /\ Cardinality(S) <= Cardinality(d.V)
         /\ \E f : Proper(d, S, f, Cardinality(S))
<1> DEFINE n == Cardinality(S)
           rep == [u \in S |-> CHOOSE w \in S : w \in QPart(d, u)]
<1>1. S \in SUBSET d.V
  BY DEF Selected
<1>2. /\ IsFiniteSet(S) /\ n \in Nat
      /\ n <= Cardinality(d.V)
  BY <1>1, FS_Subset, FS_CardinalityType DEF Sound
<1>3. ExistsBijection(1 .. n, S)
  BY <1>2, FS_NatBijection, FS_CountingElements
<1>4. PICK b : b \in Bijection(1 .. n, S)
  BY <1>3 DEF ExistsBijection
<1>5. ASSUME NEW u \in S
      PROVE  rep[u] \in S /\ QPart(d, rep[u]) = QPart(d, u)
  <2>1. u \in QPart(d, u)
    BY <1>1, PartsAreVertices
  <2>2. rep[u] \in S /\ rep[u] \in QPart(d, u)
    BY <2>1
  <2>. HIDE DEF rep
  <2>. QED  BY <1>1, <2>2, PartsAreClasses
<1>6. \A u, w \in S : QPart(d, u) = QPart(d, w) => rep[u] = rep[w]
  OBVIOUS
<1>. HIDE DEF n, rep
<1>7. \A s \in S : \E i \in 1 .. n : b[i] = s
  BY <1>4 DEF Bijection, Surjection
<1> DEFINE g == [u \in S |-> CHOOSE i \in 1 .. n : b[i] = rep[u]]
<1>8. \A u \in S : g[u] \in 1 .. n /\ b[g[u]] = rep[u]
  BY <1>5, <1>7
<1>9. \A u, w \in S : rep[u] = rep[w] => g[u] = g[w]
  OBVIOUS
<1>10. g \in [S -> 1 .. n]
  BY <1>8
<1>. HIDE DEF g
<1>11. ASSUME NEW u \in S, NEW w \in S
       PROVE  /\ {u, w} \in d.E => g[u] # g[w]
              /\ w \in QPart(d, u) => g[u] = g[w]
  <2>1. w \in QPart(d, u) <=> QPart(d, w) = QPart(d, u)
    BY <1>1, PartsAreClasses
  <2>2. g[u] = g[w] => QPart(d, u) = QPart(d, w)
    BY <1>5, <1>8
  <2>. QED  BY <1>6, <1>9, <2>1, <2>2 DEF Selected
<1>12. Proper(d, S, g, n)
  BY <1>10, <1>11 DEF Proper
<1>. QED  BY <1>2, <1>12 DEF n

(* The colours a selection needs. *)
LEMMA ColourNumberIs ==
  ASSUME NEW d, Sound(d), NEW S, Selected(d, S)
  PROVE  LET c == ColourNumber(S, d.E, Range(d.Q)) IN
         /\ c \in Nat /\ c <= Cardinality(d.V)
         /\ \A k \in Nat : c <= k <=> \E f : Proper(d, S, f, k)
<1> DEFINE n == Cardinality(S)
           T == {k \in 0 .. n : Colourings(S, d.E, Range(d.Q), k) # {}}
           c == ColourNumber(S, d.E, Range(d.Q))
<1>1. /\ S \in SUBSET d.V /\ n \in Nat /\ n <= Cardinality(d.V)
      /\ Cardinality(d.V) \in Nat
      /\ \E f : Proper(d, S, f, n)
  BY SelectionHasColouring, FS_CardinalityType DEF Selected, Sound
<1>2. \A k : Colourings(S, d.E, Range(d.Q), k) # {} <=> \E f : Proper(d, S, f, k)
  BY <1>1, ColouringsAreProper
<1>. HIDE DEF n
<1>3. \A k : k \in T <=> k \in 0 .. n /\ \E f : Proper(d, S, f, k)
  BY <1>2
<1>4. T \in SUBSET Nat /\ n \in T
  BY <1>1, <1>3
<1>5. c = Min(T)
  BY DEF ColourNumber, n
<1>. HIDE DEF T, c
<1>6. c \in T /\ \A x \in T : c <= x
  BY <1>4, <1>5, MinIsLeast
<1>7. c \in Nat /\ c <= n /\ \E f : Proper(d, S, f, c)
  BY <1>1, <1>3, <1>6
<1>8. ASSUME NEW k \in Nat, c <= k PROVE \E f : Proper(d, S, f, k)
  <2>1. PICK f : Proper(d, S, f, c)
    BY <1>7
  <2>2. f \in [S -> 1 .. k]
    BY <1>7, <1>8, <2>1 DEF Proper
  <2>3. Proper(d, S, f, k)
    BY <2>1, <2>2 DEF Proper
  <2>. QED  BY <2>3
<1>9. ASSUME NEW k \in Nat, \E f : Proper(d, S, f, k) PROVE c <= k
  <2>1. CASE k \in 0 .. n
    BY <1>3, <1>6, <1>9, <2>1
  <2>2. CASE k > n
    BY <1>1, <1>7, <2>2
  <2>. QED  BY <1>1, <2>1, <2>2
<1>10. c <= Cardinality(d.V)
  BY <1>1, <1>7
<1>. QED  BY <1>7, <1>8, <1>9, <1>10 DEF c

(* The fewest colours of a selection of d in W. *)
OptimumIn(d, W) ==
  Min({Infinity} \cup
      {ColourNumber(S, d.E, Range(d.Q)) : S \in {T \in SUBSET W : Selected(d, T)}})

(* It is what the solutions in W need. *)
LEMMA OptimumInIs ==
  ASSUME NEW d, Sound(d), NEW W \in SUBSET d.V, Cardinality(d.V) < Infinity
  PROVE  /\ OptimumIn(d, W) \in 0 .. Infinity
         /\ \A k \in Nat : k < Infinity => (OptimumIn(d, W) <= k <=> Solves(d, W, k))
<1> DEFINE C(S) == ColourNumber(S, d.E, Range(d.Q))
           U == {T \in SUBSET W : Selected(d, T)}
           N == {Infinity} \cup {C(S) : S \in U}
           m == OptimumIn(d, W)
<1>1. Infinity \in Nat
  BY DpcpAssumption
<1>2. Cardinality(d.V) \in Nat
  BY FS_CardinalityType DEF Sound
<1>3. \A S \in U : /\ C(S) \in Nat /\ C(S) <= Cardinality(d.V)
                   /\ \A k \in Nat : C(S) <= k <=> \E f : Proper(d, S, f, k)
  BY ColourNumberIs
<1>4. m = Min(N)
  BY DEF OptimumIn
<1>. HIDE DEF C, m
<1>5. N \in SUBSET Nat
  BY <1>1, <1>3
<1>6. m \in N /\ \A x \in N : m <= x
  <2>1. N # {}
    OBVIOUS
  <2>. HIDE DEF N
  <2>. QED  BY <1>4, <1>5, <2>1, MinIsLeast
<1>7. m \in Nat /\ m <= Infinity
  BY <1>5, <1>6
<1>8. ASSUME NEW k \in Nat, k < Infinity
      PROVE  m <= k <=> \E S \in U : C(S) <= k
  <2>1. ASSUME m <= k PROVE \E S \in U : C(S) <= k
    <3>1. m # Infinity
      BY <1>1, <1>7, <1>8, <2>1
    <3>. QED  BY <1>6, <2>1, <3>1
  <2>2. ASSUME NEW S \in U, C(S) <= k PROVE m <= k
    <3>1. m <= C(S) /\ C(S) \in Nat
      BY <1>3, <1>6
    <3>. QED  BY <1>7, <2>2, <3>1
  <2>. QED  BY <2>1, <2>2
<1>9. ASSUME NEW k \in Nat
      PROVE  (\E S \in U : C(S) <= k) <=> Solves(d, W, k)
  <2>1. (\E S \in U : C(S) <= k) <=> \E S \in U : \E f : Proper(d, S, f, k)
    BY <1>3
  <2>2. (\E S \in U : \E f : Proper(d, S, f, k))
          <=> \E S \in SUBSET W : \E f : Solution(d, S, f, k)
    BY SolutionsAreSelected
  <2>3. \A S, f : Solution(d, S, f, k) => f \in [S -> 1 .. k]
    BY DEF Solution, Proper
  <2>4. (\E S \in SUBSET W : \E f : Solution(d, S, f, k)) <=> Solves(d, W, k)
    BY <2>3 DEF Solves
  <2>. QED  BY <2>1, <2>2, <2>4
<1>. QED  BY <1>1, <1>7, <1>8, <1>9 DEF m

(* The optimum of an instance. *)
LEMMA OptimumIsOptimumIn ==
  ASSUME NEW d, Sound(d)
  PROVE  Optimum(d.V, d.E, Range(d.P), Range(d.Q)) = OptimumIn(d, d.V)
<1>1. Selections(d.V, d.E, Range(d.P), Range(d.Q)) = {T \in SUBSET d.V : Selected(d, T)}
  <2>1. \A S \in Selections(d.V, d.E, Range(d.P), Range(d.Q)) : S \in SUBSET d.V
    BY DEF Selections
  <2>. QED  BY <2>1, SelectionsAreSelected
<1>. QED  BY <1>1 DEF Optimum, OptimumIn

-----------------------------------------------------------------------------
(* What a reduction leaves behind.                                         *)

(* r descends from d: what is gone was decided away or is saved, and what  *)
(* is saved is not adjacent to the rest; unless r is infeasible every      *)
(* P-part has a vertex left or a saved one.                                *)
Descends(d, r) ==
  /\ Reduces(d, r)
  /\ r.isGCP = d.isGCP
  /\ d.isolated \subseteq r.isolated
  /\ \A u \in r.isolated \ d.isolated, w \in r.V \cup (r.isolated \ d.isolated) :
       {u, w} \notin d.E
  /\ ~r.isInfeasible =>
       /\ ~d.isInfeasible
       /\ \A v \in d.V : Part(d, v) \cap (r.V \cup r.isolated) # {}

(* Descending is transitive, so that steps of the preprocessing and
   decisions compose. *)
LEMMA DescendsTransitive ==
  ASSUME NEW d, Sound(d), NEW r, NEW s, Descends(d, r), Descends(r, s)
  PROVE  Descends(d, s)
<1>1. Reduces(d, r) /\ Reduces(r, s) /\ Reduces(d, s)
  BY ReducesTransitive DEF Descends
<1>2. /\ s.V \subseteq r.V /\ r.V \subseteq d.V
      /\ d.isolated \subseteq r.isolated /\ r.isolated \subseteq s.isolated
      /\ s.isolated \subseteq r.isolated \cup (r.V \ s.V)
      /\ \A e \in d.E : e \subseteq r.V => e \in r.E
      /\ \A v \in r.V : Part(r, v) = Part(d, v) \cap r.V
  BY <1>1 DEF Descends, Reduces
<1> DEFINE NewR == r.isolated \ d.isolated
           NewS == s.isolated \ r.isolated
<1>3. s.isolated \ d.isolated = NewR \cup NewS /\ NewS \subseteq r.V
  BY <1>2
<1>4. \A u \in NewR, w \in r.V \cup NewR : {u, w} \notin d.E
  BY DEF Descends
<1>5. \A u \in NewS, w \in s.V \cup NewS : {u, w} \notin d.E
  <2>1. TAKE u \in NewS, w \in s.V \cup NewS
  <2>2. {u, w} \notin r.E
    BY DEF Descends
  <2>3. {u, w} \subseteq r.V
    BY <1>2, <1>3
  <2>. QED  BY <1>2, <2>2, <2>3
<1>. HIDE DEF NewR, NewS
<1>6. ASSUME NEW u \in s.isolated \ d.isolated,
             NEW w \in s.V \cup (s.isolated \ d.isolated)
      PROVE  {u, w} \notin d.E
  <2>1. {u, w} = {w, u}
    OBVIOUS
  <2>2. CASE u \in NewR
    BY <1>2, <1>3, <1>4, <2>2
  <2>3. CASE u \in NewS /\ w \in NewR
    BY <1>3, <1>4, <2>1, <2>3
  <2>4. CASE u \in NewS /\ w \notin NewR
    BY <1>3, <1>5, <2>4
  <2>. QED  BY <1>3, <2>2, <2>3, <2>4
<1>7. ASSUME ~s.isInfeasible
      PROVE  /\ ~d.isInfeasible
             /\ \A v \in d.V : Part(d, v) \cap (s.V \cup s.isolated) # {}
  <2>1. /\ ~r.isInfeasible
        /\ \A u \in r.V : Part(r, u) \cap (s.V \cup s.isolated) # {}
    BY <1>7 DEF Descends
  <2>2. /\ ~d.isInfeasible
        /\ \A v \in d.V : Part(d, v) \cap (r.V \cup r.isolated) # {}
    BY <2>1 DEF Descends
  <2>3. ASSUME NEW v \in d.V
        PROVE  Part(d, v) \cap (s.V \cup s.isolated) # {}
    <3>1. PICK u \in r.V \cup r.isolated : u \in Part(d, v)
      BY <2>2
    <3>2. CASE u \in r.isolated
      BY <1>2, <3>1, <3>2
    <3>3. CASE u \in r.V
      <4>1. Part(d, u) = Part(d, v)
        BY <1>2, <3>1, <3>3, PartsAreClasses
      <4>2. Part(r, u) \cap (s.V \cup s.isolated) # {}
        BY <2>1, <3>3
      <4>. QED  BY <1>2, <3>3, <4>1, <4>2
    <3>. QED  BY <3>1, <3>2, <3>3
  <2>. QED  BY <2>2, <2>3
<1>8. r.isGCP = d.isGCP /\ s.isGCP = r.isGCP
  BY DEF Descends
<1>. QED  BY <1>1, <1>2, <1>6, <1>7, <1>8 DEF Descends

(* A removal descends. *)
LEMMA RestrictionDescends ==
  ASSUME NEW d, NEW r, Restricts(d, r)
  PROVE  Descends(d, r)
BY DEF Restricts, Descends

(* So does step 1, which only adds edges inside P-parts. *)
LEMMA Step1Descends ==
  ASSUME NEW d, Sound(d)
  PROVE  Descends(d, Step1(d)) /\ Step1(d).hasTrivialSolution = d.hasTrivialSolution
<1> DEFINE r == Step1(d)
<1>1. /\ r.V = d.V /\ r.isolated = d.isolated /\ r.isGCP = d.isGCP
      /\ r.isInfeasible = d.isInfeasible
      /\ r.hasTrivialSolution = d.hasTrivialSolution
  BY DEF Sound, Fields, Step1
<1>2. Reduces(d, r)
  BY Step1Completes
<1>. HIDE DEF r
<1>3. \A v \in d.V : Part(d, v) \cap (r.V \cup r.isolated) # {}
  BY <1>1, PartsAreVertices
<1>4. Descends(d, r)
  BY <1>1, <1>2, <1>3 DEF Descends
<1>. QED  BY <1>1, <1>4 DEF r

(* So does step 3, which puts isolated vertices aside. *)
LEMMA Step3Descends ==
  ASSUME NEW d, Sound(d)
  PROVE  Descends(d, Step3(d)) /\ Step3(d).hasTrivialSolution = d.hasTrivialSolution
<1> DEFINE s == Step3(d)
           I == Isolated(d)
<1>1. /\ s.V = d.V \ I /\ s.isolated = d.isolated \cup I
      /\ s.isInfeasible = d.isInfeasible /\ s.isGCP = d.isGCP
      /\ s.hasTrivialSolution = d.hasTrivialSolution
  BY Step3Saves
<1>2. Reduces(d, s)
  BY Step3Reduces
<1>3. I \in SUBSET d.V /\ \A u \in I, w \in d.V : {u, w} \notin d.E
  BY DEF Isolated, Neighbours
<1>. HIDE DEF s, I
<1>4. \A v \in d.V : Part(d, v) \cap (s.V \cup s.isolated) # {}
  BY <1>1, PartsAreVertices
<1>5. \A u \in s.isolated \ d.isolated, w \in s.V \cup (s.isolated \ d.isolated) :
        {u, w} \notin d.E
  BY <1>1, <1>3
<1>6. Descends(d, s)
  BY <1>1, <1>2, <1>4, <1>5 DEF Descends
<1>. QED  BY <1>1, <1>6 DEF s

(* So does step 4, which sets flags only: trivial is an instance of one
   P-part. *)
LEMMA Step4Descends ==
  ASSUME NEW d, Sound(d)
  PROVE  /\ Descends(d, Step4(d))
         /\ Step4(d).hasTrivialSolution <=> d.hasTrivialSolution \/ Len(Step4(d).P) = 1
<1> DEFINE s == Step4(d)
<1>1. /\ s.V = d.V /\ s.isolated = d.isolated /\ s.isGCP = d.isGCP
      /\ s.P = d.P
      /\ s.isInfeasible = d.isInfeasible
      /\ s.hasTrivialSolution = (d.hasTrivialSolution \/ Len(d.P) = 1)
  BY DEF Step4, Sound, Fields
<1>2. Reduces(d, s)
  BY Step4Reduces
<1>. HIDE DEF s
<1>3. \A v \in d.V : Part(d, v) \cap (s.V \cup s.isolated) # {}
  BY <1>1, PartsAreVertices
<1>4. Descends(d, s)
  BY <1>1, <1>2, <1>3 DEF Descends
<1>5. s.hasTrivialSolution <=> d.hasTrivialSolution \/ Len(s.P) = 1
  BY <1>1
<1>. QED  BY <1>4, <1>5 DEF s

(* So it is with the whole preprocessing; the trivial solution it reports  *)
(* is one vertex of the last P-part.                                       *)
LEMMA PreprocessingDescends ==
  ASSUME NEW d, Sound(d), NEW clique \in BOOLEAN
  PROVE  LET r == Preprocessed(d, clique) IN
         /\ Descends(d, r)
         /\ r.hasTrivialSolution <=> d.hasTrivialSolution \/ Len(r.P) = 1
<1> DEFINE a == IF clique THEN Step1(d) ELSE d
           b == Step2(a)
           c == Step3(b)
<1>0. Restricts(d, d)
  BY RestrictsItself
<1>1. Descends(d, a) /\ Sound(a) /\ a.hasTrivialSolution = d.hasTrivialSolution
  BY <1>0, RestrictionDescends, Step1Completes, Step1Descends DEF Reduces
<1>2. Preprocessed(d, clique) = Step4(c)
  BY DEF Reduced, Preprocessed
<1>. HIDE DEF a
<1>3. Descends(a, b) /\ Sound(b) /\ b.hasTrivialSolution = a.hasTrivialSolution
  BY <1>1, Step2Settles, RestrictionDescends DEF Restricts, Reduces
<1>. HIDE DEF b
<1>4. Descends(b, c) /\ Sound(c) /\ c.hasTrivialSolution = b.hasTrivialSolution
  BY <1>3, Step3Descends DEF Descends, Reduces
<1>. HIDE DEF c
<1>5. /\ Descends(c, Step4(c))
      /\ Step4(c).hasTrivialSolution <=> c.hasTrivialSolution \/ Len(Step4(c).P) = 1
  BY <1>4, Step4Descends
<1>6. Descends(d, b)
  BY <1>1, <1>3, DescendsTransitive
<1>7. Descends(d, c)
  BY <1>4, <1>6, DescendsTransitive
<1>8. Descends(d, Step4(c))
  BY <1>5, <1>7, DescendsTransitive
<1>. QED  BY <1>1, <1>2, <1>3, <1>4, <1>5, <1>8

(* Where the P-parts are single vertices, preprocessing leaves no edge     *)
(* inside a Q-part.                                                        *)
LoopFree(d) == \A u \in d.V : \A w \in QPart(d, u) : {u, w} \notin d.E

(* When the P-parts are single vertices, preprocessing leaves no Q-part with
   an edge inside. *)
LEMMA PreprocessingLoopFree ==
  ASSUME NEW d, Sound(d), NEW clique \in BOOLEAN,
         \A v \in d.V : Part(d, v) = {v}
  PROVE  LoopFree(Preprocessed(d, clique))
<1> DEFINE a == IF clique THEN Step1(d) ELSE d
           b == Step2(a)
           c == Step3(b)
<1>1. Reduces(d, a) /\ Sound(a)
  BY Step1Completes, ReducesItself DEF Reduces
<1>2. Preprocessed(d, clique) = Step4(c)
  BY DEF Reduced, Preprocessed
<1>. HIDE DEF a
<1>3. Reduces(a, b) /\ Sound(b) /\ Forced(b) = {}
  BY <1>1, Step2Settles DEF Restricts, Reduces
<1>4. Reduces(d, b)
  BY <1>1, <1>3, ReducesTransitive
<1>. HIDE DEF b
<1>5. ASSUME NEW u \in b.V, NEW w \in QPart(b, u), {u, w} \in b.E
      PROVE  FALSE
  <2>1. Part(b, u) \subseteq {u} /\ u \in Part(b, u)
    BY <1>3, <1>4, PartsAreVertices DEF Reduces
  <2> DEFINE i == b.vertex2Ppart[u]
  <2>2. i \in DOMAIN b.P /\ b.P[i] = {u}
    <3>1. b.P \in Seq(SUBSET b.V) /\ i \in 1 .. Len(b.P)
      BY <1>3 DEF Sound, Aligned
    <3>2. DOMAIN b.P = 1 .. Len(b.P)
      BY <3>1, LenProperties
    <3>. QED  BY <2>1, <3>1, <3>2 DEF Part
  <2>3. w \in b.V /\ b.vertex2Qpart[w] = b.vertex2Qpart[u]
    <3>1. QPart(b, u) \subseteq b.V
      BY <1>3, PartsAreVertices
    <3>2. w \in b.V
      BY <3>1
    <3>3. b.vertex2Qpart[u] \in 1 .. Len(b.Q)
      BY <1>3 DEF Sound, Aligned
    <3>4. \A j \in 1 .. Len(b.Q) : w \in b.Q[j] <=> b.vertex2Qpart[w] = j
      BY <1>3, <3>2 DEF Sound, Aligned
    <3>5. w \in b.Q[b.vertex2Qpart[u]]
      BY DEF QPart
    <3>. QED  BY <3>2, <3>3, <3>4, <3>5
  <2>. HIDE DEF i
  <2>4. w \in Conflicting(b, i)
    BY <1>5, <2>2, <2>3 DEF Conflicting, Neighbours
  <2>5. Cardinality(b.P[i]) = 1
    BY <2>2, FS_Singleton
  <2>. QED  BY <1>3, <2>2, <2>4, <2>5 DEF Forced
<1>6. /\ c.V \subseteq b.V /\ c.E \subseteq b.E
      /\ \A v \in c.V : QPart(c, v) = QPart(b, v) \cap c.V
  BY <1>3, Step3Saves DEF Restricts, Reduces
<1>7. Step4(c).V = c.V /\ Step4(c).E = c.E /\ \A v : QPart(Step4(c), v) = QPart(c, v)
  <2>1. Sound(c)
    BY <1>3, Step3Reduces DEF Reduces
  <2>. HIDE DEF c
  <2>2. /\ Step4(c).V = c.V /\ Step4(c).E = c.E /\ Step4(c).Q = c.Q
        /\ Step4(c).vertex2Qpart = c.vertex2Qpart
    BY <2>1 DEF Step4, Sound, Fields
  <2>. QED  BY <2>2 DEF QPart
<1>. HIDE DEF c
<1>. QED  BY <1>2, <1>5, <1>6, <1>7 DEF LoopFree

-----------------------------------------------------------------------------
(* The path from the input to a node.                                      *)

Root == DPCPInst(input)

(* The solutions of d are those that the vertices A of R leave, of which   *)
(* preprocessing has taken some.                                           *)
Faithful(R, A, d) ==
  \A W \in SUBSET d.V, k \in Nat \ {0} :
    Solves(R, W \cup (A \ d.V), k) <=> Solvable(d, W, k)

TrivialIsSingle ==
  dpcp.hasTrivialSolution => phase = "node" /\ Len(dpcp.P) = 1

NoLoops ==
  (phase = "node" /\ caller.solver = "byp" /\ caller.preprocessing /\ dpcp.isGCP)
    => LoopFree(dpcp)

PathInv ==
  /\ IInv
  /\ dpcp.V \subseteq alive
  /\ Descends(Root, dpcp)
  /\ Faithful(Root, alive, dpcp)
  /\ TrivialIsSingle
  /\ NoLoops

(* An instance that keeps the solutions of a faithful one is faithful. *)
LEMMA FaithfulKept ==
  ASSUME NEW R, NEW A, NEW d, NEW r, Faithful(R, A, d), Keeps(d, r),
         r.V \subseteq d.V, d.V \subseteq A
  PROVE  Faithful(R, A, r)
<1>1. SUFFICES ASSUME NEW W \in SUBSET r.V, NEW k \in Nat \ {0}
               PROVE  Solves(R, W \cup (A \ r.V), k) <=> Solvable(r, W, k)
  BY DEF Faithful
<1> DEFINE X == W \cup (d.V \ r.V)
<1>2. X \in SUBSET d.V /\ X \cup (A \ d.V) = W \cup (A \ r.V)
  OBVIOUS
<1>3. Solvable(d, X, k) <=> Solvable(r, W, k)
  BY DEF Keeps
<1>. HIDE DEF X
<1>4. Solves(R, X \cup (A \ d.V), k) <=> Solvable(d, X, k)
  BY <1>2 DEF Faithful
<1>. QED  BY <1>2, <1>3, <1>4

(* What a decision on v takes away from the vertices of R. *)
Taken(R, v, side) == IF side = "left" THEN Part(R, v) \ {v} ELSE {v}

(* A decision takes the same solutions from the instance of the node as    *)
(* from the input: a solution with another vertex of the P-part of v,      *)
(* which preprocessing has removed, would be one without v at the node.    *)
LEMMA DecisionFaithful ==
  ASSUME NEW R, NEW A, NEW d, Sound(R), Sound(d), Reduces(R, d),
         d.V \subseteq A, A \subseteq R.V, Faithful(R, A, d),
         NEW v \in d.V, NEW side \in {"left", "right"}
  PROVE  /\ Restricts(d, Decided(d, v, side))
         /\ Decided(d, v, side).V = d.V \ Taken(d, v, side)
         /\ Decided(d, v, side).V \subseteq A \ Taken(R, v, side)
         /\ Faithful(R, A \ Taken(R, v, side), Decided(d, v, side))
<1> DEFINE e == Decided(d, v, side)
           T == Taken(R, v, side)
           B == A \ T
<1>1. /\ d.V \subseteq R.V /\ v \in R.V
      /\ Part(d, v) = Part(R, v) \cap d.V
      /\ v \in Part(d, v) /\ Part(R, v) \subseteq R.V /\ v \in Part(R, v)
      /\ Part(d, v) \subseteq d.V
  BY PartsAreVertices DEF Reduces
<1>2. /\ Restricts(d, e) /\ e.V = d.V \ Taken(d, v, side)
      /\ e.V = d.V \ T
  <2>1. CASE side = "left"
    <3> DEFINE S == Part(d, v) \ {v}
    <3>1. S \in SUBSET d.V
      BY <1>1
    <3>2. e = RemoveAll(d, S)
      BY <2>1 DEF Decided, PreselectVertex, Part
    <3>3. Restricts(d, RemoveAll(d, S)) /\ RemoveAll(d, S).V = d.V \ S
      <4>. HIDE DEF S
      <4>. QED  BY <3>1, RemoveAllRestricts
    <3>4. Taken(d, v, side) = S /\ d.V \ S = d.V \ T
      BY <1>1, <2>1 DEF Taken
    <3>. QED  BY <3>2, <3>3, <3>4
  <2>2. CASE side = "right"
    <3>1. e = RemoveVertex(d, v) /\ T = {v} /\ Taken(d, v, side) = {v}
      BY <2>2 DEF Decided, ForbidVertex, Taken
    <3>2. Restricts(d, RemoveVertex(d, v)) /\ RemoveVertex(d, v).V = d.V \ {v}
      BY RemoveVertexRestricts
    <3>. QED  BY <3>1, <3>2
  <2>. QED  BY <2>1, <2>2
<1>. HIDE DEF e
<1>3. SUFFICES ASSUME NEW W \in SUBSET e.V, NEW k \in Nat \ {0}
               PROVE  Solves(R, W \cup (B \ e.V), k) <=> Solvable(e, W, k)
  BY <1>2 DEF Faithful, e
<1>4. Solvable(e, W, k) <=> Solvable(d, W, k)
  BY <1>2, RestrictionSolves
<1>5. Solvable(d, W, k) <=> Solves(R, W \cup (A \ d.V), k)
  BY <1>2 DEF Faithful
<1>6. B \ e.V \subseteq A \ d.V
  BY <1>2
<1>7. ASSUME Solves(R, W \cup (B \ e.V), k)
      PROVE  Solves(R, W \cup (A \ d.V), k)
  <2>1. W \cup (B \ e.V) \subseteq W \cup (A \ d.V)
    BY <1>6
  <2>. QED  BY <1>7, <2>1, SolvesMore
<1>8. ASSUME Solves(R, W \cup (A \ d.V), k)
      PROVE  Solves(R, W \cup (B \ e.V), k)
  <2>1. CASE side = "right"
    <3>1. A \ d.V = B \ e.V
      BY <1>1, <1>2, <2>1 DEF Taken
    <3>. QED  BY <1>8, <3>1
  <2>2. CASE side = "left"
    <3>1. T = Part(R, v) \ {v}
      BY <2>2 DEF Taken
    <3>2. PICK S \in SUBSET (W \cup (A \ d.V)) :
            \E f \in [S -> 1 .. k] : Solution(R, S, f, k)
      BY <1>8 DEF Solves
    <3>3. PICK f \in [S -> 1 .. k] : Solution(R, S, f, k)
      BY <3>2
    <3>4. PICK t \in S : Part(R, v) \cap S = {t}
      BY <1>1, <3>3 DEF Solution
    <3>5. t = v
      <4>1. SUFFICES ASSUME t # v PROVE FALSE
        OBVIOUS
      <4> DEFINE X == W \ {v}
      <4>2. S \in SUBSET (X \cup (A \ d.V))
        BY <1>1, <3>4, <4>1
      <4>3. Solves(R, X \cup (A \ d.V), k)
        BY <3>3, <4>2 DEF Solves
      <4>4. X \in SUBSET d.V /\ Part(d, v) \cap X = {}
        BY <1>1, <1>2, <3>1
      <4>. HIDE DEF X
      <4>5. Solves(d, X, k)
        BY <4>3, <4>4 DEF Faithful, Solvable
      <4>6. PICK Y \in SUBSET X : \E g \in [Y -> 1 .. k] : Solution(d, Y, g, k)
        BY <4>5 DEF Solves
      <4>7. \E s \in Y : Part(d, v) \cap Y = {s}
        BY <4>6 DEF Solution
      <4>. QED  BY <4>4, <4>6, <4>7
    <3>6. S \in SUBSET (W \cup (B \ e.V))
      <4>1. S \cap T = {}
        BY <3>1, <3>4, <3>5
      <4>. QED  BY <1>2, <3>2, <4>1
    <3>. QED  BY <3>3, <3>6 DEF Solves
  <2>. QED  BY <2>1, <2>2
<1>. QED  BY <1>4, <1>5, <1>7, <1>8

(* What the input is as an instance. *)
LEMMA RootIs ==
  ASSUME input \in Inputs
  PROVE  /\ Sound(Root) /\ Root.V = input.V /\ Root.E = input.E
         /\ Root.P = input.P /\ Root.Q = input.Q
         /\ Root.isolated = {} /\ ~Root.isInfeasible /\ ~Root.hasTrivialSolution
         /\ Root.isGCP = IsGCP(input.P)
         /\ Cardinality(Root.V) < Infinity
BY InputIsSound, DpcpAssumption DEF Root

(* The vertices that a decision takes from the input are those that the
   definition of Taken names. *)
LEMMA TakenAwayIsTaken ==
  ASSUME input \in Inputs, NEW v \in input.V, NEW side
  PROVE  TakenAway(v, side) = Taken(Root, v, side)
<1>1. Sound(Root) /\ v \in Root.V /\ Root.P = input.P
  BY RootIs
<1> DEFINE i == Root.vertex2Ppart[v]
<1>2. /\ i \in 1 .. Len(Root.P) /\ DOMAIN Root.P = 1 .. Len(Root.P)
      /\ \A j \in 1 .. Len(Root.P) : v \in Root.P[j] <=> i = j
  BY <1>1, LenProperties DEF Sound, Aligned
<1>. HIDE DEF i
<1>3. {j \in DOMAIN input.P : v \in input.P[j]} = {i}
  BY <1>1, <1>2
<1>4. UNION {input.P[j] : j \in {i}} = Root.P[i]
  BY <1>1
<1>. QED  BY <1>3, <1>4 DEF TakenAway, Taken, Part, i

(* What a son makes of the decision. *)
LEMMA SonFollows ==
  ASSUME PathInv, NEW v \in dpcp.V, NEW side \in {"left", "right"}, Branching(v)
  PROVE  LET e == Decided(dpcp, v, side)
             r == Son(dpcp, v, side)
         IN  /\ Restricts(dpcp, e) /\ Sound(e)
             /\ Keeps(e, r) /\ Descends(e, r)
             /\ r.hasTrivialSolution => Len(r.P) = 1
<1> DEFINE e == Decided(dpcp, v, side)
           r == Son(dpcp, v, side)
<1>1. Sound(dpcp) /\ Sound(Root) /\ Reduces(Root, dpcp) /\ ~dpcp.hasTrivialSolution
      /\ alive \subseteq Root.V
  BY RootIs DEF PathInv, IInv, Branching, Descends
<1>2. Restricts(dpcp, e)
  BY <1>1, DecisionFaithful DEF PathInv
<1>3. Sound(e) /\ ~e.hasTrivialSolution /\ Reduces(dpcp, e)
  BY <1>1, <1>2 DEF Restricts, Reduces
<1>4. r = IF caller.preprocessing THEN Preprocessed(e, FALSE) ELSE e
  BY DEF Son
<1>. HIDE DEF e, r
<1>5. CASE ~caller.preprocessing
  BY <1>2, <1>3, <1>4, <1>5, KeepsItself, RestrictsItself, RestrictionDescends DEF e, r
<1>6. CASE caller.preprocessing
  <2>1. Cliques(dpcp)
    BY <1>6 DEF PathInv, IInv, Completed, Branching
  <2>2. Cliques(e)
    BY <1>3, <2>1, ReductionKeepsCliques
  <2>3. Step3Assertion(Reduced(e, FALSE))
    BY <1>3, <2>2, PreprocessingReduces
  <2>4. r = Preprocessed(e, FALSE)
    BY <1>4, <1>6
  <2>5. Keeps(e, r)
    BY <1>3, <2>3, <2>4, PreprocessingKeeps
  <2>6. Descends(e, r) /\ (r.hasTrivialSolution => Len(r.P) = 1)
    BY <1>3, <2>4, PreprocessingDescends
  <2>. QED  BY <1>2, <1>3, <2>5, <2>6 DEF e, r
<1>. QED  BY <1>5, <1>6

(* At the root the instance is the input. *)
LEMMA PathInit == Init => PathInv
<1>1. SUFFICES ASSUME Init PROVE PathInv
  OBVIOUS
<1>2. IInv /\ input \in Inputs /\ dpcp = Root /\ alive = input.V
  BY <1>1, InitHolds DEF Init, Root, IInv
<1>3. Sound(Root) /\ Root.V = input.V /\ ~Root.isInfeasible /\ ~Root.hasTrivialSolution
  BY <1>2, RootIs
<1>4. Descends(Root, Root)
  BY <1>3, RestrictsItself, RestrictionDescends
<1>5. Faithful(Root, alive, dpcp)
  <2>1. \A W : W \cup (alive \ dpcp.V) = W
    BY <1>2, <1>3
  <2>. QED  BY <1>2, <1>3, <2>1 DEF Faithful, Solvable
<1>6. TrivialIsSingle /\ NoLoops
  BY <1>1, <1>2, <1>3 DEF TrivialIsSingle, NoLoops, Init
<1>. QED  BY <1>2, <1>3, <1>4, <1>5, <1>6 DEF PathInv

(* Where the input has single P-parts, the instances of all nodes have.    *)
LEMMA SingleParts ==
  ASSUME PathInv, dpcp.isGCP
  PROVE  \A v \in dpcp.V : Part(dpcp, v) = {v}
<1>1. /\ Sound(Root) /\ Sound(dpcp) /\ Root.P = input.P /\ IsGCP(input.P)
      /\ IsFiniteSet(Root.V)
  BY RootIs DEF PathInv, IInv, Descends, Sound
<1>2. TAKE v \in dpcp.V
<1>3. v \in Root.V /\ Part(dpcp, v) = Part(Root, v) \cap dpcp.V
  BY DEF PathInv, Descends, Reduces
<1>4. v \in Part(Root, v) /\ Part(Root, v) \subseteq Root.V
  BY <1>1, <1>3, PartsAreVertices
<1>5. IsFiniteSet(Part(Root, v)) /\ Cardinality(Part(Root, v)) \in Nat
  BY <1>1, <1>4, FS_Subset, FS_CardinalityType
<1>6. Cardinality(Part(Root, v)) <= 1
  <2>1. Root.P \in Seq(SUBSET Root.V) /\ Root.vertex2Ppart[v] \in 1 .. Len(Root.P)
    BY <1>1, <1>3 DEF Sound, Aligned
  <2>2. DOMAIN Root.P = 1 .. Len(Root.P)
    BY <2>1, LenProperties
  <2>3. Cardinality(Root.P[Root.vertex2Ppart[v]]) <= 1
    BY <1>1, <2>1, <2>2 DEF IsGCP
  <2>. QED  BY <2>3 DEF Part
<1>7. Cardinality(Part(Root, v)) = 1
  <2>1. Cardinality(Part(Root, v)) # 0
    BY <1>4, <1>5, FS_EmptySet
  <2>. QED  BY <1>5, <1>6, <2>1
<1>8. PICK x \in Part(Root, v) : Part(Root, v) = {x}
  BY <1>5, <1>7, OneElement
<1>. QED  BY <1>3, <1>4, <1>8

(* Preparing the instance, with or without preprocessing, keeps the
   invariant of the path. *)
LEMMA PathPrepare ==
  ASSUME PathInv, Prepare
  PROVE  PathInv'
<1> DEFINE clique == caller.solver = "byp"
<1>1. /\ IInv' /\ Root' = Root /\ alive' = alive /\ caller' = caller /\ phase' = "node"
      /\ Sound(Root) /\ Sound(dpcp) /\ clique \in BOOLEAN /\ ~dpcp.hasTrivialSolution
  BY PreparePreserves, RootIs DEF PathInv, IInv, Prepare, Root, TrivialIsSingle
<1>2. CASE MustPreprocess
  <2>1. dpcp' = Preprocessed(dpcp, clique) /\ Step3Assertion(Reduced(dpcp, clique))
    BY <1>2 DEF Prepare
  <2>. HIDE DEF clique
  <2>2. Keeps(dpcp, dpcp')
    BY <1>1, <2>1, PreprocessingKeeps
  <2>3. /\ Descends(dpcp, dpcp')
        /\ dpcp'.hasTrivialSolution => Len(dpcp'.P) = 1
    BY <1>1, <2>1, PreprocessingDescends
  <2>4. dpcp'.V \subseteq dpcp.V /\ dpcp'.isGCP = dpcp.isGCP
    BY <2>3 DEF Descends, Reduces
  <2>5. Faithful(Root, alive, dpcp')
    BY <2>2, <2>4, FaithfulKept DEF PathInv
  <2>6. Descends(Root, dpcp')
    BY <1>1, <2>3, DescendsTransitive DEF PathInv
  <2>7. dpcp'.isGCP => LoopFree(dpcp')
    <3>1. SUFFICES ASSUME dpcp.isGCP PROVE LoopFree(dpcp')
      BY <2>4
    <3>2. \A v \in dpcp.V : Part(dpcp, v) = {v}
      BY <3>1, SingleParts
    <3>. QED  BY <1>1, <2>1, <3>2, PreprocessingLoopFree
  <2>8. TrivialIsSingle' /\ NoLoops'
    BY <1>1, <2>3, <2>7 DEF TrivialIsSingle, NoLoops
  <2>9. dpcp'.V \subseteq alive
    BY <2>4 DEF PathInv
  <2>. QED  BY <1>1, <2>5, <2>6, <2>8, <2>9 DEF PathInv
<1>3. CASE ~MustPreprocess
  <2>1. dpcp' = dpcp /\ ~caller.preprocessing
    BY <1>3 DEF Prepare, MustPreprocess
  <2>2. TrivialIsSingle' /\ NoLoops'
    BY <1>1, <2>1 DEF TrivialIsSingle, NoLoops
  <2>. QED  BY <1>1, <2>1, <2>2 DEF PathInv
<1>. QED  BY <1>2, <1>3

(* So does the decision for either son. *)
LEMMA PathBranch ==
  ASSUME PathInv, NEW v \in dpcp.V, NEW side \in {"left", "right"}, Branch(v, side)
  PROVE  PathInv'
<1> DEFINE e == Decided(dpcp, v, side)
           T == Taken(Root, v, side)
<1>1. Branching(v) /\ dpcp' = Son(dpcp, v, side) /\ alive' = alive \ TakenAway(v, side)
      /\ Root' = Root /\ caller' = caller /\ phase' = phase
  BY DEF Branch, Root
<1>2. /\ IInv' /\ input \in Inputs /\ v \in input.V /\ phase = "node" /\ ~dpcp.isGCP
      /\ Sound(dpcp) /\ Sound(Root) /\ Reduces(Root, dpcp)
      /\ dpcp.V \subseteq alive /\ alive \subseteq Root.V
  BY <1>1, BranchPreserves, RootIs DEF PathInv, IInv, Descends, Branching
<1>3. alive' = alive \ T
  BY <1>1, <1>2, TakenAwayIsTaken
<1>4. /\ Restricts(dpcp, e) /\ e.V \subseteq alive \ T
      /\ Faithful(Root, alive \ T, e)
  BY <1>2, DecisionFaithful DEF PathInv
<1>5. /\ Keeps(e, dpcp') /\ Descends(e, dpcp')
      /\ dpcp'.hasTrivialSolution => Len(dpcp'.P) = 1
  BY <1>1, SonFollows
<1>. HIDE DEF e, T
<1>6. dpcp'.V \subseteq e.V
  BY <1>5 DEF Descends, Reduces
<1>7. Faithful(Root, alive', dpcp')
  BY <1>3, <1>4, <1>5, <1>6, FaithfulKept
<1>8. Descends(dpcp, dpcp')
  BY <1>2, <1>4, <1>5, RestrictionDescends, DescendsTransitive
<1>9. Descends(Root, dpcp') /\ ~dpcp'.isGCP
  BY <1>2, <1>8, DescendsTransitive DEF PathInv, Descends
<1>10. TrivialIsSingle' /\ NoLoops'
  BY <1>1, <1>2, <1>5, <1>9 DEF TrivialIsSingle, NoLoops
<1>11. dpcp'.V \subseteq alive'
  BY <1>3, <1>4, <1>6
<1>. QED  BY <1>1, <1>2, <1>7, <1>9, <1>10, <1>11 DEF PathInv

(* A step of the path keeps the invariant. *)
LEMMA PathStep ==
  ASSUME PathInv, [Next]_vars
  PROVE  PathInv'
<1>1. CASE UNCHANGED vars
  BY <1>1 DEF vars, PathInv, IInv, Completed, TrivialIsSingle, NoLoops, Root
<1>2. CASE Prepare
  BY <1>2, PathPrepare
<1>3. CASE PrepareAborts
  <2>1. /\ UNCHANGED <<input, caller, dpcp, alive>> /\ phase = "read"
        /\ phase' = "aborted" /\ IInv'
    BY <1>3, AbortPreserves DEF PrepareAborts, PathInv
  <2>2. ~dpcp.hasTrivialSolution
    BY <2>1 DEF PathInv, TrivialIsSingle
  <2>. QED  BY <2>1, <2>2 DEF PathInv, TrivialIsSingle, NoLoops, Root
<1>4. CASE BranchLeft \/ BranchRight
  BY <1>4, PathBranch DEF BranchLeft, BranchRight
<1>. QED  BY <1>1, <1>2, <1>3, <1>4 DEF Next

(* Every node of every path keeps what its decisions leave of the input.   *)
THEOREM PathFaithful == Spec => []PathInv
<1>1. PathInv /\ [Next]_vars => PathInv'
  BY PathStep
<1>. QED  BY PathInit, <1>1, PTL DEF Spec

-----------------------------------------------------------------------------
(* What a node is worth.                                                   *)

(* The worth of an instance; where only saved isolated vertices remain it  *)
(* is the one colour that they need.                                       *)
Worth(d) == IF d.P = <<>> /\ ~d.isInfeasible THEN 1 ELSE NodeValue(d)

(* An instance without P-parts has no vertices, and conversely. *)
LEMMA NoPartsNoVertices ==
  ASSUME NEW d, Sound(d)
  PROVE  d.P = <<>> <=> d.V = {}
<1>1. d.P \in Seq(SUBSET d.V) /\ Len(d.P) \in Nat /\ DOMAIN d.P = 1 .. Len(d.P)
  BY LenProperties DEF Sound, Aligned
<1>2. d.P = <<>> <=> Len(d.P) = 0
  BY <1>1, EmptySeq
<1>3. ASSUME NEW v \in d.V PROVE Len(d.P) # 0
  <2>1. d.vertex2Ppart[v] \in 1 .. Len(d.P)
    BY DEF Sound, Aligned
  <2>. QED  BY <1>1, <2>1
<1>4. ASSUME Len(d.P) # 0 PROVE d.V # {}
  <2>1. 1 \in 1 .. Len(d.P)
    BY <1>1, <1>4
  <2>2. d.P[1] \in SUBSET d.V /\ d.P[1] # {}
    BY <1>1, <2>1, ElementOfSeq DEF Sound, Aligned
  <2>. QED  BY <2>2
<1>. QED  BY <1>2, <1>3, <1>4

(* Without colours nothing but the empty instance is solved. *)
LEMMA NoColoursNoSolution ==
  ASSUME NEW d, NEW W, d.V # {}
  PROVE  ~Solves(d, W, 0)
<1>1. SUFFICES ASSUME NEW S, NEW f, Solution(d, S, f, 0) PROVE FALSE
  BY DEF Solves
<1>2. PICK v \in d.V : TRUE
  OBVIOUS
<1>3. PICK s \in S : TRUE
  BY <1>1, <1>2 DEF Solution
<1>4. f[s] \in 1 .. 0
  BY <1>1, <1>3 DEF Solution, Proper
<1>. QED  BY <1>4

(* The flags and the optimum tell what the solutions of an instance need.  *)
LEMMA WorthIs ==
  ASSUME NEW d, Sound(d), Cardinality(d.V) < Infinity,
         d.hasTrivialSolution => Len(d.P) = 1
  PROVE  /\ Worth(d) \in 1 .. Infinity
         /\ \A k \in Nat \ {0} : k < Infinity => (Worth(d) <= k <=> Solvable(d, d.V, k))
<1>1. Infinity \in Nat /\ Infinity >= 1
  BY FS_CardinalityType, DpcpAssumption DEF Sound
<1>2. CASE d.isInfeasible
  BY <1>1, <1>2 DEF Worth, NodeValue, Solvable
<1>3. CASE ~d.isInfeasible /\ d.P = <<>>
  <2>1. d.V = {}
    BY <1>3, NoPartsNoVertices
  <2>2. ASSUME NEW k \in Nat \ {0} PROVE Solves(d, d.V, k)
    <3> DEFINE f == [x \in {} |-> 1]
    <3>1. f \in [{} -> 1 .. k] /\ {} \in SUBSET d.V
      OBVIOUS
    <3>2. Proper(d, {}, f, k)
      BY <3>1 DEF Proper
    <3>3. Solution(d, {}, f, k)
      BY <2>1, <3>2 DEF Solution
    <3>. HIDE DEF f
    <3>. QED  BY <3>1, <3>3 DEF Solves
  <2>. QED  BY <1>1, <1>3, <2>2 DEF Worth, Solvable
<1>4. CASE ~d.isInfeasible /\ d.P # <<>> /\ d.hasTrivialSolution
  <2>1. /\ d.P \in Seq(SUBSET d.V) /\ Len(d.P) = 1
        /\ \A v \in d.V : d.vertex2Ppart[v] \in 1 .. Len(d.P)
    BY <1>4 DEF Sound, Aligned
  <2>2. \A v \in d.V : Part(d, v) = d.P[1]
    BY <2>1 DEF Part
  <2>3. PICK s \in d.V : s \in d.P[1]
    <3>1. PICK s \in d.V : TRUE
      BY <1>4, NoPartsNoVertices
    <3>. QED  BY <2>2, <3>1, PartsAreVertices
  <2>4. \A e \in d.E : e # {s}
    <3>1. \A e \in d.E : Cardinality(e) = 2
      BY DEF Sound
    <3>2. Cardinality({s}) = 1
      BY FS_Singleton
    <3>. QED  BY <3>1, <3>2
  <2>5. ASSUME NEW k \in Nat \ {0} PROVE Solves(d, d.V, k)
    <3> DEFINE f == [x \in {s} |-> 1]
    <3>1. f \in [{s} -> 1 .. k] /\ {s} \in SUBSET d.V
      OBVIOUS
    <3>2. \A u, w \in {s} : {u, w} \notin d.E /\ f[u] = f[w]
      BY <2>4
    <3>. HIDE DEF f
    <3>3. Proper(d, {s}, f, k)
      BY <3>1, <3>2 DEF Proper
    <3>4. \A v \in d.V : \E t \in {s} : Part(d, v) \cap {s} = {t}
      BY <2>2, <2>3
    <3>5. Solution(d, {s}, f, k)
      BY <3>1, <3>3, <3>4 DEF Solution
    <3>. QED  BY <3>1, <3>5 DEF Solves
  <2>. QED  BY <1>1, <1>4, <2>5 DEF Worth, NodeValue, Solvable
<1>5. CASE ~d.isInfeasible /\ d.P # <<>> /\ ~d.hasTrivialSolution
  <2>1. Worth(d) = OptimumIn(d, d.V)
    BY <1>5, OptimumIsOptimumIn DEF Worth, NodeValue
  <2>2. /\ OptimumIn(d, d.V) \in 0 .. Infinity
        /\ \A k \in Nat : k < Infinity => (OptimumIn(d, d.V) <= k <=> Solves(d, d.V, k))
    BY OptimumInIs
  <2>3. ~Solves(d, d.V, 0)
    BY <1>5, NoPartsNoVertices, NoColoursNoSolution
  <2>4. OptimumIn(d, d.V) # 0
    BY <1>1, <2>2, <2>3
  <2>. QED  BY <1>1, <1>5, <2>1, <2>2, <2>4 DEF Solvable
<1>. QED  BY <1>2, <1>3, <1>4, <1>5

(* What the decisions leave of the input. *)
LEMMA ReferenceIs ==
  ASSUME input \in Inputs, input.V # {}, alive \subseteq input.V
  PROVE  /\ Reference \in 1 .. Infinity
         /\ \A k \in Nat \ {0} : k < Infinity => (Reference <= k <=> Solves(Root, alive, k))
<1>1. /\ Sound(Root) /\ Root.V = input.V /\ Root.E = input.E
      /\ Root.P = input.P /\ Root.Q = input.Q /\ Cardinality(Root.V) < Infinity
  BY RootIs
<1>2. Selections(alive, input.E, {part \cap alive : part \in Range(input.P)}, Range(input.Q))
        = {T \in SUBSET alive : Selected(Root, T)}
  <2> DEFINE X == Selections(alive, input.E,
                             {part \cap alive : part \in Range(input.P)}, Range(input.Q))
             Y == Selections(Root.V, Root.E, Range(Root.P), Range(Root.Q))
  <2>1. \A S : S \in X <=>
          /\ S \in SUBSET alive
          /\ \A part \in Range(input.P) : Cardinality(S \cap (part \cap alive)) = 1
          /\ \A part \in Range(input.Q) : \A u, w \in S \cap part : {u, w} \notin input.E
    BY DEF Selections
  <2>2. \A S : S \in Y <=>
          /\ S \in SUBSET input.V
          /\ \A part \in Range(input.P) : Cardinality(S \cap part) = 1
          /\ \A part \in Range(input.Q) : \A u, w \in S \cap part : {u, w} \notin input.E
    BY <1>1 DEF Selections
  <2>3. \A S \in SUBSET alive : \A part : S \cap (part \cap alive) = S \cap part
    OBVIOUS
  <2>4. \A S \in Y : Selected(Root, S)
    BY <1>1, SelectionsAreSelected
  <2>5. \A S : Selected(Root, S) => S \in Y
    BY <1>1, SelectionsAreSelected
  <2>. HIDE DEF X, Y
  <2>6. \A S \in SUBSET alive : S \in X <=> S \in Y
    BY SMTT(60), <2>1, <2>2, <2>3
  <2>7. \A S \in X : S \in SUBSET alive
    BY <2>1
  <2>8. X = {T \in SUBSET alive : Selected(Root, T)}
    BY <2>4, <2>5, <2>6, <2>7
  <2>. QED  BY <2>8 DEF X
<1>3. Reference = OptimumIn(Root, alive)
  BY <1>1, <1>2 DEF Reference, Optimum, OptimumIn
<1>4. /\ OptimumIn(Root, alive) \in 0 .. Infinity
      /\ \A k \in Nat : k < Infinity =>
           (OptimumIn(Root, alive) <= k <=> Solves(Root, alive, k))
  BY <1>1, OptimumInIs
<1>5. ~Solves(Root, alive, 0)
  BY <1>1, NoColoursNoSolution
<1>6. Infinity \in Nat /\ Infinity > 0
  BY <1>1, FS_CardinalityType, DpcpAssumption DEF Sound
<1>7. OptimumIn(Root, alive) # 0
  BY <1>4, <1>5, <1>6
<1>. QED  BY <1>3, <1>4, <1>6, <1>7

(* Two values that allow the same numbers of colours are the same. *)
LEMMA SameNumbers ==
  ASSUME NEW n \in Nat, NEW a \in 1 .. n, NEW b \in 1 .. n,
         \A k \in Nat \ {0} : k < n => (a <= k <=> b <= k)
  PROVE  a = b
<1>1. a < b => FALSE
  <2>1. SUFFICES ASSUME a < b PROVE FALSE
    OBVIOUS
  <2>2. a \in Nat \ {0} /\ a < n /\ a <= a /\ ~(b <= a)
    BY <2>1
  <2>. QED  BY <2>2
<1>2. b < a => FALSE
  <2>1. SUFFICES ASSUME b < a PROVE FALSE
    OBVIOUS
  <2>2. b \in Nat \ {0} /\ b < n /\ b <= b /\ ~(a <= b)
    BY <2>1
  <2>. QED  BY <2>2
<1>. QED  BY <1>1, <1>2

(* The vertices of a node are few enough. *)
LEMMA NodeIsSmall ==
  ASSUME PathInv, NEW r, Reduces(dpcp, r)
  PROVE  /\ Sound(r) /\ Cardinality(r.V) < Infinity
         /\ Cardinality(r.V) \in Nat /\ Infinity \in Nat
<1>1. Sound(r) /\ IsFiniteSet(r.V) /\ Sound(Root) /\ IsFiniteSet(Root.V)
      /\ Cardinality(Root.V) < Infinity /\ r.V \subseteq Root.V
  BY RootIs DEF PathInv, IInv, Descends, Reduces, Sound
<1>2. /\ Cardinality(r.V) <= Cardinality(Root.V)
      /\ Cardinality(r.V) \in Nat /\ Cardinality(Root.V) \in Nat
  BY <1>1, FS_Subset, FS_CardinalityType
<1>. QED  BY <1>1, <1>2, DpcpAssumption

(* Whatever was preprocessed on the way, every node of the search is worth *)
(* what its branching decisions leave of the input: the reductions keep    *)
(* the optimum, and isInfeasible and hasTrivialSolution are right.         *)
THEOREM NodesAreExact ==
  ASSUME \A p \in Inputs : p.V # {}
  PROVE  Spec => []NodeIsExact
<1>1. PathInv => NodeIsExact
  <2>1. SUFFICES ASSUME PathInv, phase = "node" PROVE Worth(dpcp) = Reference
    BY DEF NodeIsExact, Worth
  <2>2. input \in Inputs /\ input.V # {} /\ alive \subseteq input.V /\ Sound(dpcp)
        /\ dpcp.V \subseteq alive
    BY <2>1 DEF PathInv, IInv
  <2>3. Cardinality(dpcp.V) < Infinity /\ Infinity \in Nat
    BY <2>1, <2>2, ReducesItself, NodeIsSmall
  <2>4. /\ Worth(dpcp) \in 1 .. Infinity
        /\ \A k \in Nat \ {0} : k < Infinity =>
             (Worth(dpcp) <= k <=> Solvable(dpcp, dpcp.V, k))
    BY <2>1, <2>2, <2>3, WorthIs DEF PathInv, TrivialIsSingle
  <2>5. /\ Reference \in 1 .. Infinity
        /\ \A k \in Nat \ {0} : k < Infinity =>
             (Reference <= k <=> Solves(Root, alive, k))
    BY <2>2, ReferenceIs
  <2>6. \A k \in Nat \ {0} : Solves(Root, alive, k) <=> Solvable(dpcp, dpcp.V, k)
    <3>1. dpcp.V \cup (alive \ dpcp.V) = alive
      BY <2>2
    <3>. QED  BY <2>1, <3>1 DEF PathInv, Faithful
  <2>. HIDE DEF Worth, Reference
  <2>. QED  BY <2>3, <2>4, <2>5, <2>6, SameNumbers
<1>. QED  BY PathFaithful, <1>1, PTL

(* Branching splits the colourings of every node: neither son is better,   *)
(* one is as good, and both have fewer undecided vertices.                 *)
THEOREM BranchingIsExact == Spec => []BranchingSplits
<1>1. ASSUME PathInv, NEW v \in dpcp.V, Branching(v)
      PROVE  Min({Worth(Son(dpcp, v, "left")), Worth(Son(dpcp, v, "right"))})
               = NodeValue(dpcp)
  <2> DEFINE s(side) == Son(dpcp, v, side)
             e(side) == Decided(dpcp, v, side)
  <2>1. /\ Sound(dpcp) /\ ~dpcp.hasTrivialSolution /\ dpcp.P # <<>>
        /\ v \in Part(dpcp, v) /\ Sound(Root) /\ Reduces(Root, dpcp)
        /\ alive \subseteq Root.V /\ dpcp.V \subseteq alive
    <3>1. Sound(dpcp)
      BY <1>1 DEF PathInv, IInv
    <3>2. dpcp.P # <<>>
      BY <3>1, NoPartsNoVertices
    <3>. QED  BY <1>1, <3>1, <3>2, PartsAreVertices, RootIs
              DEF Branching, PathInv, IInv, Descends
  <2>2. ASSUME NEW side \in {"left", "right"}
        PROVE  /\ Worth(s(side)) \in 1 .. Infinity
               /\ \A k \in Nat \ {0} : k < Infinity =>
                    (Worth(s(side)) <= k
                       <=> Solvable(dpcp, dpcp.V \ Taken(dpcp, v, side), k))
    <3>1. /\ Restricts(dpcp, e(side)) /\ Sound(e(side))
          /\ Keeps(e(side), s(side)) /\ Descends(e(side), s(side))
          /\ s(side).hasTrivialSolution => Len(s(side).P) = 1
      BY <1>1, SonFollows
    <3>2. e(side).V = dpcp.V \ Taken(dpcp, v, side)
      <4>1. Faithful(Root, alive, dpcp)
        BY <1>1 DEF PathInv
      <4>2. \A x \in {"left", "right"} :
              Decided(dpcp, v, x).V = dpcp.V \ Taken(dpcp, v, x)
        BY <2>1, <4>1, DecisionFaithful, ZenonT(60)
      <4>. QED  BY <4>2
    <3>. HIDE DEF s, e
    <3>3. Reduces(e(side), s(side)) /\ Reduces(dpcp, s(side))
      BY <3>1, ReducesTransitive DEF Descends, Restricts
    <3>4. Sound(s(side)) /\ Cardinality(s(side).V) < Infinity
      BY <1>1, <3>3, NodeIsSmall
    <3>5. /\ Worth(s(side)) \in 1 .. Infinity
          /\ \A k \in Nat \ {0} : k < Infinity =>
               (Worth(s(side)) <= k <=> Solvable(s(side), s(side).V, k))
      BY <3>1, <3>4, WorthIs
    <3>6. \A k \in Nat \ {0} : Solvable(s(side), s(side).V, k) <=> Solvable(e(side), e(side).V, k)
      <4>1. s(side).V \cup (e(side).V \ s(side).V) = e(side).V
        BY <3>3 DEF Reduces
      <4>. QED  BY <3>1, <4>1 DEF Keeps
    <3>7. \A k : Solvable(dpcp, e(side).V, k) <=> Solvable(e(side), e(side).V, k)
      BY <2>1, <3>1, RestrictionSolves
    <3>. QED  BY <3>2, <3>5, <3>6, <3>7
  <2>3. /\ Cardinality(dpcp.V) < Infinity /\ Infinity \in Nat
        /\ Worth(dpcp) = NodeValue(dpcp)
    BY <1>1, <2>1, ReducesItself, NodeIsSmall DEF Worth
  <2>4. /\ Worth(dpcp) \in 1 .. Infinity
        /\ \A k \in Nat \ {0} : k < Infinity =>
             (Worth(dpcp) <= k <=> Solvable(dpcp, dpcp.V, k))
    BY <2>1, <2>3, WorthIs
  <2>5. ASSUME NEW k \in Nat \ {0}
        PROVE  Solvable(dpcp, dpcp.V, k)
                 <=> \/ Solvable(dpcp, dpcp.V \ Taken(dpcp, v, "left"), k)
                     \/ Solvable(dpcp, dpcp.V \ Taken(dpcp, v, "right"), k)
    <3>1. /\ Taken(dpcp, v, "left") = Part(dpcp, v) \ {v}
          /\ Taken(dpcp, v, "right") = {v}
      BY DEF Taken
    <3>2. \A S, f : Solution(dpcp, S, f, k) =>
            \/ S \subseteq dpcp.V \ (Part(dpcp, v) \ {v})
            \/ S \subseteq dpcp.V \ {v}
      <4>1. SUFFICES ASSUME NEW S, NEW f, Solution(dpcp, S, f, k), v \in S
                     PROVE  S \subseteq dpcp.V \ (Part(dpcp, v) \ {v})
        BY DEF Solution
      <4>2. PICK t \in S : Part(dpcp, v) \cap S = {t}
        BY <1>1, <4>1 DEF Solution
      <4>3. S \subseteq dpcp.V
        BY <4>1 DEF Solution
      <4>. QED  BY <2>1, <4>1, <4>2, <4>3
    <3>3. \A X : X \subseteq dpcp.V =>
            (Solves(dpcp, X, k) <=>
               \E S \in SUBSET dpcp.V : \E f \in [S -> 1 .. k] :
                 Solution(dpcp, S, f, k) /\ S \subseteq X)
      BY DEF Solves
    <3>. QED  BY SMTT(60), <3>1, <3>2, <3>3 DEF Solvable
  <2> DEFINE l == Worth(s("left"))
             r == Worth(s("right"))
  <2>6. l \in 1 .. Infinity /\ r \in 1 .. Infinity
    BY <2>2
  <2>7. \A k \in Nat \ {0} : k < Infinity => (Worth(dpcp) <= k <=> l <= k \/ r <= k)
    BY <2>2, <2>4, <2>5
  <2>. HIDE DEF l, r
  <2>8. Min({l, r}) \in {l, r} /\ \A x \in {l, r} : Min({l, r}) <= x
    <3>1. {l, r} \in SUBSET Nat /\ {l, r} # {}
      BY <2>6
    <3>. QED  BY <3>1, MinIsLeast, Zenon
  <2> DEFINE m == Min({l, r})
  <2>9. m \in 1 .. Infinity /\ \A k \in Nat \ {0} : m <= k <=> l <= k \/ r <= k
    <3>1. m \in {l, r} /\ m <= l /\ m <= r
      BY <2>8
    <3>. HIDE DEF m
    <3>. QED  BY <2>6, <3>1
  <2>. HIDE DEF m
  <2>10. m = Worth(dpcp)
    BY <2>3, <2>4, <2>7, <2>9, SameNumbers
  <2>. QED  BY <2>3, <2>10 DEF m, l, r
<1>2. PathInv => BranchingSplits
  <2>1. PathInv => SonsAreSmaller
    BY SonsDecide DEF PathInv, IInv, SonsAreSmaller, Branching
  <2>. QED  BY <1>1, <2>1 DEF BranchingSplits, Worth
<1>. QED  BY PathFaithful, <1>2, PTL

-----------------------------------------------------------------------------
(* A colouring of a node is one of the input.                              *)

(* The colour of a saved vertex is looked up in its Q-part of the input.   *)
LEMMA LiftedIsExtended ==
  ASSUME PathInv, NEW f, DOMAIN f \subseteq dpcp.V
  PROVE  Lifted(f) = Extended(Root, f, dpcp.isolated)
<1>1. /\ Sound(Root) /\ Root.Q = input.Q
      /\ dpcp.V \subseteq Root.V /\ dpcp.isolated \subseteq Root.V
  BY RootIs DEF PathInv, IInv
<1>2. ASSUME NEW u \in dpcp.isolated
      PROVE  IsolatedColour(f, u) = Saved(Root, f, u)
  <2> DEFINE same == {w \in DOMAIN f : \E part \in Range(input.Q) : {u, w} \subseteq part}
             own == DOMAIN f \cap QPart(Root, u)
  <2>1. Range(input.Q) = {QPart(Root, v) : v \in Root.V}
    BY <1>1, RangesAreParts
  <2>2. u \in Root.V /\ u \in QPart(Root, u)
    BY <1>1, PartsAreVertices
  <2>3. \A v \in Root.V : u \in QPart(Root, v) => QPart(Root, u) = QPart(Root, v)
    BY <1>1, <2>2, PartsAreClasses
  <2>4. same = own
    BY <2>1, <2>2, <2>3
  <2>5. IsolatedColour(f, u) = IF same = {} THEN 1 ELSE f[CHOOSE w \in same : TRUE]
    BY DEF IsolatedColour
  <2>6. Saved(Root, f, u) = IF own = {} THEN 1 ELSE f[CHOOSE w \in own : TRUE]
    BY DEF Saved
  <2>. HIDE DEF same, own
  <2>. QED  BY <2>4, <2>5, <2>6
<1>. QED  BY <1>2 DEF Lifted, Extended

(* A colouring of a node with the saved vertices colours the input.        *)
LEMMA ProperLifts ==
  ASSUME PathInv, NEW S, Selected(dpcp, S), NEW k \in Nat \ {0},
         NEW f, Proper(dpcp, S, f, k)
  PROVE  Proper(Root, S \cup dpcp.isolated, Lifted(f), k)
<1>1. /\ Sound(Root) /\ Sound(dpcp) /\ Root.isolated = {}
      /\ Descends(Root, dpcp) /\ Reduces(Root, dpcp)
      /\ dpcp.V \subseteq Root.V /\ dpcp.isolated \subseteq Root.V
      /\ S \subseteq dpcp.V /\ DOMAIN f = S
  BY RootIs DEF PathInv, IInv, Descends, Selected, Proper
<1>2. Proper(Root, S, f, k)
  <2>1. /\ \A e \in Root.E : e \subseteq dpcp.V => e \in dpcp.E
        /\ \A v \in dpcp.V : QPart(dpcp, v) = QPart(Root, v) \cap dpcp.V
    BY <1>1 DEF Reduces
  <2>2. \A u, w \in S : {u, w} \subseteq dpcp.V
    BY <1>1
  <2>. QED  BY <1>1, <2>1, <2>2 DEF Proper
<1>3. \A u \in dpcp.isolated, w \in S \cup dpcp.isolated : {u, w} \notin Root.E
  BY <1>1 DEF Descends
<1>4. Proper(Root, S \cup dpcp.isolated, Extended(Root, f, dpcp.isolated), k)
  <2>1. S \in SUBSET Root.V /\ dpcp.isolated \in SUBSET Root.V
    BY <1>1
  <2>. QED  BY <1>1, <1>2, <1>3, <2>1, ExtensionColours
<1>. QED  BY <1>1, <1>4, LiftedIsExtended

(* The selection and the saved vertices meet every P-part of the input.    *)
LEMMA SelectionCovers ==
  ASSUME PathInv, ~dpcp.isInfeasible, NEW S, Selected(dpcp, S)
  PROVE  \A part \in Range(input.P) : (S \cup dpcp.isolated) \cap part # {}
<1>1. /\ Sound(Root) /\ Root.P = input.P /\ Reduces(Root, dpcp)
      /\ dpcp.V \subseteq Root.V /\ dpcp.isolated \subseteq Root.V
      /\ \A v \in Root.V : Part(Root, v) \cap (dpcp.V \cup dpcp.isolated) # {}
  BY RootIs DEF PathInv, IInv, Descends
<1>2. TAKE part \in Range(input.P)
<1>3. PICK v \in Root.V : part = Part(Root, v)
  BY <1>1, RangesAreParts
<1>4. PICK x \in dpcp.V \cup dpcp.isolated : x \in part
  BY <1>1, <1>3
<1>5. CASE x \in dpcp.V
  <2>1. Part(Root, x) = part
    BY <1>1, <1>3, <1>4, PartsAreClasses
  <2>2. Part(dpcp, x) = part \cap dpcp.V
    BY <1>1, <1>5, <2>1 DEF Reduces
  <2>3. PICK s \in S : Part(dpcp, x) \cap S = {s}
    BY <1>5 DEF Selected
  <2>. QED  BY <2>2, <2>3
<1>. QED  BY <1>4, <1>5

(* Every colouring of a node extends to the input: the saved isolated      *)
(* vertices get the colour of their Q-part, and all P-parts are coloured.  *)
THEOREM ColouringsLift == Spec => []ColouringLifts
<1>1. PathInv => ColouringLifts
  <2>1. SUFFICES ASSUME PathInv, phase = "node", ~dpcp.isInfeasible,
                        NEW S \in Selections(dpcp.V, dpcp.E, Range(dpcp.P), Range(dpcp.Q)),
                        NEW f \in Colourings(S, dpcp.E, Range(dpcp.Q),
                                             ColourNumber(S, dpcp.E, Range(dpcp.Q)))
                 PROVE  /\ Lifted(f) \in
                             Colourings(S \cup dpcp.isolated, input.E, Range(input.Q),
                               IF ColourNumber(S, dpcp.E, Range(dpcp.Q)) = 0 THEN 1
                               ELSE ColourNumber(S, dpcp.E, Range(dpcp.Q)))
                        /\ \A part \in Range(input.P) :
                             (S \cup dpcp.isolated) \cap part # {}
    BY DEF ColouringLifts
  <2> DEFINE k == ColourNumber(S, dpcp.E, Range(dpcp.Q))
             m == IF k = 0 THEN 1 ELSE k
  <2>2. Sound(dpcp) /\ Selected(dpcp, S) /\ S \subseteq dpcp.V /\ Sound(Root)
        /\ Root.E = input.E /\ Root.Q = input.Q
        /\ S \cup dpcp.isolated \in SUBSET Root.V
    BY <2>1, SelectionsAreSelected, RootIs DEF PathInv, IInv, Selected
  <2>3. k \in Nat
    BY <2>2, ColourNumberIs
  <2>4. Proper(dpcp, S, f, k)
    <3>1. S \in SUBSET dpcp.V
      BY <2>2
    <3>. QED  BY <2>1, <2>2, <3>1, ColouringsAreProper
  <2>. HIDE DEF k
  <2>5. m \in Nat \ {0} /\ 1 .. k \subseteq 1 .. m
    BY <2>3
  <2>. HIDE DEF m
  <2>6. Proper(dpcp, S, f, m)
    BY <2>4, <2>5 DEF Proper
  <2>7. Proper(Root, S \cup dpcp.isolated, Lifted(f), m)
    BY <2>1, <2>2, <2>5, <2>6, ProperLifts
  <2>8. Lifted(f) \in Colourings(S \cup dpcp.isolated, input.E, Range(input.Q), m)
    <3>1. Lifted(f) \in Colourings(S \cup dpcp.isolated, Root.E, Range(Root.Q), m)
      BY <2>2, <2>7, ColouringsAreProper
    <3>. QED  BY <2>2, <3>1
  <2>9. \A part \in Range(input.P) : (S \cup dpcp.isolated) \cap part # {}
    BY <2>1, <2>2, SelectionCovers
  <2>. QED  BY <2>8, <2>9 DEF m, k
<1>. QED  BY PathFaithful, <1>1, PTL

-----------------------------------------------------------------------------
(* The graph colouring instance of a node whose P-parts are single.        *)

(* With single P-parts everything is selected. *)
LEMMA AllAreSelected ==
  ASSUME NEW d, LoopFree(d), \A v \in d.V : Part(d, v) = {v}, NEW S
  PROVE  Selected(d, S) <=> S = d.V
<1>1. ASSUME Selected(d, S) PROVE S = d.V
  <2>1. ASSUME NEW v \in d.V PROVE v \in S
    <3>1. PICK s \in S : Part(d, v) \cap S = {s}
      BY <1>1 DEF Selected
    <3>. QED  BY <3>1
  <2>. QED  BY <1>1, <2>1 DEF Selected
<1>2. Selected(d, d.V)
  <2>1. \A v \in d.V : \E s \in d.V : Part(d, v) \cap d.V = {s}
    OBVIOUS
  <2>2. \A u, w \in d.V : w \in QPart(d, u) => {u, w} \notin d.E
    BY DEF LoopFree
  <2>. QED  BY <2>1, <2>2 DEF Selected
<1>. QED  BY <1>1, <1>2

(* Otherwise an edge joins two vertices of a Q-part. *)
LEMMA EdgeInside ==
  ASSUME NEW d, Sound(d), ~LoopFree(d)
  PROVE  \E u \in d.V, w \in d.V : /\ w \in QPart(d, u) /\ {u, w} \in d.E
                                  /\ d.vertex2Qpart[w] = d.vertex2Qpart[u]
<1>1. PICK u \in d.V : ~(\A w \in QPart(d, u) : {u, w} \notin d.E)
  BY Zenon DEF LoopFree
<1>2. PICK w \in QPart(d, u) : {u, w} \in d.E
  BY <1>1, Zenon
<1>3. /\ d.Q \in Seq(SUBSET d.V)
      /\ \A v \in d.V : /\ d.vertex2Qpart[v] \in 1 .. Len(d.Q)
                       /\ \A i \in 1 .. Len(d.Q) : v \in d.Q[i] <=> d.vertex2Qpart[v] = i
  BY DEF Sound, Aligned
<1>4. d.Q[d.vertex2Qpart[u]] \subseteq d.V
  BY <1>3
<1>5. w \in d.V /\ w \in d.Q[d.vertex2Qpart[u]]
  BY <1>2, <1>4 DEF QPart
<1>6. d.vertex2Qpart[w] = d.vertex2Qpart[u]
  BY <1>3, <1>5
<1>. QED  BY <1>2, <1>5, <1>6, Zenon

(* With an edge inside a Q-part nothing is. *)
LEMMA NoneIsSelected ==
  ASSUME NEW d, Sound(d), ~LoopFree(d), \A v \in d.V : Part(d, v) = {v}, NEW S
  PROVE  ~Selected(d, S)
<1>1. SUFFICES ASSUME Selected(d, S) PROVE FALSE
  OBVIOUS
<1>2. PICK u \in d.V, w \in d.V : w \in QPart(d, u) /\ {u, w} \in d.E
  BY EdgeInside, Zenon
<1>3. \A v \in d.V : \E s \in S : Part(d, v) \cap S = {s}
  BY <1>1 DEF Selected
<1>4. u \in S /\ w \in S
  BY <1>3
<1>. QED  BY <1>1, <1>2, <1>4 DEF Selected

(* An edge joins two vertices, and in a graph without loops inside Q-parts *)
(* vertices of two Q-parts.                                                *)
LEMMA EdgesJoin ==
  ASSUME NEW d, Sound(d), NEW e \in d.E
  PROVE  \E u, w \in d.V : /\ e = {u, w} /\ u # w
                           /\ LoopFree(d) => d.vertex2Qpart[u] # d.vertex2Qpart[w]
<1>1. e \subseteq d.V /\ Cardinality(e) = 2 /\ IsFiniteSet(e)
  BY FS_Subset DEF Sound
<1>2. e # {}
  BY <1>1, FS_EmptySet
<1>3. PICK u \in e : TRUE
  BY <1>2
<1>4. IsFiniteSet(e \ {u}) /\ Cardinality(e \ {u}) = 2 - 1
  BY <1>1, <1>3, FS_RemoveElement
<1>5. PICK w \in e \ {u} : e \ {u} = {w}
  BY <1>4, OneElement
<1>6. e = {u, w} /\ u # w /\ u \in d.V /\ w \in d.V
  BY <1>1, <1>3, <1>5
<1>7. d.vertex2Qpart[u] = d.vertex2Qpart[w] => QPart(d, u) = QPart(d, w)
  BY DEF QPart
<1>8. w \in QPart(d, w)
  BY <1>6, PartsAreVertices
<1>9. LoopFree(d) => d.vertex2Qpart[u] # d.vertex2Qpart[w]
  BY <1>6, <1>7, <1>8 DEF LoopFree
<1>. QED  BY <1>6, <1>9

(* The graph of the Q-parts is coloured like the vertices of the instance. *)
LEMMA GcpColourings ==
  ASSUME NEW d, Sound(d), NEW k \in Nat
  PROVE  Colourings(GcpGraph(d).nodes, GcpGraph(d).edges, {}, k) # {}
           <=> \E f : Proper(d, d.V, f, k)
<1> DEFINE n == Len(d.Q)
           q == d.vertex2Qpart
           arcs == {{q[v] : v \in e} : e \in d.E}
           Colours(h) == /\ h \in [1 .. n -> 1 .. k]
                         /\ \A i, j \in 1 .. n : {i, j} \in arcs => h[i] # h[j]
<1>1. /\ n \in Nat /\ DOMAIN d.Q = 1 .. n
      /\ \A j \in 1 .. n : d.Q[j] \in SUBSET d.V /\ d.Q[j] # {}
      /\ \A v \in d.V : q[v] \in 1 .. n /\ \A j \in 1 .. n : v \in d.Q[j] <=> q[v] = j
  BY LenProperties, ElementOfSeq DEF Sound, Aligned
<1>2. \A h : h \in Colourings(GcpGraph(d).nodes, GcpGraph(d).edges, {}, k) <=> Colours(h)
  BY <1>1 DEF Colourings, GcpGraph
<1>3. \A v, w \in d.V : w \in QPart(d, v) <=> q[w] = q[v]
  BY <1>1 DEF QPart
<1>4. ASSUME NEW h, Colours(h) PROVE \E f : Proper(d, d.V, f, k)
  <2> DEFINE f == [v \in d.V |-> h[q[v]]]
  <2>1. f \in [d.V -> 1 .. k]
    BY <1>1, <1>4
  <2>2. ASSUME NEW u \in d.V, NEW w \in d.V
        PROVE  /\ {u, w} \in d.E => f[u] # f[w]
               /\ w \in QPart(d, u) => f[u] = f[w]
    <3>1. {q[v] : v \in {u, w}} = {q[u], q[w]}
      OBVIOUS
    <3>2. {u, w} \in d.E => {q[u], q[w]} \in arcs
      BY <3>1
    <3>. HIDE DEF arcs
    <3>3. {q[u], q[w]} \in arcs => h[q[u]] # h[q[w]]
      BY SMTT(60), <1>1, <1>4
    <3>. QED  BY <1>3, <3>2, <3>3
  <2>. HIDE DEF f
  <2>. QED  BY <2>1, <2>2 DEF Proper
<1>5. ASSUME NEW f, Proper(d, d.V, f, k) PROVE \E h : Colours(h)
  <2> DEFINE rep(j) == CHOOSE v \in d.Q[j] : TRUE
             h == [j \in 1 .. n |-> f[rep(j)]]
  <2>1. \A j \in 1 .. n : rep(j) \in d.V /\ q[rep(j)] = j
    BY <1>1
  <2>. HIDE DEF rep
  <2>2. h \in [1 .. n -> 1 .. k]
    BY <1>5, <2>1 DEF Proper
  <2>3. ASSUME NEW v \in d.V PROVE h[q[v]] = f[v]
    <3> DEFINE r == rep(q[v])
    <3>1. q[v] \in 1 .. n /\ r \in d.V /\ q[r] = q[v]
      BY <1>1, <2>1
    <3>2. h[q[v]] = f[r]
      BY <3>1
    <3>. HIDE DEF h, r, q
    <3>3. f[v] = f[r]
      BY <1>3, <1>5, <3>1 DEF Proper
    <3>. QED  BY <3>2, <3>3
  <2>4. ASSUME NEW i \in 1 .. n, NEW j \in 1 .. n, {i, j} \in arcs
        PROVE  h[i] # h[j]
    <3>1. PICK e \in d.E : {i, j} = {q[v] : v \in e}
      BY <2>4
    <3>2. PICK u \in d.V, w \in d.V : e = {u, w}
      BY EdgesJoin
    <3>3. {i, j} = {q[u], q[w]}
      BY <3>1, <3>2
    <3>4. f[u] # f[w]
      BY <1>5, <3>2 DEF Proper
    <3>. HIDE DEF h
    <3>5. h[q[u]] # h[q[w]]
      BY <2>3, <3>4
    <3>. QED  BY <3>3, <3>5
  <2>. HIDE DEF h
  <2>. QED  BY <2>2, <2>4
<1>. HIDE DEF Colours
<1>. QED  BY <1>2, <1>4, <1>5

(* It needs as many colours as the vertices of the instance do together.   *)
LEMMA GcpNumber ==
  ASSUME NEW d, Sound(d), LoopFree(d), Selected(d, d.V)
  PROVE  ColourNumber(GcpGraph(d).nodes, GcpGraph(d).edges, {})
           = ColourNumber(d.V, d.E, Range(d.Q))
<1> DEFINE n == Len(d.Q)
           g == GcpGraph(d)
           c == ColourNumber(d.V, d.E, Range(d.Q))
           Can(k) == Colourings(g.nodes, g.edges, {}, k) # {}
           T == {k \in 0 .. n : Can(k)}
<1>1. n \in Nat /\ g.nodes = 1 .. n /\ g.edges = {{d.vertex2Qpart[v] : v \in e} : e \in d.E}
  BY LenProperties DEF Sound, Aligned, GcpGraph
<1>2. Cardinality(1 .. n) = n
  <2>1. Cardinality(1 .. n) = IF 1 > n THEN 0 ELSE n - 1 + 1
    BY SMTT(60), <1>1, FS_Interval
  <2>. QED  BY <1>1, <2>1
<1>3. ColourNumber(g.nodes, g.edges, {}) = Min(T)
  BY <1>1, <1>2 DEF ColourNumber
<1>4. c \in Nat /\ \A k \in Nat : c <= k <=> \E f : Proper(d, d.V, f, k)
  BY ColourNumberIs
<1>. HIDE DEF g, c
<1>5. \A k \in Nat : Can(k) <=> c <= k
  <2>1. \A k \in Nat : Can(k) <=> \E f : Proper(d, d.V, f, k)
    BY GcpColourings DEF g
  <2>. HIDE DEF Can
  <2>. QED  BY <1>4, <2>1
<1>6. Can(n)
  <2> DEFINE h == [j \in 1 .. n |-> j]
  <2>1. h \in [1 .. n -> 1 .. n]
    OBVIOUS
  <2>2. ASSUME NEW i \in 1 .. n, NEW j \in 1 .. n, {i, j} \in g.edges
        PROVE  h[i] # h[j]
    <3>1. PICK e \in d.E : {i, j} = {d.vertex2Qpart[v] : v \in e}
      BY <1>1, <2>2
    <3>2. PICK u \in d.V, w \in d.V :
            e = {u, w} /\ d.vertex2Qpart[u] # d.vertex2Qpart[w]
      BY EdgesJoin
    <3>3. {i, j} = {d.vertex2Qpart[u], d.vertex2Qpart[w]}
      BY <3>1, <3>2
    <3>. QED  BY <3>2, <3>3
  <2>. HIDE DEF h
  <2>3. h \in Colourings(g.nodes, g.edges, {}, n)
    BY <1>1, <2>1, <2>2 DEF Colourings
  <2>. QED  BY <2>3
<1>. HIDE DEF Can
<1>7. T \in SUBSET Nat /\ T # {} /\ \A k \in 0 .. n : k \in T <=> c <= k
  BY <1>1, <1>5, <1>6
<1>8. Min(T) \in T /\ \A x \in T : Min(T) <= x
  BY <1>7, MinIsLeast, Zenon
<1>9. Min(T) \in 0 .. n
  BY <1>8
<1>. HIDE DEF T
<1>10. c \in 0 .. n
  BY <1>1, <1>4, <1>5, <1>6
<1>11. c <= Min(T) /\ Min(T) <= c
  BY <1>4, <1>7, <1>8, <1>9, <1>10
<1>12. Min(T) = c
  BY <1>4, <1>9, <1>11
<1>. QED  BY <1>3, <1>12 DEF g, c

(* What the graph has loops for: edges inside Q-parts. *)
LEMMA LoopsAreInside ==
  ASSUME NEW d, Sound(d)
  PROVE  /\ LoopFree(d) => \A a \in GcpGraph(d).edges : Cardinality(a) = 2
         /\ ~LoopFree(d) => \E a \in GcpGraph(d).edges : Cardinality(a) = 1
<1>1. ASSUME LoopFree(d), NEW a \in GcpGraph(d).edges PROVE Cardinality(a) = 2
  <2>1. PICK e \in d.E : a = {d.vertex2Qpart[v] : v \in e}
    BY DEF GcpGraph
  <2>2. PICK u \in d.V, w \in d.V :
          e = {u, w} /\ d.vertex2Qpart[u] # d.vertex2Qpart[w]
    BY <1>1, EdgesJoin
  <2> DEFINE x == d.vertex2Qpart[u]
             y == d.vertex2Qpart[w]
  <2>3. a = {y} \cup {x} /\ x \notin {y}
    BY <2>1, <2>2
  <2>. HIDE DEF x, y
  <2>4. IsFiniteSet({y}) /\ Cardinality({y}) = 1
    BY FS_Singleton
  <2>5. Cardinality({y} \cup {x}) = 1 + 1
    BY <2>3, <2>4, FS_AddElement
  <2>. QED  BY <2>3, <2>5
<1>2. ASSUME ~LoopFree(d) PROVE \E a \in GcpGraph(d).edges : Cardinality(a) = 1
  <2>1. PICK v \in d.V, w \in d.V :
          /\ w \in QPart(d, v) /\ {v, w} \in d.E
          /\ d.vertex2Qpart[w] = d.vertex2Qpart[v]
    BY <1>2, EdgeInside, Zenon
  <2> DEFINE x == d.vertex2Qpart[v]
             a == {d.vertex2Qpart[z] : z \in {v, w}}
  <2>3. a = {x}
    BY <2>1
  <2>4. a \in GcpGraph(d).edges
    BY <2>1 DEF GcpGraph
  <2>. HIDE DEF x, a
  <2>5. Cardinality({x}) = 1
    BY FS_Singleton
  <2>. QED  BY <2>3, <2>4, <2>5
<1>. QED  BY <1>1, <1>2

(* The graph that is handed to the graph colouring solver is worth what    *)
(* the instance is; it has a loop exactly if the instance has no solution, *)
(* and never after preprocessing.                                          *)
THEOREM GcpGraphsAreExact == Spec => []GcpGraphIsExact
<1>1. PathInv => GcpGraphIsExact
  <2> DEFINE g == GcpGraph(dpcp)
             c == ColourNumber(dpcp.V, dpcp.E, Range(dpcp.Q))
             loops == {e \in g.edges : Cardinality(e) = 1}
             worth == Optimum(dpcp.V, dpcp.E, Range(dpcp.P), Range(dpcp.Q))
  <2>1. SUFFICES ASSUME PathInv, phase = "node", dpcp.isGCP, caller.solver = "byp"
                 PROVE  /\ caller.preprocessing => loops = {}
                        /\ loops # {} => worth = Infinity
                        /\ loops = {} => /\ \A e \in g.edges : Cardinality(e) = 2
                                         /\ worth = ColourNumber(g.nodes, g.edges, {})
    BY DEF GcpGraphIsExact
  <2>2. Sound(dpcp) /\ \A v \in dpcp.V : Part(dpcp, v) = {v}
    BY <2>1, SingleParts DEF PathInv, IInv
  <2>3. caller.preprocessing => LoopFree(dpcp)
    BY <2>1 DEF PathInv, NoLoops
  <2>4. loops = {} <=> LoopFree(dpcp)
    BY <2>2, LoopsAreInside
  <2>5. /\ Cardinality(dpcp.V) < Infinity /\ Cardinality(dpcp.V) \in Nat
        /\ Infinity \in Nat
    <3>1. Reduces(dpcp, dpcp)
      BY <2>2, ReducesItself
    <3>. QED  BY <2>1, <3>1, NodeIsSmall
  <2>6. \A S : S \in Selections(dpcp.V, dpcp.E, Range(dpcp.P), Range(dpcp.Q))
                <=> Selected(dpcp, S)
    BY <2>2, SelectionsAreSelected
  <2>7. ASSUME ~LoopFree(dpcp) PROVE worth = Infinity
    <3>1. \A S : ~Selected(dpcp, S)
      BY <2>2, <2>7, NoneIsSelected
    <3>2. Selections(dpcp.V, dpcp.E, Range(dpcp.P), Range(dpcp.Q)) = {}
      BY <2>6, <3>1
    <3>3. worth = Min({Infinity})
      BY <3>2 DEF Optimum
    <3>4. Min({Infinity}) \in {Infinity}
      <4>1. {Infinity} \in SUBSET Nat /\ {Infinity} # {}
        BY <2>5
      <4>. QED  BY <4>1, MinIsLeast, Zenon
    <3>. QED  BY <3>3, <3>4
  <2>8. ASSUME LoopFree(dpcp) PROVE worth = ColourNumber(g.nodes, g.edges, {})
    <3>1. \A S : Selected(dpcp, S) <=> S = dpcp.V
      BY <2>2, <2>8, AllAreSelected
    <3>2. ColourNumber(g.nodes, g.edges, {}) = c
      BY <2>2, <2>8, <3>1, GcpNumber
    <3>3. c \in Nat /\ c <= Cardinality(dpcp.V)
      BY <2>2, <3>1, ColourNumberIs
    <3>4. Selections(dpcp.V, dpcp.E, Range(dpcp.P), Range(dpcp.Q)) = {dpcp.V}
      BY <2>6, <3>1
    <3>5. {Infinity} \cup {ColourNumber(S, dpcp.E, Range(dpcp.Q)) : S \in {dpcp.V}}
            = {Infinity, c}
      OBVIOUS
    <3>6. worth = Min({Infinity, c})
      BY <3>4, <3>5 DEF Optimum
    <3>. HIDE DEF c
    <3>7. Min({Infinity, c}) \in {Infinity, c} /\ \A x \in {Infinity, c} : Min({Infinity, c}) <= x
      <4>1. {Infinity, c} \in SUBSET Nat /\ {Infinity, c} # {}
        BY <2>5, <3>3
      <4>. QED  BY <4>1, MinIsLeast, Zenon
    <3>8. Min({Infinity, c}) = c
      BY <2>5, <3>3, <3>7
    <3>. QED  BY <3>2, <3>6, <3>8
  <2>. QED  BY <2>2, <2>3, <2>4, <2>7, <2>8, LoopsAreInside
<1>. QED  BY PathFaithful, <1>1, PTL

-----------------------------------------------------------------------------
(* The greedy colouring.                                                   *)

(* The colours of f are 0, 1, ..., n - 1.                                  *)
Consecutive(f) ==
  /\ f = [v \in DOMAIN f |-> f[v]]
  /\ \A v \in DOMAIN f : f[v] \in Nat
  /\ Range(f) = 0 .. Cardinality(Range(f)) - 1

(* f with colour c for v.                                                  *)
Recoloured(f, v, c) == [u \in DOMAIN f \cup {v} |-> IF u = v THEN c ELSE f[u]]

(* There are no more colours than coloured vertices. *)
LEMMA RangeIsSmall ==
  ASSUME NEW f, f = [v \in DOMAIN f |-> f[v]], IsFiniteSet(DOMAIN f)
  PROVE  /\ IsFiniteSet(Range(f)) /\ Cardinality(Range(f)) \in Nat
         /\ Cardinality(DOMAIN f) \in Nat
         /\ Cardinality(Range(f)) <= Cardinality(DOMAIN f)
<1>1. f \in [DOMAIN f -> Range(f)]
  BY DEF Range
<1>2. f \in Surjection(DOMAIN f, Range(f))
  BY <1>1 DEF Surjection, Range
<1>. QED  BY <1>2, FS_Surjection, FS_CardinalityType

(* A vertex that gets a colour in use, or the next one, leaves the colours *)
(* consecutive.                                                            *)
LEMMA RecolouredIsConsecutive ==
  ASSUME NEW f, Consecutive(f), IsFiniteSet(DOMAIN f), NEW v, v \notin DOMAIN f,
         NEW c \in 0 .. Cardinality(Range(f))
  PROVE  Consecutive(Recoloured(f, v, c))
<1> DEFINE g == Recoloured(f, v, c)
           k == Cardinality(Range(f))
<1>1. k \in Nat /\ Range(f) = 0 .. k - 1
  BY RangeIsSmall DEF Consecutive
<1>2. /\ DOMAIN g = DOMAIN f \cup {v} /\ g[v] = c
      /\ \A u \in DOMAIN f : g[u] = f[u]
      /\ g = [u \in DOMAIN g |-> g[u]]
  BY DEF Recoloured
<1>. HIDE DEF g, k
<1>3. Range(g) = Range(f) \cup {c}
  BY <1>2 DEF Range
<1>4. c \in Nat /\ c <= k
  BY <1>1 DEF k
<1>5. CASE c = k
  <2>1. Range(g) = 0 .. k
    BY <1>1, <1>3, <1>5
  <2>2. Cardinality(0 .. k) = k + 1
    BY <1>1, FS_Interval
  <2>3. Cardinality(Range(g)) - 1 = k
    BY <1>1, <2>1, <2>2
  <2>. QED  BY <1>2, <1>4, <2>1, <2>3 DEF Consecutive, g
<1>6. CASE c # k
  <2>1. Range(g) = Range(f)
    BY <1>1, <1>3, <1>4, <1>6
  <2>. QED  BY <1>2, <1>4, <2>1 DEF Consecutive, g
<1>. QED  BY <1>5, <1>6

(* The least colour that is not taken is one in use or the next one.       *)
LEMMA LeastColour ==
  ASSUME NEW n \in Nat, NEW k \in Nat, k <= n, NEW A \in SUBSET (0 .. k - 1)
  PROVE  /\ Min((0 .. n) \ A) \in 0 .. k
         /\ Min((0 .. n) \ A) \notin A
<1> DEFINE T == (0 .. n) \ A
<1>1. T \in SUBSET Nat /\ k \in T
  OBVIOUS
<1>. HIDE DEF T
<1>2. Min(T) \in T /\ Min(T) <= k
  BY <1>1, MinIsLeast
<1>. QED  BY <1>2 DEF T

(* The partial colourings of the nodes on the way.                         *)
Partial(f, nodes, pairs) ==
  /\ Consecutive(f)
  /\ DOMAIN f \subseteq nodes
  /\ \A p \in pairs : (p[1] # p[2] /\ p[1] \in DOMAIN f /\ p[2] \in DOMAIN f) =>
                        f[p[1]] # f[p[2]]

(* color_node colours one more node.                                       *)
LEMMA ColourNodeExtends ==
  ASSUME NEW nodes, IsFiniteSet(nodes), NEW pairs,
         NEW f, Partial(f, nodes, pairs), NEW v \in nodes \ DOMAIN f
  PROVE  /\ Partial(color_node(f, v, pairs), nodes, pairs)
         /\ DOMAIN color_node(f, v, pairs) = DOMAIN f \cup {v}
<1> DEFINE A == ColoursAround(f, v, pairs)
           n == Cardinality(DOMAIN f)
           k == Cardinality(Range(f))
           c == Min((0 .. n) \ A)
           g == color_node(f, v, pairs)
<1>1. IsFiniteSet(DOMAIN f) /\ Consecutive(f)
  BY FS_Subset DEF Partial
<1>2. k \in Nat /\ n \in Nat /\ k <= n /\ Range(f) = 0 .. k - 1
  BY <1>1, RangeIsSmall DEF Consecutive
<1>3. A \subseteq Range(f)
  BY DEF ColoursAround, Range
<1>4. g = Recoloured(f, v, c)
  BY DEF color_node, Recoloured
<1>5. c \in 0 .. k /\ c \notin A
  <2>1. A \in SUBSET (0 .. k - 1)
    BY <1>2, <1>3
  <2>. HIDE DEF A, n, k
  <2>. QED  BY <1>2, <2>1, LeastColour
<1>. HIDE DEF c, g, n
<1>6. Consecutive(g)
  BY <1>1, <1>4, <1>5, RecolouredIsConsecutive
<1>7. /\ DOMAIN g = DOMAIN f \cup {v} /\ g[v] = c
      /\ \A u \in DOMAIN f : g[u] = f[u]
  BY <1>4 DEF Recoloured
<1>8. ASSUME NEW p \in pairs, p[1] # p[2], p[1] \in DOMAIN g, p[2] \in DOMAIN g
      PROVE  g[p[1]] # g[p[2]]
  <2>1. CASE p[1] = v
    <3>1. p[2] \in Adj(v, pairs) /\ p[2] \in DOMAIN f
      BY <1>7, <1>8, <2>1 DEF Adj
    <3>2. f[p[2]] \in A
      BY <3>1 DEF ColoursAround
    <3>. QED  BY <1>5, <1>7, <2>1, <3>1, <3>2
  <2>2. CASE p[2] = v
    <3>1. p[1] \in Adj(v, pairs) /\ p[1] \in DOMAIN f
      BY <1>7, <1>8, <2>2 DEF Adj
    <3>2. f[p[1]] \in A
      BY <3>1 DEF ColoursAround
    <3>. QED  BY <1>5, <1>7, <2>2, <3>1, <3>2
  <2>3. CASE p[1] # v /\ p[2] # v
    <3>1. p[1] \in DOMAIN f /\ p[2] \in DOMAIN f
      BY <1>7, <1>8, <2>3
    <3>2. f[p[1]] # f[p[2]]
      BY <1>8, <3>1 DEF Partial
    <3>. QED  BY <1>7, <3>1, <3>2
  <2>. QED  BY <2>1, <2>2, <2>3
<1>9. DOMAIN g \subseteq nodes
  BY <1>7 DEF Partial
<1>. QED  BY <1>6, <1>7, <1>8, <1>9 DEF Partial, g

(* The colourings after one more turn than fs.                             *)
Turn(fs, nodes, pairs) ==
  UNION {{color_node(f, v, pairs) : v \in NextNodes(f, nodes, pairs)} : f \in fs}

(* The function that COLORdsatur folds with, on the sets of T.             *)
FoldsTurns(h, nodes, pairs, T) ==
  h = [s \in T |->
         IF s = {} THEN {[v \in {} |-> 0]}
         ELSE Turn(h[s \ {CHOOSE x \in s : TRUE}], nodes, pairs)]

(* That function exists on the subsets of a finite set. *)
LEMMA TurnsExist ==
  ASSUME NEW nodes, NEW pairs, NEW S, IsFiniteSet(S)
  PROVE  \E h : FoldsTurns(h, nodes, pairs, SUBSET S)
<1> DEFINE Upto(n) == {s \in SUBSET S : Cardinality(s) <= n}
           Bad == {n \in Nat : ~ \E h : FoldsTurns(h, nodes, pairs, Upto(n))}
           none == {[v \in {} |-> 0]}
<1>. HIDE DEF none
<1>1. \A s \in SUBSET S : IsFiniteSet(s) /\ Cardinality(s) \in Nat
  BY FS_Subset, FS_CardinalityType
<1>2. SUFFICES Bad = {}
  <2>1. \E h : FoldsTurns(h, nodes, pairs, Upto(Cardinality(S)))
    BY <1>1, <1>2
  <2>2. Upto(Cardinality(S)) = SUBSET S
    BY FS_Subset
  <2>. QED  BY <2>1, <2>2
<1>3. SUFFICES ASSUME Bad # {} PROVE FALSE
  OBVIOUS
<1>4. PICK m \in Bad : \A k \in Bad : m <= k
  BY <1>3, LeastNatural
<1>5. m # 0
  <2>1. Upto(0) = {{}}
    BY <1>1, FS_EmptySet
  <2>2. FoldsTurns([s \in {{}} |-> none], nodes, pairs, {{}})
    BY DEF FoldsTurns, none
  <2>. QED  BY <1>4, <2>1, <2>2
<1>6. m \in Nat /\ m - 1 \in Nat /\ m - 1 \notin Bad
  <2>1. Bad \subseteq Nat
    OBVIOUS
  <2>. HIDE DEF Bad
  <2>. QED  BY <1>4, <1>5, <2>1
<1>7. PICK h : FoldsTurns(h, nodes, pairs, Upto(m - 1))
  BY <1>6
<1> DEFINE rest(s) == s \ {CHOOSE x \in s : TRUE}
           next(g) == [s \in Upto(m) |->
                         IF s = {} THEN none ELSE Turn(g[rest(s)], nodes, pairs)]
<1>8. \A s \in Upto(m) : s # {} => rest(s) \in Upto(m - 1)
  <2>1. TAKE s \in Upto(m)
  <2>2. HAVE s # {}
  <2>3. (CHOOSE x \in s : TRUE) \in s
    BY <2>2
  <2>4. Cardinality(rest(s)) = Cardinality(s) - 1
    BY <1>1, <2>3, FS_RemoveElement
  <2>. QED  BY <1>1, <1>6, <2>1, <2>4
<1>9. \A t \in Upto(m - 1) : next(h)[t] = h[t]
  <2>1. \A t \in Upto(m - 1) : t \in Upto(m)
    BY <1>1, <1>6
  <2>. HIDE DEF Upto
  <2>. QED  BY <1>7, <2>1 DEF FoldsTurns, none
<1>. HIDE DEF Upto, rest
<1>10. next(next(h)) = next(h)
  <2>1. \A s \in Upto(m) : s # {} => next(h)[rest(s)] = h[rest(s)]
    <3>. HIDE DEF next
    <3>. QED  BY <1>8, <1>9
  <2> DEFINE body(g, s) == IF s = {} THEN none ELSE Turn(g[rest(s)], nodes, pairs)
  <2>2. \A s \in Upto(m) : body(next(h), s) = body(h, s)
    <3>. HIDE DEF next
    <3>. QED  BY <2>1
  <2>3. \A g : next(g) = [s \in Upto(m) |-> body(g, s)]
    OBVIOUS
  <2>. HIDE DEF body, next
  <2>. QED  BY <2>2, <2>3
<1>11. FoldsTurns(next(h), nodes, pairs, Upto(m))
  BY <1>10 DEF FoldsTurns, none, rest
<1>. QED  BY <1>4, <1>11 DEF Upto

(* DSATUR colours all the nodes, adjacent ones differently, with           *)
(* consecutive colours, whichever node of greatest saturation it takes.    *)
LEMMA DsaturColours ==
  ASSUME NEW nodes, IsFiniteSet(nodes), NEW pairs,
         NEW f \in COLORdsatur(nodes, pairs)
  PROVE  Partial(f, nodes, pairs) /\ DOMAIN f = nodes
<1> DEFINE n == Cardinality(nodes)
           S == 1 .. n
           h == CHOOSE g : FoldsTurns(g, nodes, pairs, SUBSET S)
           Good(s) == \A g \in h[s] : /\ Partial(g, nodes, pairs)
                                      /\ Cardinality(DOMAIN g) = Cardinality(s)
           Bad == {m \in Nat : \E s \in SUBSET S : Cardinality(s) = m /\ ~Good(s)}
<1>1. n \in Nat /\ IsFiniteSet(S) /\ Cardinality(S) = n
  BY FS_CardinalityType, FS_Interval
<1>2. FoldsTurns(h, nodes, pairs, SUBSET S)
  BY <1>1, TurnsExist
<1>3. COLORdsatur(nodes, pairs) = h[S]
  BY DEF COLORdsatur, FoldSet, MapThenFoldSet, FoldsTurns, Turn
<1>. HIDE DEF h, S
<1>4. \A s \in SUBSET S : IsFiniteSet(s) /\ Cardinality(s) \in Nat
  BY <1>1, FS_Subset, FS_CardinalityType
<1>5. Bad = {}
  <2>1. SUFFICES ASSUME Bad # {} PROVE FALSE
    OBVIOUS
  <2>2. PICK m \in Bad : \A k \in Bad : m <= k
    BY <2>1, LeastNatural
  <2>3. PICK s \in SUBSET S : Cardinality(s) = m /\ ~Good(s)
    BY <2>2
  <2>4. CASE s = {}
    <3>1. h[s] = {[v \in {} |-> 0]}
      BY <1>2, <2>4 DEF FoldsTurns
    <3>2. Cardinality({}) = 0
      BY FS_EmptySet
    <3>3. ASSUME NEW g \in h[s]
          PROVE  Partial(g, nodes, pairs) /\ Cardinality(DOMAIN g) = Cardinality(s)
      <4>1. g = [v \in {} |-> 0] /\ DOMAIN g = {}
        BY <3>1
      <4>2. Range(g) = {} /\ 0 .. 0 - 1 = {}
        BY <4>1 DEF Range
      <4>3. Consecutive(g)
        BY <3>2, <4>1, <4>2 DEF Consecutive
      <4>. QED  BY <2>4, <4>1, <4>3 DEF Partial
    <3>. QED  BY <2>3, <3>3
  <2>5. CASE s # {}
    <3> DEFINE x == CHOOSE y \in s : TRUE
               t == s \ {x}
    <3>1. x \in s
      BY <2>5
    <3>2. Cardinality(t) = m - 1 /\ t \in SUBSET S /\ m - 1 \in Nat /\ m \in Nat
      <4>1. IsFiniteSet(s) /\ Cardinality(s) \in Nat /\ Cardinality(t) \in Nat
        BY <1>4
      <4>2. Cardinality(s \ {x}) = Cardinality(s) - 1
        <5>. HIDE DEF x
        <5>. QED  BY <3>1, <4>1, FS_RemoveElement
      <4>. QED  BY <2>3, <4>1, <4>2
    <3>3. Good(t)
      <4>1. m - 1 \notin Bad
        BY <2>2, <3>2
      <4>2. \A k \in Nat \ Bad : \A u \in SUBSET S : Cardinality(u) = k => Good(u)
        OBVIOUS
      <4>. HIDE DEF Good, Bad, t
      <4>. QED  BY <3>2, <4>1, <4>2
    <3>4. h[s] = Turn(h[t], nodes, pairs)
      BY <1>2, <2>5 DEF FoldsTurns
    <3>. HIDE DEF t, x
    <3>5. ASSUME NEW g \in h[s]
          PROVE  Partial(g, nodes, pairs) /\ Cardinality(DOMAIN g) = Cardinality(s)
      <4>1. PICK e \in h[t] : \E v \in NextNodes(e, nodes, pairs) :
                                 g = color_node(e, v, pairs)
        BY <3>4, <3>5 DEF Turn
      <4>2. PICK v \in NextNodes(e, nodes, pairs) : g = color_node(e, v, pairs)
        BY <4>1
      <4>3. Partial(e, nodes, pairs) /\ Cardinality(DOMAIN e) = m - 1
            /\ v \in nodes \ DOMAIN e
        BY <3>2, <3>3, <4>1, <4>2 DEF NextNodes
      <4>4. Partial(g, nodes, pairs) /\ DOMAIN g = DOMAIN e \cup {v}
        BY <4>2, <4>3, ColourNodeExtends
      <4>5. IsFiniteSet(DOMAIN e)
        BY <4>3, FS_Subset DEF Partial
      <4>6. Cardinality(DOMAIN e \cup {v}) = Cardinality(DOMAIN e) + 1
        BY <4>3, <4>5, FS_AddElement
      <4>. QED  BY <2>3, <3>2, <4>3, <4>4, <4>6
    <3>. QED  BY <2>3, <3>5
  <2>. QED  BY <2>4, <2>5
<1>6. Good(S)
  <2>1. Cardinality(S) \notin Bad /\ Cardinality(S) \in Nat
    BY <1>1, <1>5
  <2>2. \A k \in Nat \ Bad : \A u \in SUBSET S : Cardinality(u) = k => Good(u)
    OBVIOUS
  <2>. HIDE DEF Good, Bad
  <2>. QED  BY <2>1, <2>2
<1>7. Partial(f, nodes, pairs) /\ Cardinality(DOMAIN f) = n
  BY <1>1, <1>3, <1>6
<1>8. DOMAIN f = nodes
  BY <1>7, FS_Subset DEF Partial
<1>. QED  BY <1>7, <1>8

-----------------------------------------------------------------------------
(* Colourings of an instance.                                              *)

(* f colours some vertices of d with consecutive colours: adjacent ones    *)
(* differ, those of a Q-part agree.                                        *)
Coloured(d, f) ==
  /\ Consecutive(f)
  /\ DOMAIN f \subseteq d.V
  /\ \A u, w \in DOMAIN f :
       /\ {u, w} \in d.E => f[u] # f[w]
       /\ d.vertex2Qpart[u] = d.vertex2Qpart[w] => f[u] = f[w]

(* What f colours is a selection of d. *)
Whole(d, f) == Coloured(d, f) /\ Selected(d, DOMAIN f)

(* S has one vertex of each P-part that is not in U, and no other vertex.  *)
Chosen(d, S, U) ==
  /\ S \subseteq d.V /\ U \subseteq DOMAIN d.P
  /\ \A v \in S : d.vertex2Ppart[v] \notin U
  /\ \A i \in DOMAIN d.P \ U : \E s \in S : d.P[i] \cap S = {s}

(* No edge joins a vertex of W to one of S in its Q-part. *)
Fit(d, W, S) ==
  \A v \in W, w \in S : d.vertex2Qpart[v] = d.vertex2Qpart[w] => {v, w} \notin d.E

(* The parts and the edges of an instance by the numbers of the parts.     *)
LEMMA PartNumbers ==
  ASSUME NEW d, Sound(d)
  PROVE  /\ IsFiniteSet(d.V)
         /\ Len(d.P) \in Nat /\ DOMAIN d.P = 1 .. Len(d.P)
         /\ Len(d.Q) \in Nat /\ DOMAIN d.Q = 1 .. Len(d.Q)
         /\ \A v \in d.V : /\ d.vertex2Ppart[v] \in 1 .. Len(d.P)
                           /\ d.vertex2Qpart[v] \in 1 .. Len(d.Q)
         /\ \A i \in 1 .. Len(d.P) : d.P[i] \subseteq d.V /\ d.P[i] # {}
         /\ \A v \in d.V, i \in 1 .. Len(d.P) : v \in d.P[i] <=> d.vertex2Ppart[v] = i
         /\ \A v \in d.V, j \in 1 .. Len(d.Q) : v \in d.Q[j] <=> d.vertex2Qpart[v] = j
         /\ \A v : {v, v} \notin d.E
<1>1. /\ IsFiniteSet(d.V)
      /\ d.P \in Seq(SUBSET d.V) /\ d.Q \in Seq(SUBSET d.V)
      /\ \A i \in 1 .. Len(d.P) : d.P[i] # {}
      /\ \A v \in d.V : /\ d.vertex2Ppart[v] \in 1 .. Len(d.P)
                        /\ d.vertex2Qpart[v] \in 1 .. Len(d.Q)
                        /\ \A i \in 1 .. Len(d.P) : v \in d.P[i] <=> d.vertex2Ppart[v] = i
                        /\ \A j \in 1 .. Len(d.Q) : v \in d.Q[j] <=> d.vertex2Qpart[v] = j
  BY DEF Sound, Aligned
<1>2. /\ Len(d.P) \in Nat /\ DOMAIN d.P = 1 .. Len(d.P)
      /\ Len(d.Q) \in Nat /\ DOMAIN d.Q = 1 .. Len(d.Q)
  BY <1>1, LenProperties
<1>3. \A i \in 1 .. Len(d.P) : d.P[i] \in SUBSET d.V
  BY <1>1, <1>2, ElementOfSeq
<1>4. \A v : {v, v} \notin d.E
  <2>1. TAKE v
  <2>2. {v, v} = {v}
    OBVIOUS
  <2>3. Cardinality({v}) = 1
    BY FS_Singleton
  <2>4. \A e \in d.E : Cardinality(e) = 2
    BY DEF Sound
  <2>. QED  BY <2>2, <2>3, <2>4
<1>. QED  BY <1>1, <1>2, <1>3, <1>4

(* A vertex of an open P-part is chosen for it.                            *)
LEMMA ChosenGrows ==
  ASSUME NEW d, Sound(d), NEW S, NEW U, Chosen(d, S, U),
         NEW v \in d.V, d.vertex2Ppart[v] \in U
  PROVE  v \notin S /\ Chosen(d, S \cup {v}, U \ {d.vertex2Ppart[v]})
<1> DEFINE k == d.vertex2Ppart[v]
<1>1. /\ DOMAIN d.P = 1 .. Len(d.P) /\ k \in 1 .. Len(d.P)
      /\ \A u \in d.V, i \in 1 .. Len(d.P) : u \in d.P[i] <=> d.vertex2Ppart[u] = i
  BY PartNumbers
<1>2. /\ S \subseteq d.V /\ U \subseteq DOMAIN d.P
      /\ \A u \in S : d.vertex2Ppart[u] \notin U
      /\ \A i \in DOMAIN d.P \ U : \E s \in S : d.P[i] \cap S = {s}
  BY DEF Chosen
<1>3. ASSUME NEW i \in DOMAIN d.P \ (U \ {k})
      PROVE  \E s \in S \cup {v} : d.P[i] \cap (S \cup {v}) = {s}
  <2>1. CASE i = k
    <3>1. v \in d.P[i] /\ d.P[i] \cap S = {}
      BY <1>1, <1>2, <2>1
    <3>. QED  BY <3>1
  <2>2. CASE i # k
    <3>1. v \notin d.P[i] /\ i \in DOMAIN d.P \ U
      BY <1>1, <1>3, <2>2
    <3>2. PICK s \in S : d.P[i] \cap S = {s}
      BY <1>2, <3>1
    <3>3. d.P[i] \cap (S \cup {v}) = {s}
      BY <3>1, <3>2
    <3>. QED  BY <3>3
  <2>. QED  BY <2>1, <2>2
<1>4. \A u \in S \cup {v} : d.vertex2Ppart[u] \notin U \ {k}
  BY <1>2
<1>. QED  BY <1>2, <1>3, <1>4 DEF Chosen

(* With no P-part open, what is chosen is a selection.                     *)
LEMMA ChosenIsSelected ==
  ASSUME NEW d, Sound(d), NEW S, Chosen(d, S, {}), Fit(d, S, S)
  PROVE  Selected(d, S)
<1>1. /\ DOMAIN d.P = 1 .. Len(d.P)
      /\ \A v \in d.V : /\ d.vertex2Ppart[v] \in 1 .. Len(d.P)
                        /\ d.vertex2Qpart[v] \in 1 .. Len(d.Q)
      /\ \A v \in d.V, j \in 1 .. Len(d.Q) : v \in d.Q[j] <=> d.vertex2Qpart[v] = j
  BY PartNumbers
<1>2. S \subseteq d.V /\ \A i \in DOMAIN d.P : \E s \in S : d.P[i] \cap S = {s}
  BY DEF Chosen
<1>3. \A v \in d.V : \E s \in S : Part(d, v) \cap S = {s}
  BY <1>1, <1>2 DEF Part
<1>4. \A u, w \in S : w \in QPart(d, u) => {u, w} \notin d.E
  BY <1>1, <1>2 DEF QPart, Fit
<1>. QED  BY <1>2, <1>3, <1>4 DEF Selected

-----------------------------------------------------------------------------
(* The 2-step heuristics.                                                  *)

(* Between two turns of first_step: no vertex that can still be taken      *)
(* conflicts with a chosen one, and the pairs A have the edges between the *)
(* Q-parts of the chosen vertices.                                         *)
Pairs(d, S, A) ==
  \A u, w \in S :
    ({u, w} \in d.E /\ d.vertex2Qpart[u] < d.vertex2Qpart[w]) =>
      <<d.vertex2Qpart[u], d.vertex2Qpart[w]>> \in A

Selecting(d, S, R, U, A) ==
  /\ Chosen(d, S, U)
  /\ Fit(d, S \cup (d.V \ R), S)
  /\ Pairs(d, S, A)

(* Nothing is chosen, nothing can be wrong. *)
LEMMA SelectingStarts ==
  ASSUME NEW d
  PROVE  Selecting(d, {}, {}, DOMAIN d.P, {})
BY DEF Selecting, Chosen, Fit, Pairs

(* SelectVertex takes a vertex and rules out those in conflict with it.    *)
LEMMA SelectVertexFits ==
  ASSUME Sound(dpcp), NEW v \in dpcp.V \ removed, Ppart(v) \in unprocessed,
         Selecting(dpcp, selected, removed, unprocessed, adj)
  PROVE  Selecting(dpcp, selected \cup {v}, removed \cup InvalidatedBySelection(v),
                   unprocessed \ {Ppart(v)}, adj \cup NewPairs(v))
<1> DEFINE S == selected \cup {v}
           R == removed \cup InvalidatedBySelection(v)
           A == adj \cup NewPairs(v)
<1>1. /\ Chosen(dpcp, selected, unprocessed)
      /\ Fit(dpcp, selected \cup (dpcp.V \ removed), selected)
      /\ Pairs(dpcp, selected, adj)
      /\ selected \subseteq dpcp.V
  BY DEF Selecting, Chosen
<1>2. Chosen(dpcp, S, unprocessed \ {Ppart(v)})
  BY <1>1, ChosenGrows DEF Ppart
<1>3. {v, v} \notin dpcp.E /\ \A u, w : {u, w} = {w, u}
  BY PartNumbers
<1>4. Fit(dpcp, S \cup (dpcp.V \ R), S)
  <2>1. SUFFICES ASSUME NEW x \in S \cup (dpcp.V \ R), NEW w \in S,
                        dpcp.vertex2Qpart[x] = dpcp.vertex2Qpart[w]
                 PROVE  {x, w} \notin dpcp.E
    BY DEF Fit
  <2>2. CASE w \in selected
    BY <1>1, <2>1, <2>2 DEF Fit
  <2>3. CASE w = v /\ x \in selected
    <3>1. {v, x} \notin dpcp.E
      BY <1>1, <2>1, <2>3 DEF Fit
    <3>. QED  BY <1>3, <2>3, <3>1
  <2>4. CASE w = v /\ x = v
    BY <1>3, <2>4
  <2>5. CASE w = v /\ x \in dpcp.V \ R
    BY <2>1, <2>5 DEF InvalidatedBySelection, Neighbours, Qpart
  <2>. QED  BY <2>1, <2>2, <2>3, <2>4, <2>5
<1>5. Pairs(dpcp, S, A)
  <2>1. SUFFICES ASSUME NEW u \in S, NEW w \in S, {u, w} \in dpcp.E,
                        dpcp.vertex2Qpart[u] < dpcp.vertex2Qpart[w]
                 PROVE  <<dpcp.vertex2Qpart[u], dpcp.vertex2Qpart[w]>> \in A
    BY DEF Pairs
  <2> DEFINE p == <<dpcp.vertex2Qpart[u], dpcp.vertex2Qpart[w]>>
  <2>2. p \in QPairs
    BY <1>1, PartNumbers DEF QPairs
  <2>3. CASE u \in selected /\ w \in selected
    BY <1>1, <2>1, <2>3 DEF Pairs
  <2>4. CASE u = v /\ w \in selected
    <3>1. w \in selected \cap Neighbours(dpcp, v) /\ {p[1], p[2]} = {Qpart(w), Qpart(v)}
      BY <1>1, <1>3, <2>1, <2>4 DEF Neighbours, Qpart
    <3>. QED  BY <2>1, <2>2, <3>1 DEF NewPairs
  <2>5. CASE w = v /\ u \in selected
    <3>1. u \in selected \cap Neighbours(dpcp, v) /\ {p[1], p[2]} = {Qpart(u), Qpart(v)}
      BY <1>1, <2>1, <2>5 DEF Neighbours, Qpart
    <3>. QED  BY <2>1, <2>2, <3>1 DEF NewPairs
  <2>6. ~(u = v /\ w = v)
    BY <1>3, <2>1
  <2>. QED  BY <2>1, <2>3, <2>4, <2>5, <2>6
<1>. QED  BY <1>2, <1>4, <1>5 DEF Selecting

(* DSATUR on the Q-parts of a selection colours the selection.             *)
LEMMA CollapsedIsWhole ==
  ASSUME Sound(dpcp), NEW S, NEW A, Selected(dpcp, S), Fit(dpcp, S, S),
         Pairs(dpcp, S, A), NEW g \in Collapsed(S, A)
  PROVE  Whole(dpcp, g) /\ DOMAIN g = S
<1> DEFINE nodes == {Qpart(v) : v \in S}
<1>1. PICK f \in COLORdsatur(nodes, A) : g = [v \in S |-> f[Qpart(v)]]
  BY DEF Collapsed
<1>2. /\ S \subseteq dpcp.V /\ Len(dpcp.Q) \in Nat
      /\ \A v \in S : Qpart(v) \in 1 .. Len(dpcp.Q)
  BY PartNumbers DEF Selected, Qpart
<1>3. IsFiniteSet(nodes)
  <2>1. IsFiniteSet(1 .. Len(dpcp.Q))
    BY <1>2, FS_Interval
  <2>2. nodes \in SUBSET (1 .. Len(dpcp.Q))
    BY <1>2
  <2>. HIDE DEF nodes
  <2>. QED  BY <2>1, <2>2, FS_Subset
<1>4. Partial(f, nodes, A) /\ DOMAIN f = nodes
  BY <1>1, <1>3, DsaturColours
<1>5. /\ DOMAIN g = S /\ g = [v \in S |-> g[v]]
      /\ \A v \in S : g[v] = f[Qpart(v)] /\ Qpart(v) \in DOMAIN f
  BY <1>1, <1>4
<1>6. Range(g) = Range(f)
  BY <1>4, <1>5 DEF Range
<1>7. Consecutive(g)
  BY <1>4, <1>5, <1>6 DEF Partial, Consecutive
<1>8. ASSUME NEW u \in S, NEW w \in S, {u, w} \in dpcp.E
      PROVE  g[u] # g[w]
  <2>1. {w, u} \in dpcp.E /\ Qpart(u) # Qpart(w)
    <3>1. {u, w} = {w, u}
      OBVIOUS
    <3>. QED  BY <1>8, <3>1 DEF Fit, Qpart
  <2>2. ASSUME NEW x \in S, NEW y \in S, {x, y} \in dpcp.E, Qpart(x) < Qpart(y)
        PROVE  g[x] # g[y]
    <3> DEFINE p == <<Qpart(x), Qpart(y)>>
    <3>1. p \in A
      BY <2>2 DEF Pairs, Qpart
    <3>2. p[1] = Qpart(x) /\ p[2] = Qpart(y) /\ p[1] # p[2]
      BY <1>2, <2>2
    <3>3. p[1] \in DOMAIN f /\ p[2] \in DOMAIN f
      BY <1>5, <3>2
    <3>. HIDE DEF p
    <3>4. f[p[1]] # f[p[2]]
      BY <1>4, <3>1, <3>2, <3>3 DEF Partial
    <3>. QED  BY <1>5, <3>2, <3>4
  <2>3. Qpart(u) < Qpart(w) \/ Qpart(w) < Qpart(u)
    BY <1>2, <2>1
  <2>. QED  BY <1>8, <2>1, <2>2, <2>3
<1>9. \A u, w \in S : dpcp.vertex2Qpart[u] = dpcp.vertex2Qpart[w] => g[u] = g[w]
  BY <1>5 DEF Qpart
<1>10. Coloured(dpcp, g)
  <2>1. \A u, w \in DOMAIN g :
          /\ {u, w} \in dpcp.E => g[u] # g[w]
          /\ dpcp.vertex2Qpart[u] = dpcp.vertex2Qpart[w] => g[u] = g[w]
    BY <1>5, <1>8, <1>9
  <2>2. DOMAIN g \subseteq dpcp.V
    BY <1>2, <1>5
  <2>. QED  BY <1>7, <2>1, <2>2 DEF Coloured
<1>. QED  BY <1>5, <1>10 DEF Whole
-----------------------------------------------------------------------------
(* The 1-step heuristic.                                                   *)

(* The neighbours that v has outside its P-part and its Q-part, and their  *)
(* colours.                                                                *)
Beside(d, v) ==
  {u \in Neighbours(d, v) : /\ d.vertex2Ppart[u] # d.vertex2Ppart[v]
                            /\ d.vertex2Qpart[u] # d.vertex2Qpart[v]}

Around(d, f, v) == {f[u] : u \in Beside(d, v) \cap DOMAIN f}

(* Vertex v can take the colour that f gave its Q-part, if any. *)
CanTake(d, f, v) ==
  \A w \in DOMAIN f :
    d.vertex2Qpart[v] = d.vertex2Qpart[w] => {v, w} \notin d.E /\ f[w] \notin Around(d, f, v)

(* Between two turns of single_step.                                       *)
Stepping(d, f, R, U) ==
  /\ Coloured(d, f)
  /\ Chosen(d, DOMAIN f, U)
  /\ \A i \in U : d.P[i] \ R # {}
  /\ \A v \in d.V \ R : d.vertex2Ppart[v] \in U => CanTake(d, f, v)

(* Nothing is coloured, nothing can be wrong. *)
LEMMA SteppingStarts ==
  ASSUME NEW d, Sound(d)
  PROVE  Stepping(d, <<>>, {}, DOMAIN d.P)
<1>1. DOMAIN <<>> = {}
  OBVIOUS
<1>2. Range(<<>>) = {} /\ Cardinality({}) = 0 /\ 0 .. 0 - 1 = {}
  BY <1>1, FS_EmptySet DEF Range
<1>3. Consecutive(<<>>)
  <2>1. <<>> = [v \in {} |-> <<>>[v]]
    BY <1>1
  <2>2. <<>> = [v \in DOMAIN <<>> |-> <<>>[v]]
    BY <1>1, <2>1
  <2>3. Range(<<>>) = 0 .. Cardinality(Range(<<>>)) - 1
    BY <1>2
  <2>. QED  BY <1>1, <2>2, <2>3 DEF Consecutive
<1>4. Coloured(d, <<>>) /\ \A v : CanTake(d, <<>>, v)
  BY <1>1, <1>3 DEF Coloured, CanTake
<1>5. \A i \in DOMAIN d.P : d.P[i] \ {} # {}
  BY PartNumbers
<1>. QED  BY <1>1, <1>4, <1>5 DEF Stepping, Chosen

(* Of finitely many numbers, one is greatest. *)
LEMMA GreatestExists ==
  ASSUME NEW T \in SUBSET Nat, T # {}, NEW n \in Nat, \A x \in T : x <= n
  PROVE  \E m \in T : \A x \in T : x <= m
<1> DEFINE D == {n - x : x \in T}
<1>1. D \in SUBSET Nat /\ D # {}
  <2>1. \A x \in T : n - x \in Nat
    OBVIOUS
  <2>. QED  BY <2>1
<1>2. PICK y \in D : \A z \in D : y <= z
  BY <1>1, LeastNatural
<1>3. PICK m \in T : y = n - m
  BY <1>2
<1>4. \A x \in T : x <= m
  <2>1. \A x \in T : n - m <= n - x
    BY <1>2, <1>3
  <2>. QED  BY <1>3, <2>1
<1>. QED  BY <1>4

(* Of the P-parts, one has the greatest saturation, and the fewest         *)
(* candidates among those.                                                 *)
LEMMA BestExists ==
  ASSUME NEW U, U # {}, NEW g \in [U -> Nat], NEW h \in [U -> Nat],
         NEW n \in Nat, \A i \in U : g[i] <= n
  PROVE  \E i \in U : \A k \in U :
           \/ g[i] > g[k]
           \/ g[i] = g[k] /\ h[i] <= h[k]
<1> DEFINE G == {g[i] : i \in U}
<1>1. PICK m \in G : \A x \in G : x <= m
  <2>1. G \in SUBSET Nat /\ G # {} /\ \A x \in G : x <= n
    OBVIOUS
  <2>. HIDE DEF G
  <2>. QED  BY <2>1, GreatestExists
<1> DEFINE H == {h[i] : i \in {j \in U : g[j] = m}}
<1>2. PICK y \in H : \A x \in H : y <= x
  <2>1. H \in SUBSET Nat /\ H # {}
    OBVIOUS
  <2>. HIDE DEF H
  <2>. QED  BY <2>1, LeastNatural
<1>3. PICK i \in U : g[i] = m /\ h[i] = y
  BY <1>2
<1>4. ASSUME NEW k \in U
      PROVE  g[i] > g[k] \/ (g[i] = g[k] /\ h[i] <= h[k])
  <2>1. g[k] <= m /\ g[k] \in Nat /\ m \in Nat
    BY <1>1
  <2>2. CASE g[k] = m
    BY <1>2, <1>3, <2>2
  <2>3. CASE g[k] # m
    BY <1>3, <2>1, <2>3
  <2>. QED  BY <2>2, <2>3
<1>. QED  BY <1>4

(* The vertex that single_step takes is a candidate of an open P-part.     *)
LEMMA NextIsCandidate ==
  ASSUME Sound(dpcp), unprocessed # {}, unprocessed \subseteq DOMAIN dpcp.P,
         \A i \in unprocessed : Candidates(i) # {},
         Consecutive(col), DOMAIN col \subseteq dpcp.V,
         NEW v \in NextVertices1S
  PROVE  v \in dpcp.V \ removed /\ Ppart(v) \in unprocessed
<1> DEFINE g == [i \in unprocessed |-> PartSaturation(i)]
           h == [i \in unprocessed |-> Cardinality(Candidates(i))]
           n == Cardinality(dpcp.V)
           B == {i \in unprocessed : \A k \in unprocessed :
                   \/ PartSaturation(i) > PartSaturation(k)
                   \/ /\ PartSaturation(i) = PartSaturation(k)
                      /\ Cardinality(Candidates(i)) <= Cardinality(Candidates(k))}
<1>1. /\ IsFiniteSet(dpcp.V) /\ n \in Nat /\ DOMAIN dpcp.P = 1 .. Len(dpcp.P)
      /\ Len(dpcp.P) \in Nat
      /\ \A i \in 1 .. Len(dpcp.P) : dpcp.P[i] \subseteq dpcp.V
      /\ \A u \in dpcp.V, i \in 1 .. Len(dpcp.P) : u \in dpcp.P[i] <=> Ppart(u) = i
  BY PartNumbers, FS_CardinalityType DEF Ppart
<1>2. \A u : Saturation(u) \in Nat /\ Saturation(u) <= n
  <2>1. TAKE u
  <2>2. IsFiniteSet(DOMAIN col) /\ Cardinality(DOMAIN col) <= n
    BY <1>1, FS_Subset
  <2>3. /\ IsFiniteSet(Range(col)) /\ Cardinality(Range(col)) \in Nat
        /\ Cardinality(DOMAIN col) \in Nat
        /\ Cardinality(Range(col)) <= Cardinality(DOMAIN col)
    BY <2>2, RangeIsSmall DEF Consecutive
  <2>4. AdjColours(u) \in SUBSET Range(col)
    BY DEF AdjColours, Range
  <2>5. /\ IsFiniteSet(AdjColours(u)) /\ Cardinality(AdjColours(u)) \in Nat
        /\ Cardinality(AdjColours(u)) <= Cardinality(Range(col))
    BY <2>3, <2>4, FS_Subset, FS_CardinalityType
  <2>. QED  BY <1>1, <2>2, <2>3, <2>5 DEF Saturation
<1>3. \A i \in unprocessed : PartSaturation(i) \in Nat /\ PartSaturation(i) <= n
  <2>1. TAKE i \in unprocessed
  <2> DEFINE T == {Saturation(u) : u \in Candidates(i)}
  <2>2. T \in SUBSET Nat /\ T # {} /\ \A x \in T : x <= n
    BY <1>2
  <2>. HIDE DEF T
  <2>3. Min(T) \in T
    BY <2>2, MinIsLeast
  <2>4. Min(T) \in Nat /\ Min(T) <= n
    BY <2>2, <2>3
  <2>. QED  BY <2>4 DEF PartSaturation, T
<1>4. \A i \in unprocessed : Cardinality(Candidates(i)) \in Nat
  <2>1. TAKE i \in unprocessed
  <2>2. Candidates(i) \in SUBSET dpcp.V
    BY <1>1 DEF Candidates
  <2>. QED  BY <1>1, <2>2, FS_Subset, FS_CardinalityType
<1>5. \E i \in unprocessed : \A k \in unprocessed :
        \/ g[i] > g[k]
        \/ g[i] = g[k] /\ h[i] <= h[k]
  <2>1. /\ g \in [unprocessed -> Nat] /\ h \in [unprocessed -> Nat]
        /\ \A i \in unprocessed : g[i] <= n
    BY <1>3, <1>4
  <2>2. n \in Nat /\ unprocessed # {}
    BY <1>1
  <2>. HIDE DEF g, h, n, B
  <2>3. PICK U : U = unprocessed
    OBVIOUS
  <2>4. U # {} /\ g \in [U -> Nat] /\ h \in [U -> Nat] /\ n \in Nat
        /\ \A i \in U : g[i] <= n
    BY <2>1, <2>2, <2>3
  <2>5. \E i \in U : \A k \in U :
          \/ g[i] > g[k]
          \/ g[i] = g[k] /\ h[i] <= h[k]
    BY ZenonT(60), <2>4, BestExists
  <2>. QED  BY <2>3, <2>5
<1>6. B # {}
  BY <1>5
<1>7. B \in SUBSET Nat /\ B \subseteq unprocessed
  BY <1>1
<1>. HIDE DEF B
<1>8. Min(B) \in unprocessed
  BY <1>6, <1>7, MinIsLeast
<1>9. v \in Candidates(Min(B))
  BY DEF NextVertices1S, LeastSaturated, B
<1>. QED  BY <1>1, <1>8, <1>9 DEF Candidates
(* The colour that single_step gives v: one in use or the next one, that   *)
(* of the Q-part of v if it has one, and none of a neighbour of v.         *)
LEMMA ChoiceFits ==
  ASSUME Sound(dpcp), Coloured(dpcp, col), NEW v \in dpcp.V, CanTake(dpcp, col, v),
         NEW c \in ColourChoice(v)
  PROVE  /\ c \in 0 .. Cardinality(Range(col))
         /\ c \notin Around(dpcp, col, v)
         /\ \A w \in DOMAIN col : Qpart(w) = Qpart(v) => col[w] = c
         /\ ~Fails(v, c)
<1> DEFINE k == Cardinality(Range(col))
           best == {a \in OldColours(v) : \A b \in OldColours(v) :
                      Cardinality(InvalidatedByColour(v, a))
                        <= Cardinality(InvalidatedByColour(v, b))}
<1>1. /\ k \in Nat /\ Range(col) = 0 .. k - 1 /\ NColours(col) = k
      /\ DOMAIN col \subseteq dpcp.V
  <2>1. IsFiniteSet(DOMAIN col) /\ Consecutive(col)
    BY PartNumbers, FS_Subset DEF Coloured
  <2>. QED  BY <2>1, RangeIsSmall DEF Consecutive, NColours, Coloured
<1>2. AdjColours(v) = Around(dpcp, col, v)
  BY DEF AdjColours, Around, Outer, Beside, Ppart, Qpart
<1>3. Around(dpcp, col, v) \subseteq Range(col)
  BY DEF Around, Range
<1>. HIDE DEF k, best
<1>4. CASE ColoursOfQ(Qpart(v)) # {}
  <2>1. c \in ColoursOfQ(Qpart(v)) /\ ~Fails(v, c)
    BY <1>4 DEF ColourChoice
  <2>2. PICK x \in DOMAIN col : Qpart(x) = Qpart(v) /\ c = col[x]
    BY <2>1 DEF ColoursOfQ
  <2>3. c \notin Around(dpcp, col, v)
    BY <2>2 DEF CanTake, Qpart
  <2>4. \A w \in DOMAIN col : Qpart(w) = Qpart(v) => col[w] = c
    BY <2>2 DEF Coloured, Qpart
  <2>5. c \in 0 .. k - 1
    BY <1>1, <2>2 DEF Range
  <2>6. c \in 0 .. k
    BY <1>1, <2>5
  <2>. QED  BY <2>1, <2>3, <2>4, <2>6 DEF k
<1>5. ColoursOfQ(Qpart(v)) = {} => \A w \in DOMAIN col : Qpart(w) # Qpart(v)
  BY DEF ColoursOfQ
<1>6. CASE ColoursOfQ(Qpart(v)) = {} /\ best # {}
  <2>1. c = Min(best)
    BY <1>6 DEF ColourChoice, best
  <2>2. best \in SUBSET Nat /\ best \subseteq OldColours(v)
    BY <1>1 DEF best, OldColours
  <2>3. c \in OldColours(v)
    BY <1>6, <2>1, <2>2, MinIsLeast
  <2>4. c \in 0 .. k - 1 /\ c \notin AdjColours(v) /\ ~Fails(v, c)
    BY <1>1, <2>3 DEF OldColours
  <2>5. c \in 0 .. k
    BY <1>1, <2>4
  <2>. QED  BY <1>2, <1>5, <1>6, <2>4, <2>5 DEF k
<1>7. CASE ColoursOfQ(Qpart(v)) = {} /\ best = {}
  <2>1. c = k /\ ~Fails(v, c)
    BY <1>1, <1>7 DEF ColourChoice, best, NewColour
  <2>2. c \in 0 .. k /\ c \notin Range(col)
    BY <1>1, <2>1
  <2>. QED  BY <1>3, <1>5, <1>7, <2>1, <2>2 DEF k
<1>. QED  BY <1>4, <1>6, <1>7

(* ColourVertex colours a vertex and rules out those that can no longer    *)
(* take the colour of their Q-part.                                        *)
LEMMA ColourVertexFits ==
  ASSUME Sound(dpcp), Stepping(dpcp, col, removed, unprocessed),
         NEW v \in dpcp.V \ removed, Ppart(v) \in unprocessed, NEW c \in ColourChoice(v)
  PROVE  Stepping(dpcp, Recoloured(col, v, c),
                  removed \cup InvalidatedByColour(v, c) \cup (dpcp.P[Ppart(v)] \ {v}),
                  unprocessed \ {Ppart(v)})
<1> DEFINE g == Recoloured(col, v, c)
           S == DOMAIN col
           inv == InvalidatedByColour(v, c)
           R == removed \cup inv \cup (dpcp.P[Ppart(v)] \ {v})
           U == unprocessed \ {Ppart(v)}
<1>1. /\ Coloured(dpcp, col) /\ Chosen(dpcp, S, unprocessed)
      /\ \A i \in unprocessed : dpcp.P[i] \ removed # {}
      /\ \A u \in dpcp.V \ removed : Ppart(u) \in unprocessed => CanTake(dpcp, col, u)
  BY DEF Stepping, Ppart
<1>2. /\ IsFiniteSet(dpcp.V) /\ DOMAIN dpcp.P = 1 .. Len(dpcp.P)
      /\ \A u \in dpcp.V, i \in 1 .. Len(dpcp.P) : u \in dpcp.P[i] <=> Ppart(u) = i
      /\ \A i \in 1 .. Len(dpcp.P) : dpcp.P[i] \subseteq dpcp.V
      /\ \A u \in dpcp.V : Qpart(u) \in 1 .. Len(dpcp.Q)
      /\ \A u \in dpcp.V, j \in 1 .. Len(dpcp.Q) : u \in dpcp.Q[j] <=> Qpart(u) = j
      /\ \A u : {u, u} \notin dpcp.E
      /\ \A u, w : {u, w} = {w, u}
  BY PartNumbers DEF Ppart, Qpart
<1>3. /\ S \subseteq dpcp.V /\ unprocessed \subseteq DOMAIN dpcp.P
      /\ \A u \in S : Ppart(u) \notin unprocessed
  BY <1>1 DEF Chosen, Ppart
<1>4. v \notin S /\ Chosen(dpcp, S \cup {v}, U)
  BY <1>1, ChosenGrows DEF Ppart
<1>5. /\ c \in 0 .. Cardinality(Range(col))
      /\ c \notin Around(dpcp, col, v)
      /\ \A w \in S : Qpart(w) = Qpart(v) => col[w] = c
      /\ ~Fails(v, c)
  BY <1>1, ChoiceFits
<1>6. Consecutive(g)
  <2>1. IsFiniteSet(S) /\ Consecutive(col)
    BY <1>1, <1>2, <1>3, FS_Subset DEF Coloured
  <2>. QED  BY <1>4, <1>5, <2>1, RecolouredIsConsecutive
<1>7. DOMAIN g = S \cup {v} /\ g[v] = c /\ \A u \in S : g[u] = col[u]
  BY <1>4 DEF Recoloured
<1>8. \A u : Outer(u) = Beside(dpcp, u) /\ AdjColours(u) = Around(dpcp, col, u)
  BY DEF AdjColours, Around, Outer, Beside, Ppart, Qpart
<1>. HIDE DEF g, R, U, inv
<1>9. ASSUME NEW w \in S, {v, w} \in dpcp.E
      PROVE  col[w] # c
  <2>1. w \in Neighbours(dpcp, v) /\ Ppart(w) # Ppart(v)
    BY <1>2, <1>3, <1>9 DEF Neighbours
  <2>2. Qpart(w) # Qpart(v)
    BY <1>1, <1>9 DEF CanTake, Qpart
  <2>3. w \in Beside(dpcp, v)
    BY <2>1, <2>2 DEF Beside, Ppart, Qpart
  <2>4. col[w] \in Around(dpcp, col, v)
    BY <2>3 DEF Around
  <2>. QED  BY <1>5, <2>4
<1>10. Coloured(dpcp, g)
  <2>1. ASSUME NEW u \in DOMAIN g, NEW w \in DOMAIN g
        PROVE  /\ {u, w} \in dpcp.E => g[u] # g[w]
               /\ Qpart(u) = Qpart(w) => g[u] = g[w]
    <3>1. CASE u \in S /\ w \in S
      BY <1>1, <1>7, <3>1 DEF Coloured, Qpart
    <3>2. CASE u = v /\ w \in S
      BY <1>5, <1>7, <1>9, <3>2
    <3>3. CASE u \in S /\ w = v
      <4>1. {u, w} = {w, u}
        OBVIOUS
      <4>. QED  BY <1>5, <1>7, <1>9, <3>3, <4>1
    <3>4. CASE u = v /\ w = v
      BY <1>2, <3>4
    <3>. QED  BY <1>7, <2>1, <3>1, <3>2, <3>3, <3>4
  <2>2. DOMAIN g \subseteq dpcp.V
    BY <1>3, <1>7
  <2>. QED  BY <1>6, <2>1, <2>2 DEF Coloured, Qpart
<1>11. ASSUME NEW i \in U
       PROVE  dpcp.P[i] \ R # {}
  <2>1. i \in DOMAIN dpcp.P /\ i \in unprocessed /\ i # Ppart(v)
    BY <1>3, <1>11 DEF U
  <2>2. dpcp.P[i] \cap dpcp.P[Ppart(v)] = {}
    BY <1>2, <1>3, <2>1
  <2>3. dpcp.P[i] \ removed # {}
    BY <1>1, <2>1
  <2>4. inv \cap dpcp.P[i] = {} \/ ~(dpcp.P[i] \ removed \subseteq inv)
    BY <1>5, <2>1 DEF Fails, Candidates, inv
  <2>. QED  BY <2>2, <2>3, <2>4 DEF R
<1>12. ASSUME NEW u \in dpcp.V \ R, Ppart(u) \in U
       PROVE  CanTake(dpcp, g, u)
  <2>1. /\ u \in dpcp.V /\ u \notin removed /\ u \notin inv
        /\ Ppart(u) \in unprocessed /\ u \notin S
    BY <1>3, <1>12 DEF R, U
  <2>2. CanTake(dpcp, col, u)
    BY <1>1, <2>1
  <2>3. \A x \in Around(dpcp, g, u) : x \in Around(dpcp, col, u) \/
          (x = c /\ v \in Beside(dpcp, u))
    BY <1>7 DEF Around
  <2>4. ASSUME NEW w \in DOMAIN g, Qpart(u) = Qpart(w)
        PROVE  {u, w} \notin dpcp.E /\ g[w] \notin Around(dpcp, g, u)
    <3>1. CASE w = v
      <4>1. u \in dpcp.Q[Qpart(v)] \ (removed \cup S)
        BY <1>2, <2>1, <2>4, <3>1
      <4>2. u \notin Neighbours(dpcp, v) /\ c \notin AdjColours(u)
        BY <2>1, <4>1 DEF inv, InvalidatedByColour
      <4>3. {u, w} \notin dpcp.E
        BY <2>1, <3>1, <4>2 DEF Neighbours
      <4>4. v \notin Beside(dpcp, u)
        BY <2>4, <3>1 DEF Beside, Qpart
      <4>. QED  BY <1>7, <1>8, <2>3, <3>1, <4>2, <4>3, <4>4
    <3>2. CASE w \in S
      <4>1. {u, w} \notin dpcp.E /\ col[w] \notin Around(dpcp, col, u) /\ g[w] = col[w]
        BY <1>7, <2>2, <2>4, <3>2 DEF CanTake, Qpart
      <4>2. ASSUME v \in Beside(dpcp, u), col[w] = c PROVE FALSE
        <5>1. u \in Beside(dpcp, v)
          <6>1. {v, u} \in dpcp.E /\ {u, v} = {v, u}
            BY <4>2 DEF Beside, Neighbours
          <6>. QED  BY <2>1, <4>2, <6>1 DEF Beside, Neighbours
        <5>2. c \in ColoursOfQ(Qpart(u))
          BY <2>4, <3>2, <4>2 DEF ColoursOfQ
        <5>3. u \in inv
          BY <1>8, <2>1, <5>1, <5>2 DEF inv, InvalidatedByColour
        <5>. QED  BY <2>1, <5>3
      <4>. QED  BY <2>3, <4>1, <4>2
    <3>. QED  BY <1>7, <2>4, <3>1, <3>2
  <2>. QED  BY <2>4 DEF CanTake, Qpart
<1>. QED  BY <1>4, <1>7, <1>10, <1>11, <1>12 DEF Stepping, Ppart, g, R, U, inv
-----------------------------------------------------------------------------
(* The feasibility checks.                                                 *)

(* An edge stays in the graph that is checked iff its ends are in the same *)
(* P-part or in the same Q-part.                                           *)
LEMMA CheckEdgesAre ==
  ASSUME NEW u, NEW w, {u, w} \in dpcp.E
  PROVE  {u, w} \in CheckEdges <=> Ppart(u) = Ppart(w) \/ Qpart(u) = Qpart(w)
<1>1. /\ {Ppart(v) : v \in {u, w}} = {Ppart(u), Ppart(w)}
      /\ {Qpart(v) : v \in {u, w}} = {Qpart(u), Qpart(w)}
  OBVIOUS
<1>2. \A a, b : Cardinality({a, b}) = 1 <=> a = b
  <2>1. TAKE a, b
  <2>2. CASE a = b
    <3>1. {a, b} = {a}
      BY <2>2
    <3>. QED  BY <2>2, <3>1, FS_Singleton
  <2>3. CASE a # b
    <3>1. Cardinality({a, b}) = 2
      BY <2>3, PairHasTwo
    <3>. QED  BY <2>3, <3>1
  <2>. QED  BY <2>2, <2>3
<1>3. /\ Cardinality({Ppart(v) : v \in {u, w}}) = 1 <=> Ppart(u) = Ppart(w)
      /\ Cardinality({Qpart(v) : v \in {u, w}}) = 1 <=> Qpart(u) = Qpart(w)
  BY ZenonT(60), <1>1, <1>2
<1>. QED  BY <1>3 DEF CheckEdges

(* An edge joins two vertices. *)
LEMMA EdgeEnds ==
  ASSUME NEW d, Sound(d), NEW e \in d.E
  PROVE  \E u, w \in d.V : e = {u, w}
<1>1. e \in SUBSET d.V /\ Cardinality(e) = 2 /\ IsFiniteSet(d.V)
  BY DEF Sound
<1>2. IsFiniteSet(e)
  BY <1>1, FS_Subset
<1>3. PICK u \in e : TRUE
  BY <1>1, <1>2, FS_EmptySet
<1>4. IsFiniteSet(e \ {u}) /\ Cardinality(e \ {u}) = 1
  BY <1>1, <1>2, <1>3, FS_RemoveElement
<1>5. PICK w \in e \ {u} : e \ {u} = {w}
  BY <1>4, OneElement
<1>6. e = {u, w} /\ u \in d.V /\ w \in d.V
  BY <1>1, <1>3, <1>5
<1>. QED  BY <1>6

(* The vertices of S that are adjacent are in different parts.             *)
Apart(S) ==
  \A u, w \in S : {u, w} \in dpcp.E => Ppart(u) # Ppart(w) /\ Qpart(u) # Qpart(w)

(* A set that is stable in the graph of the checks is one whose edges of
   the input join different P-parts and different Q-parts. *)
LEMMA StableIsApart ==
  ASSUME Sound(dpcp), NEW S \in SUBSET dpcp.V
  PROVE  (\A e \in CheckEdges : ~(e \subseteq S)) <=> Apart(S)
<1>1. ASSUME \A e \in CheckEdges : ~(e \subseteq S)
      PROVE  Apart(S)
  <2>1. SUFFICES ASSUME NEW u \in S, NEW w \in S, {u, w} \in dpcp.E
                 PROVE  Ppart(u) # Ppart(w) /\ Qpart(u) # Qpart(w)
    BY DEF Apart
  <2>2. {u, w} \notin CheckEdges
    BY <1>1, <2>1
  <2>. QED  BY <2>1, <2>2, CheckEdgesAre
<1>2. ASSUME Apart(S), NEW e \in CheckEdges, e \subseteq S
      PROVE  FALSE
  <2>1. e \in dpcp.E
    BY <1>2 DEF CheckEdges
  <2>2. PICK u, w \in dpcp.V : e = {u, w}
    BY <2>1, EdgeEnds
  <2>3. u \in S /\ w \in S
    BY <1>2, <2>2
  <2>4. {u, w} \in dpcp.E /\ {u, w} \in CheckEdges
    BY <1>2, <2>1, <2>2
  <2>. QED  BY <1>2, <2>3, <2>4, CheckEdgesAre DEF Apart
<1>. QED  BY <1>1, <1>2

(* A set with at most one vertex of each P-part is no larger than P, and a *)
(* selection is as large.                                                  *)
LEMMA OneOfEachPart ==
  ASSUME NEW d, Sound(d), NEW S \in SUBSET d.V,
         \A u, w \in S : u # w => d.vertex2Ppart[u] # d.vertex2Ppart[w]
  PROVE  /\ Cardinality(S) \in Nat /\ Cardinality(S) <= Len(d.P)
         /\ Cardinality(S) = Len(d.P) <=>
              \A i \in 1 .. Len(d.P) : \E s \in S : d.vertex2Ppart[s] = i
<1> DEFINE f == [v \in S |-> d.vertex2Ppart[v]]
           T == 1 .. Len(d.P)
<1>1. /\ Len(d.P) \in Nat /\ IsFiniteSet(d.V)
      /\ \A v \in d.V : d.vertex2Ppart[v] \in T
  BY PartNumbers
<1>2. IsFiniteSet(S) /\ Cardinality(S) \in Nat
  BY <1>1, FS_Subset, FS_CardinalityType
<1>3. IsFiniteSet(T) /\ Cardinality(T) = Len(d.P)
  BY SMTT(60), <1>1, FS_Interval
<1>4. f \in Injection(S, T)
  BY <1>1 DEF Injection, IsInjective
<1>5. f \in Surjection(S, T) <=> \A i \in T : \E s \in S : d.vertex2Ppart[s] = i
  BY <1>1 DEF Surjection
<1>. HIDE DEF f, T
<1>6. /\ Cardinality(S) <= Cardinality(T)
      /\ Cardinality(S) = Cardinality(T) <=> f \in Surjection(S, T)
  BY <1>3, <1>4, FS_Injection
<1>. QED  BY <1>2, <1>3, <1>5, <1>6 DEF T

(* Of the numbers up to n in a set, the maximum is the greatest. *)
LEMMA MaxIsGreatest ==
  ASSUME NEW T \in SUBSET Nat, T # {}, NEW n \in Nat, \A x \in T : x <= n
  PROVE  Max(T) \in T /\ \A x \in T : x <= Max(T)
<1>1. \E m \in T : \A x \in T : m >= x
  BY GreatestExists
<1>. QED  BY <1>1 DEF Max

(* The maximum stable sets are those that are apart, of greatest size.     *)
LEMMA MaximumStableSetsAre ==
  ASSUME Sound(dpcp)
  PROVE  /\ \A S \in MaximumStableSets : S \in SUBSET dpcp.V /\ Apart(S)
         /\ \A T \in SUBSET dpcp.V : Apart(T) =>
              \E S \in MaximumStableSets : Cardinality(T) <= Cardinality(S)
<1> DEFINE stable == {S \in SUBSET dpcp.V : \A e \in CheckEdges : ~(e \subseteq S)}
           sizes == {Cardinality(S) : S \in stable}
<1>1. \A S \in SUBSET dpcp.V : S \in stable <=> Apart(S)
  BY StableIsApart
<1>2. MaximumStableSets = {S \in stable : Cardinality(S) = Max(sizes)}
  BY DEF MaximumStableSets
<1>3. IsFiniteSet(dpcp.V) /\ Cardinality(dpcp.V) \in Nat
  BY PartNumbers, FS_CardinalityType
<1>4. \A S \in SUBSET dpcp.V : Cardinality(S) \in Nat /\ Cardinality(S) <= Cardinality(dpcp.V)
  BY <1>3, FS_Subset, FS_CardinalityType
<1>5. ASSUME NEW T \in SUBSET dpcp.V, Apart(T)
      PROVE  \E S \in MaximumStableSets : Cardinality(T) <= Cardinality(S)
  <2>1. /\ sizes \in SUBSET Nat /\ Cardinality(T) \in sizes
        /\ \A x \in sizes : x <= Cardinality(dpcp.V)
    BY <1>1, <1>4, <1>5
  <2>. HIDE DEF sizes
  <2>2. Max(sizes) \in sizes /\ Cardinality(T) <= Max(sizes)
    BY <1>3, <2>1, MaxIsGreatest
  <2>3. PICK S \in stable : Cardinality(S) = Max(sizes)
    BY <2>2 DEF sizes
  <2>. QED  BY <1>2, <2>2, <2>3
<1>6. \A S \in MaximumStableSets : S \in SUBSET dpcp.V /\ Apart(S)
  BY <1>1, <1>2
<1>. QED  BY <1>5, <1>6

(* In a graph whose P-parts are cliques, a set that is apart has at most   *)
(* one vertex of each.                                                     *)
LEMMA ApartIsOneOfEach ==
  ASSUME Sound(dpcp), Cliques(dpcp), NEW S \in SUBSET dpcp.V, Apart(S)
  PROVE  \A u, w \in S : u # w => dpcp.vertex2Ppart[u] # dpcp.vertex2Ppart[w]
<1>1. SUFFICES ASSUME NEW u \in S, NEW w \in S, u # w,
                      dpcp.vertex2Ppart[u] = dpcp.vertex2Ppart[w]
               PROVE  FALSE
  OBVIOUS
<1>2. u \in Part(dpcp, u) /\ u \in Part(dpcp, w)
  BY <1>1, PartsAreVertices DEF Part
<1>3. {u, w} \in dpcp.E
  BY <1>1, <1>2 DEF Cliques
<1>. QED  BY <1>1, <1>3 DEF Apart, Ppart

(* A selection is apart. *)
LEMMA SelectedIsApart ==
  ASSUME Sound(dpcp), NEW S, Selected(dpcp, S)
  PROVE  /\ S \in SUBSET dpcp.V /\ Apart(S)
         /\ Cardinality(S) = Len(dpcp.P)
<1>1. /\ S \in SUBSET dpcp.V
      /\ \A v \in dpcp.V : \E s \in S : Part(dpcp, v) \cap S = {s}
      /\ \A u, w \in S : w \in QPart(dpcp, u) => {u, w} \notin dpcp.E
  BY DEF Selected
<1>2. /\ DOMAIN dpcp.P = 1 .. Len(dpcp.P)
      /\ \A v \in dpcp.V : /\ Ppart(v) \in 1 .. Len(dpcp.P)
                           /\ Qpart(v) \in 1 .. Len(dpcp.Q)
      /\ \A i \in 1 .. Len(dpcp.P) : dpcp.P[i] \subseteq dpcp.V /\ dpcp.P[i] # {}
      /\ \A v \in dpcp.V, i \in 1 .. Len(dpcp.P) : v \in dpcp.P[i] <=> Ppart(v) = i
      /\ \A v \in dpcp.V, j \in 1 .. Len(dpcp.Q) : v \in dpcp.Q[j] <=> Qpart(v) = j
      /\ \A v : {v, v} \notin dpcp.E
  BY PartNumbers DEF Ppart, Qpart
<1>3. ASSUME NEW u \in S, NEW w \in S, u # w PROVE Ppart(u) # Ppart(w)
  <2>1. u \in dpcp.V /\ w \in dpcp.V
    BY <1>1
  <2>2. PICK s \in S : Part(dpcp, u) \cap S = {s}
    BY <1>1, <2>1
  <2>3. Ppart(u) = Ppart(w) => u \in Part(dpcp, u) /\ w \in Part(dpcp, u)
    BY <1>2, <2>1 DEF Part, Ppart
  <2>. QED  BY <1>3, <2>2, <2>3
<1>4. ASSUME NEW u \in S, NEW w \in S, {u, w} \in dpcp.E
      PROVE  Ppart(u) # Ppart(w) /\ Qpart(u) # Qpart(w)
  <2>1. u # w
    BY <1>2, <1>4
  <2>2. w \notin QPart(dpcp, u)
    BY <1>1, <1>4
  <2>. QED  BY <1>1, <1>2, <1>3, <2>1, <2>2 DEF QPart, Qpart
<1>5. ASSUME NEW i \in 1 .. Len(dpcp.P) PROVE \E s \in S : Ppart(s) = i
  <2>1. PICK v \in dpcp.V : v \in dpcp.P[i] /\ Ppart(v) = i
    BY <1>2
  <2>2. PICK s \in S : Part(dpcp, v) \cap S = {s}
    BY <1>1
  <2>. QED  BY <1>1, <1>2, <2>1, <2>2 DEF Part, Ppart
<1>6. Cardinality(S) = Len(dpcp.P)
  BY <1>1, <1>3, <1>5, OneOfEachPart DEF Ppart
<1>. QED  BY <1>1, <1>4, <1>6 DEF Apart

(* A stable set that settles the check is a selection.                     *)
LEMMA FeasibleIsRight ==
  ASSUME Sound(dpcp), Cliques(dpcp), NEW check \in {1, 2},
         NEW S \in MaximumStableSets, Decides(check, S)
  PROVE  Selected(dpcp, S)
<1>1. S \in SUBSET dpcp.V /\ Apart(S)
  BY MaximumStableSetsAre
<1>2. \A u, w \in S : u # w => Ppart(u) # Ppart(w)
  BY <1>1, ApartIsOneOfEach DEF Ppart
<1>3. /\ Cardinality(S) \in Nat /\ Cardinality(S) <= Len(dpcp.P)
      /\ Cardinality(S) = Len(dpcp.P) <=>
           \A i \in 1 .. Len(dpcp.P) : \E s \in S : Ppart(s) = i
  BY <1>1, <1>2, OneOfEachPart DEF Ppart
<1>4. /\ DOMAIN dpcp.P = 1 .. Len(dpcp.P) /\ Len(dpcp.P) \in Nat
      /\ \A v \in dpcp.V, i \in 1 .. Len(dpcp.P) : v \in dpcp.P[i] <=> Ppart(v) = i
  BY PartNumbers DEF Ppart
<1>5. \A i \in 1 .. Len(dpcp.P) : \E s \in S : Ppart(s) = i
  BY <1>3, <1>4 DEF Decides
<1>6. ASSUME NEW i \in DOMAIN dpcp.P PROVE \E s \in S : dpcp.P[i] \cap S = {s}
  <2>1. PICK s \in S : Ppart(s) = i
    BY <1>4, <1>5
  <2>2. dpcp.P[i] \cap S = {s}
    BY <1>1, <1>2, <1>4, <2>1
  <2>. QED  BY <2>2
<1>7. Chosen(dpcp, S, {})
  BY <1>1, <1>6 DEF Chosen
<1>8. Fit(dpcp, S, S)
  BY <1>1 DEF Fit, Apart, Qpart
<1>. QED  BY <1>7, <1>8, ChosenIsSelected

(* Where there is a selection, some maximum stable set settles the check.  *)
LEMMA InfeasibleIsRight ==
  ASSUME Sound(dpcp), Cliques(dpcp), NEW check \in {1, 2},
         NEW T, Selected(dpcp, T)
  PROVE  \E S \in MaximumStableSets : Decides(check, S)
<1>1. T \in SUBSET dpcp.V /\ Apart(T) /\ Cardinality(T) = Len(dpcp.P)
  BY SelectedIsApart
<1>2. PICK S \in MaximumStableSets : Cardinality(T) <= Cardinality(S)
  BY <1>1, MaximumStableSetsAre
<1>3. S \in SUBSET dpcp.V /\ Apart(S)
  BY MaximumStableSetsAre
<1>4. Cardinality(S) \in Nat /\ Cardinality(S) <= Len(dpcp.P)
  BY <1>3, ApartIsOneOfEach, OneOfEachPart
<1>5. Len(dpcp.P) \in Nat
  BY PartNumbers
<1>. QED  BY <1>1, <1>2, <1>4, <1>5 DEF Decides
-----------------------------------------------------------------------------
(* The invariant of the heuristics and the checks.                         *)

(* Nothing is reported before a heuristic or a check has ended.            *)
InTurn ==
  /\ stage # "idle" => phase = "node"
  /\ stage = "idle" => col = <<>>
  /\ heurState # "none" => stage \in {"check", "done"}
  /\ decision # "none" => stage = "done"

PassFits ==
  stage = "pass" =>
    /\ Selecting(dpcp, selected, removed, unprocessed, adj)
    /\ col = <<>> \/ Whole(dpcp, col)

StepFits == stage = "1-step" => Stepping(dpcp, col, removed, unprocessed)

ReportFits == (heurState = "FEASIBLE" /\ dpcp.P # <<>>) => Whole(dpcp, col)

HInv ==
  /\ PathInv
  /\ InTurn
  /\ PassFits
  /\ StepFits
  /\ ReportFits
  /\ DecisionIsExact

(* An action of a heuristic leaves the instance alone. *)
LEMMA InstanceStays ==
  ASSUME PathInv, UNCHANGED vars
  PROVE  /\ PathInv' /\ dpcp' = dpcp /\ phase' = phase /\ caller' = caller
         /\ Sound(dpcp)
<1>1. PathInv'
  BY PathStep
<1>. QED  BY <1>1 DEF vars, PathInv, IInv

(* The heuristics start with nothing to report. *)
LEMMA HeuristicsStart == HInit => HInv
<1>1. SUFFICES ASSUME HInit PROVE HInv
  OBVIOUS
<1>2. PathInv
  BY <1>1, PathInit DEF HInit
<1>3. /\ stage = "idle" /\ col = <<>> /\ heurState = "none" /\ decision = "none"
  BY <1>1 DEF HInit
<1>. QED  BY <1>2, <1>3 DEF HInv, InTurn, PassFits, StepFits, ReportFits, DecisionIsExact

(* The instance is prepared before any heuristic is called. *)
LEMMA PreparationFits ==
  ASSUME HInv, HPrepare
  PROVE  HInv'
<1>1. PathInv'
  BY PathStep DEF HInv, HPrepare, Next
<1>2. /\ stage' = stage /\ col' = col /\ heurState' = heurState
      /\ decision' = decision /\ phase = "read"
  BY DEF HPrepare, hvars, Prepare, PrepareAborts
<1>3. stage = "idle" /\ heurState = "none" /\ decision = "none" /\ col = <<>>
  BY <1>2 DEF HInv, InTurn
<1>. QED  BY <1>1, <1>2, <1>3 DEF HInv, InTurn, PassFits, StepFits, ReportFits, DecisionIsExact

(* A heuristic is called, or left out, while nothing is coloured. *)
LEMMA CallFits ==
  ASSUME HInv, SkipHeuristic \/ (\E a \in Algorithms \ {0} : CallHeuristic(a))
  PROVE  HInv'
<1>1. UNCHANGED vars /\ stage = "idle" /\ phase = "node" /\ col' = col /\ decision' = decision
  BY DEF SkipHeuristic, CallHeuristic
<1>2. /\ PathInv' /\ dpcp' = dpcp /\ phase' = phase /\ Sound(dpcp)
      /\ col = <<>> /\ heurState = "none" /\ decision = "none"
  BY <1>1, InstanceStays DEF HInv, InTurn
<1>3. CASE SkipHeuristic
  <2>1. stage' = "check" /\ heurState' = heurState
    BY <1>3 DEF SkipHeuristic
  <2>. QED
    BY <1>1, <1>2, <2>1 DEF HInv, InTurn, PassFits, StepFits, ReportFits, DecisionIsExact
<1>4. ASSUME NEW a \in Algorithms \ {0}, CallHeuristic(a)
      PROVE  HInv'
  <2>1. /\ stage' \in {"1-step", "pass", "check", "done"}
        /\ heurState' = "none" \/ (heurState' = "UNKNOWN" /\ stage' \in {"check", "done"})
        /\ removed' = {} /\ selected' = {} /\ adj' = {} /\ unprocessed' = DOMAIN dpcp.P
    BY <1>2, <1>4 DEF CallHeuristic, StartPass, AfterHeuristic
  <2>2. PassFits'
    BY <1>1, <1>2, <2>1, SelectingStarts DEF PassFits
  <2>3. StepFits'
    BY <1>1, <1>2, <2>1, SteppingStarts DEF StepFits
  <2>4. InTurn' /\ ReportFits' /\ DecisionIsExact'
    BY <1>1, <1>2, <2>1 DEF InTurn, ReportFits, DecisionIsExact
  <2>. QED  BY <1>2, <2>2, <2>3, <2>4 DEF HInv
<1>. QED  BY <1>3, <1>4

(* While a heuristic is at work it has not reported. *)
LEMMA AtWork ==
  ASSUME HInv, UNCHANGED vars, decision' = decision, stage \in {"pass", "1-step"},
         stage' # "idle"
  PROVE  /\ PathInv' /\ DecisionIsExact' /\ dpcp' = dpcp /\ Sound(dpcp)
         /\ heurState = "none" /\ decision = "none"
         /\ phase' = "node"
<1>1. PathInv' /\ dpcp' = dpcp /\ phase' = phase /\ Sound(dpcp)
  BY InstanceStays DEF HInv
<1>2. heurState = "none" /\ decision = "none" /\ phase = "node"
  BY DEF HInv, InTurn
<1>. QED  BY <1>1, <1>2 DEF DecisionIsExact

(* A turn of first_step. *)
LEMMA SelectVertexKeeps ==
  ASSUME HInv, NEW v \in dpcp.V, SelectVertex(v)
  PROVE  HInv'
<1>1. /\ UNCHANGED vars /\ stage = "pass" /\ stage' = stage /\ col' = col
      /\ heurState' = heurState /\ decision' = decision
      /\ Ppart(v) \in unprocessed /\ v \in dpcp.V \ removed
      /\ selected' = selected \cup {v} /\ adj' = adj \cup NewPairs(v)
      /\ removed' = removed \cup InvalidatedBySelection(v)
      /\ unprocessed' = unprocessed \ {Ppart(v)}
  BY DEF SelectVertex, SmallestParts, Candidates
<1>2. /\ PathInv' /\ DecisionIsExact' /\ dpcp' = dpcp /\ Sound(dpcp)
      /\ heurState = "none" /\ decision = "none" /\ phase' = "node"
  BY <1>1, AtWork
<1>3. /\ Selecting(dpcp, selected, removed, unprocessed, adj)
      /\ col = <<>> \/ Whole(dpcp, col)
  BY <1>1 DEF HInv, PassFits
<1>4. Selecting(dpcp, selected', removed', unprocessed', adj')
  BY <1>1, <1>2, <1>3, SelectVertexFits
<1>5. PassFits'
  BY <1>1, <1>2, <1>3, <1>4 DEF PassFits
<1>. QED  BY <1>1, <1>2, <1>5 DEF HInv, InTurn, StepFits, ReportFits

(* A pass ends and leaves nothing or the colouring of a selection; it      *)
(* reports FEASIBLE only in the second case.                               *)
LEMMA EndPassKeeps ==
  ASSUME HInv, stage = "pass", UNCHANGED vars, decision' = decision,
         NEW f, NEW verdict, EndPass(f, verdict),
         f = <<>> \/ Whole(dpcp, f), verdict = "FEASIBLE" => Whole(dpcp, f)
  PROVE  HInv'
<1>1. /\ col' = f
      /\ \/ stage' = stage /\ heurState' = heurState /\ StartPass
         \/ stage' \in {"check", "done"} /\ heurState' = verdict
  BY DEF EndPass, AfterHeuristic
<1>2. /\ PathInv' /\ DecisionIsExact' /\ dpcp' = dpcp /\ Sound(dpcp)
      /\ heurState = "none" /\ decision = "none" /\ phase' = "node"
  BY <1>1, AtWork
<1>3. CASE stage' = stage /\ heurState' = heurState /\ StartPass
  <2>1. Selecting(dpcp, selected', removed', unprocessed', adj')
    BY <1>3, SelectingStarts DEF StartPass
  <2>2. PassFits'
    BY <1>1, <1>2, <2>1 DEF PassFits
  <2>. QED  BY <1>2, <1>3, <2>2 DEF HInv, InTurn, StepFits, ReportFits
<1>4. CASE stage' \in {"check", "done"} /\ heurState' = verdict
  <2>1. ReportFits'
    BY <1>1, <1>2, <1>4 DEF ReportFits
  <2>. QED  BY <1>2, <1>4, <2>1 DEF HInv, InTurn, PassFits, StepFits
<1>. QED  BY <1>1, <1>3, <1>4

(* A pass that fails keeps what an earlier one found. *)
LEMMA PassFailsKeeps ==
  ASSUME HInv, PassFails
  PROVE  HInv'
<1> DEFINE verdict == IF col = <<>> THEN "UNKNOWN" ELSE "FEASIBLE"
<1>1. /\ UNCHANGED vars /\ stage = "pass" /\ decision' = decision
      /\ EndPass(col, verdict)
  BY DEF PassFails
<1>2. col = <<>> \/ Whole(dpcp, col)
  BY <1>1 DEF HInv, PassFits
<1>3. verdict = "FEASIBLE" => Whole(dpcp, col)
  BY <1>2
<1>. HIDE DEF verdict
<1>. QED  BY <1>1, <1>2, <1>3, EndPassKeeps

(* A pass that succeeds has coloured a selection. *)
LEMMA PassSucceedsKeeps ==
  ASSUME HInv, PassSucceeds
  PROVE  HInv'
<1>1. /\ UNCHANGED vars /\ stage = "pass" /\ decision' = decision /\ unprocessed = {}
  BY DEF PassSucceeds
<1>2. PICK f \in Collapsed(selected, adj) : EndPass(Better(f), "FEASIBLE")
  BY DEF PassSucceeds
<1>3. /\ Sound(dpcp) /\ Selecting(dpcp, selected, removed, {}, adj)
      /\ col = <<>> \/ Whole(dpcp, col)
  BY <1>1 DEF HInv, PassFits, PathInv, IInv
<1>4. Chosen(dpcp, selected, {}) /\ Fit(dpcp, selected, selected) /\ Pairs(dpcp, selected, adj)
  BY <1>3 DEF Selecting, Fit
<1>5. Whole(dpcp, f)
  BY <1>3, <1>4, ChosenIsSelected, CollapsedIsWhole
<1>6. Whole(dpcp, Better(f))
  BY <1>3, <1>5 DEF Better
<1>. QED  BY <1>1, <1>2, <1>6, EndPassKeeps

(* A turn of single_step. *)
LEMMA ColourVertexKeeps ==
  ASSUME HInv, NEW v \in dpcp.V, ColourVertex(v)
  PROVE  HInv'
<1>1. /\ UNCHANGED vars /\ stage = "1-step" /\ stage' = stage
      /\ heurState' = heurState /\ decision' = decision
      /\ unprocessed # {} /\ v \in NextVertices1S
      /\ unprocessed' = unprocessed \ {Ppart(v)}
  BY DEF ColourVertex
<1>2. PICK c \in ColourChoice(v) :
        /\ col' = Recoloured(col, v, c)
        /\ removed' = removed \cup InvalidatedByColour(v, c)
                              \cup (dpcp.P[Ppart(v)] \ {v})
  BY DEF ColourVertex, Recoloured
<1>3. /\ PathInv' /\ DecisionIsExact' /\ dpcp' = dpcp /\ Sound(dpcp)
      /\ heurState = "none" /\ decision = "none" /\ phase' = "node"
  BY <1>1, AtWork
<1>4. Stepping(dpcp, col, removed, unprocessed)
  BY <1>1 DEF HInv, StepFits
<1>5. v \in dpcp.V \ removed /\ Ppart(v) \in unprocessed
  BY <1>1, <1>3, <1>4, NextIsCandidate
     DEF Stepping, Coloured, Chosen, Candidates
<1>6. Stepping(dpcp, col', removed', unprocessed')
  BY <1>1, <1>2, <1>3, <1>4, <1>5, ColourVertexFits
<1>7. StepFits'
  BY <1>3, <1>6 DEF StepFits
<1>. QED  BY <1>1, <1>3, <1>7 DEF HInv, InTurn, PassFits, ReportFits

(* single_step ends, with all the P-parts coloured or without an answer. *)
LEMMA SingleStepKeeps ==
  ASSUME HInv, SingleStepFails \/ SingleStepEnds
  PROVE  HInv'
<1>1. /\ UNCHANGED vars /\ stage = "1-step" /\ stage' \in {"check", "done"}
      /\ decision' = decision /\ col' = col
      /\ heurState' = "UNKNOWN" \/ (heurState' = "FEASIBLE" /\ unprocessed = {})
  BY DEF SingleStepFails, SingleStepEnds, AfterHeuristic
<1>2. /\ PathInv' /\ DecisionIsExact' /\ dpcp' = dpcp /\ Sound(dpcp)
      /\ heurState = "none" /\ decision = "none" /\ phase' = "node"
  BY <1>1, AtWork
<1>3. unprocessed = {} => Whole(dpcp, col)
  <2>1. Stepping(dpcp, col, removed, unprocessed)
    BY <1>1 DEF HInv, StepFits
  <2>2. Coloured(dpcp, col) /\ Chosen(dpcp, DOMAIN col, unprocessed)
    BY <2>1 DEF Stepping
  <2>3. Fit(dpcp, DOMAIN col, DOMAIN col)
    BY <2>2 DEF Coloured, Fit
  <2>. QED  BY <1>2, <2>2, <2>3, ChosenIsSelected DEF Whole
<1>4. ReportFits'
  BY <1>1, <1>2, <1>3 DEF ReportFits
<1>. QED  BY <1>1, <1>2, <1>4 DEF HInv, InTurn, PassFits, StepFits

(* A colouring of a selection colours something. *)
LEMMA WholeIsSome ==
  ASSUME Sound(dpcp), dpcp.P # <<>>, NEW f, Whole(dpcp, f)
  PROVE  DOMAIN f # {}
<1>1. PICK v \in dpcp.V : TRUE
  BY NoPartsNoVertices
<1>2. \E s \in DOMAIN f : Part(dpcp, v) \cap DOMAIN f = {s}
  BY DEF Whole, Selected
<1>. QED  BY <1>2

(* The feasibility check is left out, or stops without an answer. *)
LEMMA NoDecisionKeeps ==
  ASSUME HInv, SkipCheck \/ CheckTimesOut
  PROVE  HInv'
<1>1. /\ UNCHANGED vars /\ stage' = "done" /\ col' = col /\ heurState' = heurState
      /\ stage \in {"check", "idle"}
      /\ stage = "idle" => phase = "node"
      /\ decision' = decision \/ decision' = "UNKNOWN"
  BY DEF SkipCheck, CheckTimesOut, Checking
<1>2. PathInv' /\ dpcp' = dpcp /\ phase' = phase /\ caller' = caller
  BY <1>1, InstanceStays DEF HInv
<1>3. ReportFits' /\ DecisionIsExact' /\ phase' = "node"
  BY <1>1, <1>2 DEF HInv, InTurn, ReportFits, DecisionIsExact
<1>. QED  BY <1>1, <1>2, <1>3 DEF HInv, InTurn, PassFits, StepFits

(* The feasibility check decides. *)
LEMMA DecisionKeeps ==
  ASSUME HInv, NEW check \in {1, 2}, DecideFeasible(check) \/ DecideInfeasible(check)
  PROVE  HInv'
<1>1. /\ UNCHANGED vars /\ stage' = "done" /\ heurState' = heurState
      /\ stage \in {"check", "idle"} /\ (stage = "idle" => phase = "node")
      /\ stage = "check" => col = <<>>
  BY DEF DecideFeasible, DecideInfeasible, Checking
<1>2. /\ PathInv' /\ dpcp' = dpcp /\ phase' = phase /\ caller' = caller
      /\ Sound(dpcp)
  BY <1>1, InstanceStays DEF HInv
<1>3. phase = "node"
  BY <1>1 DEF HInv, InTurn
<1>4. ReportFits'
  <2>1. SUFFICES ASSUME heurState = "FEASIBLE", dpcp.P # <<>> PROVE FALSE
    BY <1>1, <1>2 DEF ReportFits
  <2>2. Whole(dpcp, col) /\ col = <<>>
    BY <1>1, <2>1 DEF HInv, InTurn, ReportFits
  <2>3. DOMAIN <<>> = {}
    OBVIOUS
  <2>. QED  BY <1>2, <2>1, <2>2, <2>3, WholeIsSome
<1>5. (caller.solver = "byp" /\ caller.preprocessing) => Cliques(dpcp)
  BY <1>3 DEF HInv, PathInv, IInv, Completed
<1>6. CASE DecideFeasible(check)
  <2>1. PICK S \in MaximumStableSets :
          Decides(check, S) /\ col' \in Collapsed(S, CheckPairs(S))
    BY <1>6 DEF DecideFeasible
  <2>2. DOMAIN col' = S
    BY <2>1 DEF Collapsed
  <2>3. (caller.solver = "byp" /\ caller.preprocessing) =>
          S \in Selections(dpcp.V, dpcp.E, Range(dpcp.P), Range(dpcp.Q))
    BY <1>2, <1>5, <2>1, FeasibleIsRight, SelectionsAreSelected
  <2>4. decision' = "FEASIBLE"
    BY <1>6 DEF DecideFeasible
  <2>5. DecisionIsExact'
    BY <1>2, <2>2, <2>3, <2>4 DEF DecisionIsExact
  <2>. QED  BY <1>1, <1>2, <1>3, <1>4, <2>5 DEF HInv, InTurn, PassFits, StepFits
<1>7. CASE DecideInfeasible(check)
  <2>1. decision' = "INFEASIBLE" /\ \A S \in MaximumStableSets : ~Decides(check, S)
    BY <1>7 DEF DecideInfeasible
  <2>2. (caller.solver = "byp" /\ caller.preprocessing) =>
          Selections(dpcp.V, dpcp.E, Range(dpcp.P), Range(dpcp.Q)) = {}
    BY <1>2, <1>5, <2>1, InfeasibleIsRight, SelectionsAreSelected
  <2>3. DecisionIsExact'
    BY <1>2, <2>1, <2>2 DEF DecisionIsExact
  <2>. QED  BY <1>1, <1>2, <1>3, <1>4, <2>3 DEF HInv, InTurn, PassFits, StepFits
<1>. QED  BY <1>6, <1>7

(* Every step keeps the invariant. *)
LEMMA HeuristicsStep ==
  ASSUME HInv, [HNext]_<<vars, hvars>>
  PROVE  HInv'
<1>1. CASE UNCHANGED <<vars, hvars>>
  <2>1. PathInv' /\ UNCHANGED vars /\ UNCHANGED hvars
    BY <1>1, InstanceStays DEF HInv
  <2>. QED
    BY <2>1 DEF HInv, vars, hvars, InTurn, PassFits, StepFits, ReportFits, DecisionIsExact
<1>2. CASE HNext
  BY <1>2, PreparationFits, CallFits, SelectVertexKeeps, PassFailsKeeps,
     PassSucceedsKeeps, ColourVertexKeeps, SingleStepKeeps, NoDecisionKeeps,
     DecisionKeeps DEF HNext
<1>. QED  BY <1>1, <1>2

(* In every state of the heuristics and the checks, for every problem:     *)
(* what is being built is the beginning of a colouring.                    *)
THEOREM HeuristicsAreSound == HSpec => []HInv
<1>1. HInv /\ [HNext]_<<vars, hvars>> => HInv'
  BY HeuristicsStep
<1>. QED  BY HeuristicsStart, <1>1, PTL DEF HSpec

(* A colouring of the node, its colours counted from 1, is a colouring of  *)
(* the input.                                                              *)
LEMMA WholeLifts ==
  ASSUME PathInv, ~dpcp.isInfeasible, dpcp.P # <<>>, Whole(dpcp, col)
  PROVE  OriginalColIsProper
<1> DEFINE S == DOMAIN col
           k == NColours(col)
           f == [v \in S |-> col[v] + 1]
<1>1. /\ Sound(dpcp) /\ Sound(Root) /\ Root.V = input.V /\ Root.E = input.E /\ Root.Q = input.Q
      /\ dpcp.V \subseteq Root.V /\ dpcp.isolated \subseteq Root.V
  BY RootIs DEF PathInv, IInv
<1>2. Selected(dpcp, S) /\ Coloured(dpcp, col) /\ Consecutive(col) /\ S \subseteq dpcp.V
  BY DEF Whole, Coloured
<1>3. IsFiniteSet(S)
  BY <1>1, <1>2, FS_Subset DEF Sound
<1>4. k \in Nat /\ Range(col) = 0 .. k - 1
  BY <1>2, <1>3, RangeIsSmall DEF NColours, Consecutive
<1>5. PICK v \in S : TRUE
  BY <1>1, WholeIsSome
<1>. HIDE DEF k
<1>6. \A u \in S : col[u] \in 0 .. k - 1
  BY <1>4 DEF Range
<1>7. k \in Nat \ {0}
  BY <1>4, <1>5, <1>6
<1>8. Proper(dpcp, S, f, k)
  <2>1. f \in [S -> 1 .. k]
    BY <1>4, <1>6
  <2>2. \A u \in S : u \in dpcp.V /\ f[u] = col[u] + 1 /\ col[u] \in Nat
    BY <1>2, <1>4, <1>6
  <2>. HIDE DEF f
  <2>3. \A u, w \in S : w \in QPart(dpcp, u) => dpcp.vertex2Qpart[u] = dpcp.vertex2Qpart[w]
    BY SMTT(60), <1>1, <2>2, PartNumbers DEF QPart
  <2>4. ASSUME NEW u \in S, NEW w \in S
        PROVE  /\ {u, w} \in dpcp.E => f[u] # f[w]
               /\ w \in QPart(dpcp, u) => f[u] = f[w]
    <3>1. /\ {u, w} \in dpcp.E => col[u] # col[w]
          /\ w \in QPart(dpcp, u) => col[u] = col[w]
      BY <1>2, <2>3 DEF Coloured
    <3>2. /\ f[u] = col[u] + 1 /\ f[w] = col[w] + 1
          /\ col[u] \in Nat /\ col[w] \in Nat
      BY <2>2
    <3>. QED  BY <3>1, <3>2
  <2>. QED  BY <2>1, <2>4 DEF Proper
<1>9. Proper(Root, S \cup dpcp.isolated, Lifted(f), k)
  <2>. HIDE DEF f
  <2>. QED  BY <1>2, <1>7, <1>8, ProperLifts
<1>10. OriginalCol = Lifted(f)
  BY DEF OriginalCol
<1>. HIDE DEF f
<1>11. DOMAIN OriginalCol = S \cup dpcp.isolated
  BY <1>9, <1>10 DEF Proper
<1>12. OriginalCol \in Colourings(DOMAIN OriginalCol, input.E, Range(input.Q), k)
  <2>1. S \cup dpcp.isolated \in SUBSET Root.V
    BY <1>1, <1>2
  <2>2. OriginalCol \in Colourings(S \cup dpcp.isolated, Root.E, Range(Root.Q), k)
    BY <1>1, <1>9, <1>10, <2>1, ColouringsAreProper
  <2>. QED  BY <1>1, <1>11, <2>2
<1>13. \A part \in Range(input.P) : part \cap DOMAIN OriginalCol # {}
  <2>1. \A part \in Range(input.P) : (S \cup dpcp.isolated) \cap part # {}
    BY <1>2, SelectionCovers
  <2>. QED  BY <1>11, <2>1
<1>. QED  BY <1>12, <1>13 DEF OriginalColIsProper, k

(* A heuristic that reports FEASIBLE has a colouring that lifts to one of  *)
(* the input, for every problem and every choice the heuristics make       *)
(* (heur.cpp; get_heur_solution in lp.cpp asserts it).                     *)
THEOREM HeuristicColours == HSpec => []HeuristicIsColouring
<1>1. HInv => HeuristicIsColouring
  BY WholeLifts DEF HInv, ReportFits, HeuristicIsColouring
<1>. QED  BY HeuristicsAreSound, <1>1, PTL

(* At the nodes of the branch-and-price search the feasibility check is    *)
(* right: it answers INFEASIBLE only where there is no selection, and the  *)
(* vertices that it colours are one (feas.cpp).                            *)
THEOREM ChecksAreRight == HSpec => []DecisionIsExact
<1>1. HInv => DecisionIsExact
  BY DEF HInv
<1>. QED  BY HeuristicsAreSound, <1>1, PTL
=============================================================================
