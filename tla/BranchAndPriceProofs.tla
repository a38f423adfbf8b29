----------------------- MODULE BranchAndPriceProofs -------------------------
(***************************************************************************)
(* Proofs about the tree search: the invariants of the list of open nodes, *)
(* the correctness of the answers, and the implementation of ExactSearch.  *)
(***************************************************************************)
EXTENDS BranchAndPrice, SequenceTheorems, WellFoundedInduction, TLAPS

-----------------------------------------------------------------------------
(* Lemmas on numbers and lists.                                            *)

(* A nonempty set of naturals has a least element. *)
LEMMA LeastNatural ==
  ASSUME NEW T \in SUBSET Nat, T # {}
  PROVE  \E m \in T : \A k \in T : m <= k
<1>1. PICK x \in T : \A y \in T : ~(<<y, x>> \in OpToRel(<, Nat))
  BY NatLessThanWellFounded, WFMin
<1>2. \A y \in T : ~(y < x)
  BY <1>1 DEF OpToRel
<1>. QED  BY <1>2

(* A strictly increasing map from positions to positions never goes down. *)
LEMMA IncreasingMap ==
  ASSUME NEW n \in Nat, NEW keep \in SUBSET (Nat \ {0}),
         NEW f \in [1 .. n -> keep],
         \A i, j \in 1 .. n : i < j => f[i] < f[j]
  PROVE  \A i \in 1 .. n : i <= f[i]
<1> DEFINE Low == {i \in 1 .. n : f[i] < i}
<1>0. \A i \in 1 .. n : f[i] \in Nat /\ f[i] >= 1
  <2>1. \A i \in 1 .. n : f[i] \in keep
    OBVIOUS
  <2>2. \A p \in keep : p \in Nat /\ p >= 1
    OBVIOUS
  <2>. QED  BY <2>1, <2>2
<1>1. SUFFICES ASSUME Low # {} PROVE FALSE
  BY <1>0
<1>2. PICK m \in Low : \A k \in Low : m <= k
  <2>1. Low \in SUBSET Nat
    OBVIOUS
  <2>. HIDE DEF Low
  <2>. QED  BY <1>1, <2>1, LeastNatural
<1>3. m \in 1 .. n /\ f[m] < m /\ m # 1
  BY <1>0, <1>2
<1>4. m - 1 \in 1 .. n /\ ~(f[m - 1] < m - 1)
  BY <1>2, <1>3
<1>5. f[m - 1] < f[m]
  BY <1>3, <1>4
<1>. QED  BY <1>0, <1>3, <1>4, <1>5

(* A list that keeps some positions of s is a list of nodes of s, in the   *)
(* same order, each no further from the front than before.                 *)
LEMMA KeptFacts ==
  ASSUME NEW S, NEW s \in Seq(S), NEW keep \in SUBSET (1 .. Len(s)),
         NEW t \in Kept(s, keep)
  PROVE  /\ t \in Seq(S)
         /\ Len(t) \in Nat
         /\ \E f \in [1 .. Len(t) -> keep] :
              /\ \A i \in 1 .. Len(t) : t[i] = s[f[i]] /\ i <= f[i]
              /\ \A i, j \in 1 .. Len(t) : i < j => f[i] < f[j]
              /\ \A p \in keep : \E i \in 1 .. Len(t) : f[i] = p
<1>0. PICK n \in 0 .. Len(s) : \E f \in [1 .. n -> keep] :
        /\ t = [i \in 1 .. n |-> s[f[i]]]
        /\ \A i, j \in 1 .. n : i < j => f[i] < f[j]
        /\ \A p \in keep : \E i \in 1 .. n : f[i] = p
  BY SMTT(60) DEF Kept, Enumerations
<1>1. PICK f \in [1 .. n -> keep] :
        /\ t = [i \in 1 .. n |-> s[f[i]]]
        /\ \A i, j \in 1 .. n : i < j => f[i] < f[j]
        /\ \A p \in keep : \E i \in 1 .. n : f[i] = p
  BY <1>0
<1>2. n \in Nat /\ t \in [1 .. n -> S]
  <2>1. \A i \in 1 .. n : f[i] \in 1 .. Len(s)
    BY <1>1
  <2>2. \A i \in 1 .. n : s[f[i]] \in S
    BY <2>1
  <2>. QED  BY <1>1, <2>2
<1>3. t \in Seq(S) /\ Len(t) = n
  BY <1>2, SeqDef
<1>4. \A i \in 1 .. n : i <= f[i]
  <2>1. keep \in SUBSET (Nat \ {0})
    OBVIOUS
  <2>. QED  BY <1>1, <1>2, <2>1, IncreasingMap
<1>. QED  BY <1>1, <1>2, <1>3, <1>4

(* Inserting a node at a position keeps the other nodes in their order. *)
LEMMA InsertedFacts ==
  ASSUME NEW S, NEW s \in Seq(S), NEW node \in S, NEW i \in 1 .. Len(s) + 1
  PROVE  /\ Inserted(s, i, node) \in Seq(S)
         /\ Len(Inserted(s, i, node)) = Len(s) + 1
         /\ \A j \in 1 .. Len(s) + 1 :
              Inserted(s, i, node)[j] =
                IF j < i THEN s[j] ELSE IF j = i THEN node ELSE s[j - 1]
<1>1. Len(s) \in Nat
  OBVIOUS
<1>2. \A j \in 1 .. Len(s) + 1 :
        (IF j < i THEN s[j] ELSE IF j = i THEN node ELSE s[j - 1]) \in S
  BY <1>1
<1>3. Inserted(s, i, node) \in [1 .. Len(s) + 1 -> S]
  BY <1>2 DEF Inserted
<1>4. Inserted(s, i, node) \in Seq(S)
      /\ Len(Inserted(s, i, node)) = Len(s) + 1
  BY <1>1, <1>3, SeqDef
<1>. QED  BY <1>4 DEF Inserted

-----------------------------------------------------------------------------
(* The inductive invariant.                                                *)

(* The list of open nodes is in order and below the primal bound; an open  *)
(* node has something left to branch on, its objective value bounds the    *)
(* optimum of its subproblem, and no subproblem beats the instance.        *)
ListInv ==
  /\ SortedList
  /\ ListBelowPrimal
  /\ \A i \in 1 .. Len(L) :
       /\ L[i].free > 0
       /\ L[i].val >= opt
       /\ L[i].val < DBLMAX => L[i].lb <= Unit * L[i].val + Eps
  /\ \A i \in 1 .. Len(pending) : pending[i].val >= opt

(* In depth-first search the node at position i has been branched off at   *)
(* least i - 1 times, and the pending sons are one level further down.     *)
StackInv ==
  params.dfs =>
    /\ \A i \in 1 .. Len(L) : L[i].free + i <= MaxFree + 1
    /\ \A i \in 1 .. Len(pending) :
         pending[i].free + Len(L) + Len(pending) <= MaxFree + 1

AnswerInv ==
  OptimalIsOptimal /\ InfeasibleIsInfeasible /\ FeasibleHasColouring

IInv ==
  /\ TypeOK
  /\ ListInv
  /\ StackInv
  /\ OptimumCovered
  /\ IncumbentIsPrimal
  /\ AnswerInv

-----------------------------------------------------------------------------
(* What erasing and inserting do to the list of open nodes.                *)

(* t holds exactly the nodes of L below the bound, in a legal order. *)
Pruned(t, bound) ==
  /\ t \in Seq(OpenNode)
  /\ Len(t) <= Len(L)
  /\ \A i \in 1 .. Len(t) : \E j \in 1 .. Len(L) : i <= j /\ t[i] = L[j]
  /\ ~params.dfs => \A i, j \in 1 .. Len(t) : i < j => t[i].lb >= t[j].lb
  /\ \A i \in 1 .. Len(t) : t[i].lb < Unit * bound
  /\ \A k \in 1 .. Len(L) :
       L[k].lb < Unit * bound => \E i \in 1 .. Len(t) : t[i] = L[k]

(* The fields of an open node have their types. *)
LEMMA OpenNodeType ==
  ASSUME NEW n \in OpenNode
  PROVE  /\ n = [val |-> n.val, free |-> n.free, lb |-> n.lb]
         /\ n.val \in Values /\ n.val \in Nat
         /\ n.free \in 0 .. MaxFree /\ n.free \in Nat
         /\ n.lb \in LowerBounds /\ n.lb \in Nat
<1>1. n = [val |-> n.val, free |-> n.free, lb |-> n.lb]
  BY DEF OpenNode
<1>2. n.val \in Values /\ n.free \in 0 .. MaxFree /\ n.lb \in LowerBounds
  BY DEF OpenNode
<1>3. \A v \in Values : v \in Nat
  BY BPAssumption DEF Values
<1>4. LowerBounds \subseteq Nat
  BY BPAssumption
<1>. QED  BY <1>1, <1>2, <1>3, <1>4

(* So have those of a subproblem that waits to be pushed. *)
LEMMA SubproblemType ==
  ASSUME NEW n \in Subproblem
  PROVE  /\ n.val \in Values /\ n.val \in Nat
         /\ n.free \in 0 .. MaxFree /\ n.free \in Nat
<1>1. n.val \in Values /\ n.free \in 0 .. MaxFree
  BY DEF Subproblem
<1>2. \A v \in Values : v \in Nat
  BY BPAssumption DEF Values
<1>. QED  BY <1>1, <1>2

(* update_primal_bound erases from the front up to the first node below the
   bound; as the list is sorted, what it leaves is the list without nodes
   that the bound makes useless. *)
LEMMA ErasedIsPruned ==
  ASSUME TypeOK, SortedList, ListBelowPrimal,
         NEW bound \in Values, bound <= primal, NEW t \in Erased(bound)
  PROVE  Pruned(t, bound)
<1>1. Len(L) \in Nat /\ L \in Seq(OpenNode)
  BY DEF TypeOK
<1>2. \A k \in 1 .. Len(L) : L[k] \in OpenNode /\ L[k].lb \in Nat
  BY <1>1, OpenNodeType
<1>3. bound \in Nat /\ primal \in Nat
  BY BPAssumption DEF TypeOK, Values
<1>4. CASE ~(bound < primal)
  <2>1. t = L /\ bound = primal
    BY <1>3, <1>4 DEF Erased
  <2>. QED
    BY <1>1, <1>2, <2>1 DEF Pruned, SortedList, ListBelowPrimal
<1>5. CASE bound < primal
  <2>1. t \in Kept(L, Survivors(bound))
    BY <1>5 DEF Erased
  <2>2. Survivors(bound) \in SUBSET (1 .. Len(L))
    BY DEF Survivors
  <2>3. t \in Seq(OpenNode) /\ Len(t) \in Nat
    BY <1>1, <2>1, <2>2, KeptFacts
  <2>4. PICK f \in [1 .. Len(t) -> Survivors(bound)] :
          /\ \A i \in 1 .. Len(t) : t[i] = L[f[i]] /\ i <= f[i]
          /\ \A i, j \in 1 .. Len(t) : i < j => f[i] < f[j]
          /\ \A p \in Survivors(bound) : \E i \in 1 .. Len(t) : f[i] = p
    BY <1>1, <2>1, <2>2, KeptFacts
  <2>5. \A i \in 1 .. Len(t) : f[i] \in 1 .. Len(L) /\ f[i] \in Survivors(bound)
    BY <2>2
  <2>6. \A i \in 1 .. Len(t) : t[i].lb < Unit * bound
    <3> SUFFICES ASSUME NEW i \in 1 .. Len(t) PROVE L[f[i]].lb < Unit * bound
      BY <2>4
    <3>1. CASE params.dfs
      BY <2>5, <3>1 DEF Survivors
    <3>2. CASE ~params.dfs
      <4>1. PICK j \in 1 .. f[i] : L[j].lb < Unit * bound
        BY <2>5, <3>2 DEF Survivors
      <4>2. j \in 1 .. Len(L) /\ (j < f[i] => L[j].lb >= L[f[i]].lb)
        BY <1>1, <2>5, <3>2, <4>1 DEF SortedList
      <4>. QED  BY <1>2, <1>3, <2>5, <4>1, <4>2 DEF Unit
    <3>. QED  BY <3>1, <3>2
  <2>7. ~params.dfs => \A i, j \in 1 .. Len(t) : i < j => t[i].lb >= t[j].lb
    BY SMTT(60), <2>4, <2>5 DEF SortedList
  <2>8. ASSUME NEW k \in 1 .. Len(L), L[k].lb < Unit * bound
        PROVE  \E i \in 1 .. Len(t) : t[i] = L[k]
    <3>1. k \in Survivors(bound)
      BY <1>1, <2>8 DEF Survivors
    <3>. QED  BY <2>4, <3>1
  <2>9. Len(t) <= Len(L)
    BY <1>1, <2>3, <2>4, <2>5
  <2>. QED  BY <2>3, <2>4, <2>5, <2>6, <2>7, <2>8, <2>9 DEF Pruned
<1>. QED  BY <1>3, <1>4, <1>5

(* Inserting an unprunable node keeps the list in order and below the bound*)
(* and adds that node only, at the back in depth-first search.             *)
LEMMA InsertedIsOrdered ==
  ASSUME TypeOK, NEW bound \in Values, NEW t, Pruned(t, bound),
         NEW node \in OpenNode, ~Prunable(node.lb, bound),
         NEW i \in Positions(t, node.lb)
  PROVE  LET u == Inserted(t, i, node) IN
         /\ u \in Seq(OpenNode)
         /\ Len(u) = Len(t) + 1
         /\ ~params.dfs => \A j, k \in 1 .. Len(u) : j < k => u[j].lb >= u[k].lb
         /\ \A j \in 1 .. Len(u) : u[j].lb < Unit * bound
         /\ \A j \in 1 .. Len(u) :
              \/ u[j] = node /\ (params.dfs => j = Len(t) + 1)
              \/ \E k \in 1 .. Len(t) : u[j] = t[k] /\ (params.dfs => j = k)
         /\ \A k \in 1 .. Len(t) : \E j \in 1 .. Len(u) : u[j] = t[k]
         /\ \E j \in 1 .. Len(u) : u[j] = node
<1> DEFINE u == Inserted(t, i, node)
<1>1. t \in Seq(OpenNode) /\ Len(t) \in Nat
  BY DEF Pruned
<1>2. i \in 1 .. Len(t) + 1 /\ (params.dfs => i = Len(t) + 1)
  BY <1>1 DEF Positions
<1>3. /\ u \in Seq(OpenNode)
      /\ Len(u) = Len(t) + 1
      /\ \A j \in 1 .. Len(t) + 1 :
           u[j] = IF j < i THEN t[j] ELSE IF j = i THEN node ELSE t[j - 1]
  BY <1>1, <1>2, InsertedFacts
<1>. HIDE DEF u
<1>4. node.lb \in Nat /\ \A k \in 1 .. Len(t) : t[k].lb \in Nat
  BY <1>1, OpenNodeType
<1>5. node.lb < Unit * bound
  <2>1. bound \in Nat
    BY BPAssumption DEF Values
  <2>. QED  BY <1>4, <2>1 DEF Prunable, CeilEps, Unit, Eps
<1>6. ASSUME ~params.dfs, NEW j \in 1 .. Len(u), NEW k \in 1 .. Len(u), j < k
      PROVE  u[j].lb >= u[k].lb
  <2>1. \A a, b \in 1 .. Len(t) : a < b => t[a].lb >= t[b].lb
    BY <1>6 DEF Pruned
  <2>2. /\ \A a \in 1 .. i - 1 : t[a].lb >= node.lb
        /\ i <= Len(t) => t[i].lb < node.lb
    BY <1>6 DEF Positions
  <2>3. j \in 1 .. Len(t) + 1 /\ k \in 1 .. Len(t) + 1 /\ j \in Int /\ k \in Int
        /\ i \in Int /\ Len(t) \in Int
    BY <1>1, <1>2, <1>3
  <2>4. CASE k < i
    <3>1. u[j] = t[j] /\ u[k] = t[k] /\ j \in 1 .. Len(t) /\ k \in 1 .. Len(t)
      BY <1>2, <1>3, <1>6, <2>3, <2>4
    <3>. QED  BY <1>6, <2>1, <3>1
  <2>5. CASE k = i
    <3>1. u[j] = t[j] /\ u[k] = node /\ j \in 1 .. i - 1
      BY <1>2, <1>3, <1>6, <2>3, <2>5
    <3>. QED  BY <2>2, <3>1
  <2>6. CASE k > i /\ j < i
    <3>1. u[j] = t[j] /\ u[k] = t[k - 1] /\ j \in 1 .. Len(t)
          /\ k - 1 \in 1 .. Len(t) /\ j < k - 1
      BY <1>2, <1>3, <1>6, <2>3, <2>6
    <3>. QED  BY <2>1, <3>1
  <2>7. CASE k > i /\ j = i
    <3>1. u[j] = node /\ u[k] = t[k - 1] /\ k - 1 \in 1 .. Len(t)
          /\ i \in 1 .. Len(t) /\ (i = k - 1 \/ i < k - 1)
      BY <1>2, <1>3, <1>6, <2>3, <2>7
    <3>2. i = k - 1 \/ t[i].lb >= t[k - 1].lb
      BY <2>1, <3>1
    <3>3. t[i].lb < node.lb /\ t[i].lb \in Nat /\ t[k - 1].lb \in Nat
          /\ node.lb \in Nat
      BY <1>4, <2>2, <2>3, <3>1
    <3>4. t[k - 1].lb <= t[i].lb
      BY <3>2, <3>3
    <3>. QED  BY <3>1, <3>3, <3>4
  <2>8. CASE k > i /\ j > i
    <3>1. u[j] = t[j - 1] /\ u[k] = t[k - 1] /\ j - 1 \in 1 .. Len(t)
          /\ k - 1 \in 1 .. Len(t) /\ j - 1 < k - 1
      BY <1>2, <1>3, <1>6, <2>3, <2>8
    <3>. QED  BY <2>1, <3>1
  <2>. QED  BY <2>3, <2>4, <2>5, <2>6, <2>7, <2>8
<1>7. ASSUME NEW j \in 1 .. Len(u)
      PROVE  \/ u[j] = node /\ (params.dfs => j = Len(t) + 1)
             \/ \E k \in 1 .. Len(t) : u[j] = t[k] /\ (params.dfs => j = k)
  <2>1. CASE j < i
    BY <1>1, <1>2, <1>3, <2>1
  <2>2. CASE j = i
    BY <1>1, <1>2, <1>3, <2>2
  <2>3. CASE j > i
    <3>1. j - 1 \in 1 .. Len(t) /\ u[j] = t[j - 1] /\ ~params.dfs
      BY <1>1, <1>2, <1>3, <2>3
    <3>. QED  BY <3>1
  <2>. QED  BY <1>1, <1>2, <1>3, <2>1, <2>2, <2>3
<1>8. \A j \in 1 .. Len(u) : u[j].lb < Unit * bound
  BY <1>5, <1>7 DEF Pruned
<1>9. ASSUME NEW k \in 1 .. Len(t)
      PROVE  \E j \in 1 .. Len(u) : u[j] = t[k]
  <2>1. CASE k < i
    BY <1>1, <1>2, <1>3, <2>1
  <2>2. CASE k >= i
    <3>1. k + 1 \in 1 .. Len(u) /\ u[k + 1] = t[k]
      BY <1>1, <1>2, <1>3, <2>2
    <3>. QED  BY <3>1
  <2>. QED  BY <1>1, <1>2, <2>1, <2>2
<1>10. \E j \in 1 .. Len(u) : u[j] = node
  BY <1>1, <1>2, <1>3
<1>. QED  BY <1>3, <1>6, <1>7, <1>8, <1>9, <1>10 DEF u

(* Erasing down to a bound loses no optimal colouring that the bound does  *)
(* not already match.                                                      *)
LEMMA PrunedCovers ==
  ASSUME IInv, Running, ~dropped,
         NEW bound \in Values, bound <= primal, NEW t, Pruned(t, bound)
  PROVE  \/ bound <= opt
         \/ \E i \in 1 .. Len(t) : t[i].val = opt
         \/ \E i \in 1 .. Len(pending) : pending[i].val = opt
<1>1. bound \in Nat /\ primal \in Nat /\ opt \in Nat /\ bound <= DBLMAX
      /\ opt <= DBLMAX /\ DBLMAX \in Nat
  BY BPAssumption DEF IInv, TypeOK, Values
<1>2. CASE primal <= opt
  BY <1>1, <1>2
<1>3. CASE \E i \in 1 .. Len(pending) : pending[i].val = opt
  BY <1>3
<1>4. ASSUME NEW k \in 1 .. Len(L), L[k].val = opt
      PROVE  bound <= opt \/ \E i \in 1 .. Len(t) : t[i].val = opt
  <2>1. L[k] \in OpenNode /\ L[k].lb \in Nat
    BY OpenNodeType DEF IInv, TypeOK
  <2>2. CASE L[k].lb < Unit * bound
    <3>1. \E i \in 1 .. Len(t) : t[i] = L[k]
      BY <2>2 DEF Pruned
    <3>. QED  BY <1>4, <3>1
  <2>3. CASE ~(L[k].lb < Unit * bound)
    <3>1. opt < DBLMAX => L[k].lb <= Unit * opt + Eps
      BY <1>4 DEF IInv, ListInv
    <3>. QED  BY <1>1, <2>1, <2>3, <3>1 DEF Unit, Eps
  <2>. QED  BY <2>2, <2>3
<1>. QED  BY <1>2, <1>3, <1>4 DEF IInv, OptimumCovered

-----------------------------------------------------------------------------
(* What the parts of a push do to the invariant.                           *)

(* While a node waits to be pushed, it is the head of at most two. *)
LEMMA HeadFacts ==
  ASSUME TypeOK, Solving
  PROVE  /\ pending \in Seq(Subproblem) /\ Len(pending) \in 1 .. 2
         /\ Head(pending) = pending[1] /\ Head(pending) \in Subproblem
         /\ Tail(pending) \in Seq(Subproblem)
         /\ Len(Tail(pending)) = Len(pending) - 1
         /\ \A i \in 1 .. Len(Tail(pending)) :
              i + 1 \in 1 .. Len(pending) /\ Tail(pending)[i] = pending[i + 1]
<1>1. pending \in Seq(Subproblem) /\ pending # <<>> /\ Len(pending) <= 2
  BY DEF TypeOK, Solving
<1>2. Len(pending) \in Nat /\ Len(pending) # 0
  BY <1>1, EmptySeq
<1>3. Len(pending) \in 1 .. 2
  <2>1. \A k \in Nat : k # 0 /\ k <= 2 => k \in 1 .. 2
    OBVIOUS
  <2>. QED  BY <1>1, <1>2, <2>1
<1>. QED  BY <1>1, <1>3, HeadTailProperties, ElementOfSeq

(* Scalars of a typed state. *)
LEMMA Scalars ==
  ASSUME TypeOK
  PROVE  /\ DBLMAX \in Nat /\ DBLMAX > 0 /\ MaxFree \in Nat
         /\ opt \in 1 .. DBLMAX /\ primal \in 1 .. DBLMAX
         /\ best \in 0 .. DBLMAX - 1 /\ params.ub \in 1 .. DBLMAX
         /\ params.dfs \in BOOLEAN /\ params.relax \in BOOLEAN
<1>1. /\ params \in Options
      /\ opt \in 1 .. DBLMAX /\ primal \in 1 .. DBLMAX
      /\ best \in 0 .. DBLMAX - 1
  BY DEF TypeOK, Values
<1>2. params.dfs \in SearchModes /\ params.relax \in RelaxModes
      /\ params.ub \in InitialBounds
  BY <1>1 DEF Options
<1>3. DBLMAX \in Nat /\ DBLMAX > 0
  BY BPAssumption
<1>. QED  BY <1>1, <1>2, <1>3, BPAssumption

(* A heuristic colouring lowers the bound at most to the node's optimum. *)
LEMMA AfterHeurFacts ==
  ASSUME IInv, Solving, NEW h \in HeurValues(Head(pending))
  PROVE  /\ AfterHeur(h) \in Values /\ AfterHeur(h) <= primal
         /\ AfterHeur(h) < primal => opt <= AfterHeur(h)
<1>1. TypeOK /\ Head(pending).val \in 1 .. DBLMAX /\ Head(pending).val >= opt
  BY HeadFacts, SubproblemType DEF IInv, ListInv, Values
<1>2. h = 0 \/ h \in Head(pending).val .. DBLMAX - 1
  BY DEF HeurValues
<1>. QED  BY <1>1, <1>2, Scalars DEF AfterHeur, Values

(* Recording a new bound with its colouring keeps the two in agreement. *)
LEMMA NewBound ==
  ASSUME IInv, UNCHANGED <<params, opt>>, NEW bound \in Values,
         bound <= primal, bound < primal => opt <= bound, SetPrimal(bound)
  PROVE  /\ primal' = bound
         /\ best' \in 0 .. DBLMAX - 1
         /\ IncumbentIsPrimal'
<1>1. TypeOK /\ IncumbentIsPrimal
  BY DEF IInv
<1>2. CASE bound < primal
  BY <1>1, <1>2, Scalars DEF SetPrimal, IncumbentIsPrimal, Values
<1>3. CASE bound = primal
  BY <1>1, <1>3, Scalars DEF SetPrimal, IncumbentIsPrimal, Values
<1>. QED  BY <1>1, <1>2, <1>3, Scalars DEF Values

(* The parts of the invariant that speak of the next list of open nodes. *)
NextList ==
  /\ L' \in Seq(OpenNode)
  /\ SortedList'
  /\ ListBelowPrimal'
  /\ \A i \in 1 .. Len(L') :
       /\ L'[i].free > 0
       /\ L'[i].val >= opt
       /\ L'[i].val < DBLMAX => L'[i].lb <= Unit * L'[i].val + Eps
       /\ params.dfs => L'[i].free + i <= MaxFree + 1
  /\ Len(L') <= Len(L) + 1

(* An erasure alone keeps what the invariant says of the list. *)
LEMMA ListAfterErasure ==
  ASSUME IInv, UNCHANGED <<params, opt>>, NEW bound \in Values,
         primal' = bound, Pruned(L', bound)
  PROVE  NextList
<1>1. Len(L) \in Nat /\ Len(L') \in Nat /\ L' \in Seq(OpenNode)
      /\ Len(L') <= Len(L)
  BY DEF IInv, TypeOK, Pruned
<1>2. SortedList' /\ ListBelowPrimal'
  BY DEF Pruned, SortedList, ListBelowPrimal
<1>3. ASSUME NEW i \in 1 .. Len(L')
      PROVE  /\ L'[i].free > 0
             /\ L'[i].val >= opt
             /\ L'[i].val < DBLMAX => L'[i].lb <= Unit * L'[i].val + Eps
             /\ params.dfs => L'[i].free + i <= MaxFree + 1
  <2>1. PICK j \in 1 .. Len(L) : i <= j /\ L'[i] = L[j]
    BY DEF Pruned
  <2>2. L[j] \in OpenNode /\ L[j].free \in Nat /\ MaxFree \in Nat
    BY OpenNodeType, Scalars DEF IInv, TypeOK
  <2>3. params.dfs => L[j].free + j <= MaxFree + 1
    BY DEF IInv, StackInv
  <2>4. params.dfs => L[j].free + i <= MaxFree + 1
    BY <1>1, <2>1, <2>2, <2>3
  <2>. QED  BY <2>1, <2>4 DEF IInv, ListInv
<1>. QED  BY <1>1, <1>2, <1>3 DEF NextList

(* An erasure followed by the insertion of a node below the bound keeps it
   too. *)
LEMMA ListAfterInsertion ==
  ASSUME IInv, Solving, UNCHANGED <<params, opt>>, NEW bound \in Values,
         primal' = bound, NEW t, Pruned(t, bound),
         NEW node \in OpenNode, ~Prunable(node.lb, bound),
         NEW p \in Positions(t, node.lb), L' = Inserted(t, p, node),
         node.val = Head(pending).val, node.free = Head(pending).free,
         node.free > 0, node.val < DBLMAX => node.lb <= Unit * node.val + Eps
  PROVE  NextList
<1>1. Len(L) \in Nat /\ Len(t) \in Nat /\ Len(t) <= Len(L) /\ TypeOK
      /\ L \in Seq(OpenNode)
  BY DEF IInv, TypeOK, Pruned
<1>2. /\ L' \in Seq(OpenNode)
      /\ Len(L') = Len(t) + 1
      /\ ~params.dfs => \A j, k \in 1 .. Len(L') : j < k => L'[j].lb >= L'[k].lb
      /\ \A j \in 1 .. Len(L') : L'[j].lb < Unit * bound
      /\ \A j \in 1 .. Len(L') :
           \/ L'[j] = node /\ (params.dfs => j = Len(t) + 1)
           \/ \E k \in 1 .. Len(t) : L'[j] = t[k] /\ (params.dfs => j = k)
  <2> DEFINE u == Inserted(t, p, node)
  <2>1. /\ u \in Seq(OpenNode)
        /\ Len(u) = Len(t) + 1
        /\ ~params.dfs => \A j, k \in 1 .. Len(u) : j < k => u[j].lb >= u[k].lb
        /\ \A j \in 1 .. Len(u) : u[j].lb < Unit * bound
        /\ \A j \in 1 .. Len(u) :
             \/ u[j] = node /\ (params.dfs => j = Len(t) + 1)
             \/ \E k \in 1 .. Len(t) : u[j] = t[k] /\ (params.dfs => j = k)
    BY <1>1, InsertedIsOrdered
  <2>2. L' = u
    OBVIOUS
  <2>. HIDE DEF u
  <2>. QED  BY <2>1, <2>2
<1>3. SortedList' /\ ListBelowPrimal'
  BY <1>2 DEF SortedList, ListBelowPrimal
<1>4. ASSUME NEW i \in 1 .. Len(L')
      PROVE  /\ L'[i].free > 0
             /\ L'[i].val >= opt
             /\ L'[i].val < DBLMAX => L'[i].lb <= Unit * L'[i].val + Eps
             /\ params.dfs => L'[i].free + i <= MaxFree + 1
  <2>1. CASE L'[i] = node /\ (params.dfs => i = Len(t) + 1)
    <3>1. pending[1].val >= opt
          /\ (params.dfs =>
               pending[1].free + Len(L) + Len(pending) <= MaxFree + 1)
      BY <1>1, HeadFacts DEF IInv, ListInv, StackInv
    <3>2. node.free \in Nat /\ Len(pending) \in 1 .. 2 /\ MaxFree \in Nat
          /\ node.free = pending[1].free /\ node.val = pending[1].val
      BY <1>1, HeadFacts, OpenNodeType, Scalars
    <3>3. params.dfs => node.free + i <= MaxFree + 1
      BY <1>1, <2>1, <3>1, <3>2
    <3>. QED  BY <2>1, <3>1, <3>2, <3>3
  <2>2. ASSUME NEW k \in 1 .. Len(t), L'[i] = t[k], params.dfs => i = k
        PROVE  /\ L'[i].free > 0
               /\ L'[i].val >= opt
               /\ L'[i].val < DBLMAX => L'[i].lb <= Unit * L'[i].val + Eps
               /\ params.dfs => L'[i].free + i <= MaxFree + 1
    <3>1. PICK j \in 1 .. Len(L) : k <= j /\ t[k] = L[j]
      BY DEF Pruned
    <3>2. L[j] \in OpenNode /\ L[j].free \in Nat /\ MaxFree \in Nat
      BY <1>1, OpenNodeType, Scalars
    <3>3. params.dfs => L[j].free + j <= MaxFree + 1
      BY DEF IInv, StackInv
    <3>4. params.dfs => L[j].free + i <= MaxFree + 1
      BY <1>1, <2>2, <3>1, <3>2, <3>3
    <3>. QED  BY <2>2, <3>1, <3>4 DEF IInv, ListInv
  <2>. QED  BY <1>2, <2>1, <2>2
<1>. QED  BY <1>1, <1>2, <1>3, <1>4 DEF NextList

(* The invariant after a push, from what it does to the list, the bound    *)
(* and the other pending node.                                             *)
LEMMA PushKeeps ==
  ASSUME IInv, Solving, UNCHANGED <<params, opt, report>>, NextList,
         dropped' \in BOOLEAN, primal' \in Values,
         best' \in 0 .. DBLMAX - 1, IncumbentIsPrimal',
         pending' = Tail(pending), OptimumCovered'
  PROVE  IInv'
<1>1. TypeOK /\ MaxFree \in Nat
  BY Scalars DEF IInv
<1>2. /\ pending' \in Seq(Subproblem)
      /\ Len(pending) \in 1 .. 2
      /\ Len(pending') = Len(pending) - 1
      /\ \A i \in 1 .. Len(pending') :
           i + 1 \in 1 .. Len(pending) /\ pending'[i] = pending[i + 1]
  BY <1>1, HeadFacts
<1>3. TypeOK'
  BY <1>1, <1>2 DEF TypeOK, NextList
<1>4. \A i \in 1 .. Len(pending') : pending'[i].val >= opt'
  BY <1>2 DEF IInv, ListInv
<1>5. ListInv'
  BY <1>4 DEF ListInv, NextList
<1>6. ASSUME params.dfs, NEW i \in 1 .. Len(pending')
      PROVE  pending'[i].free + Len(L') + Len(pending') <= MaxFree + 1
  <2>1. pending[i + 1].free + Len(L) + Len(pending) <= MaxFree + 1
    BY <1>2, <1>6 DEF IInv, StackInv
  <2>2. pending[i + 1] \in Subproblem /\ pending[i + 1].free \in Nat
    BY <1>1, <1>2, SubproblemType, ElementOfSeq DEF TypeOK
  <2>3. Len(L) \in Nat /\ Len(L') \in Nat /\ Len(L') <= Len(L) + 1
    BY <1>1, <1>3 DEF TypeOK, NextList
  <2>. QED  BY SMTT(60), <1>1, <1>2, <2>1, <2>2, <2>3
<1>7. StackInv'
  BY <1>6 DEF StackInv, NextList
<1>8. AnswerInv'
  BY DEF AnswerInv, OptimalIsOptimal, InfeasibleIsInfeasible,
         FeasibleHasColouring, Solving, Running
<1>. QED  BY <1>3, <1>5, <1>7, <1>8 DEF IInv
-----------------------------------------------------------------------------
(* The report.                                                             *)

(* The reported lower bound is an integer, whatever the list is. *)
LEMMA DualBoundType ==
  ASSUME NEW s \in Seq(OpenNode)
  PROVE  DualBound(s) \in Int
<1>1. Len(s) \in Nat /\ (s # <<>> => Len(s) # 0) /\ DBLMAX \in Nat
  BY EmptySeq, BPAssumption
<1>2. \A i \in 1 .. Len(s) : s[i].lb \in Nat
  BY OpenNodeType
<1>3. CASE s = <<>>
  BY <1>1, <1>3 DEF DualBound, Unit
<1>4. CASE s # <<>>
  <2>1. 1 \in 1 .. Len(s) /\ s[1].lb \in Nat
    BY <1>1, <1>2, <1>4
  <2>2. PICK m \in {s[i].lb : i \in 1 .. Len(s)} :
          \A b \in {s[i].lb : i \in 1 .. Len(s)} : m <= b
    <3> DEFINE T == {s[i].lb : i \in 1 .. Len(s)}
    <3>1. T \in SUBSET Nat /\ T # {}
      BY <1>2, <2>1
    <3>. HIDE DEF T
    <3>2. \E m \in T : \A b \in T : m <= b
      BY <3>1, LeastNatural
    <3>. QED  BY <3>2 DEF T
  <2>3. \E b \in {s[i].lb : i \in 1 .. Len(s)} : \A i \in 1 .. Len(s) : b <= s[i].lb
    BY <2>2
  <2>4. (CHOOSE b \in {s[i].lb : i \in 1 .. Len(s)} :
           \A i \in 1 .. Len(s) : b <= s[i].lb) \in {s[i].lb : i \in 1 .. Len(s)}
    BY <2>3
  <2>5. (CHOOSE b \in {s[i].lb : i \in 1 .. Len(s)} :
           \A i \in 1 .. Len(s) : b <= s[i].lb) \in Nat
    BY <1>2, <2>4
  <2>. QED  BY <1>4, <2>1, <2>5 DEF DualBound
<1>. QED  BY <1>3, <1>4

(* What return_stats may report: the given state, or what a late clock     *)
(* makes of it.                                                            *)
LEMMA ReportFacts ==
  ASSUME TypeOK, L' \in Seq(OpenNode), primal' \in Values,
         NEW s \in States, return_stats(s)
  PROVE  /\ report' \in [state : States, lb : Int, ub : Int]
         /\ \/ report'.state = s
            \/ report'.state = "TIME_EXCEEDED"
            \/ report'.state = "FEASIBLE" /\ primal' # DBLMAX
         /\ primal' # DBLMAX => report'.ub = primal'
         /\ s = "OPTIMAL" => report'.lb = Unit * primal'
<1>1. PICK late \in BOOLEAN : \E ub \in CastToInt(primal') :
        report' =
          [state |-> IF ~late THEN s
                     ELSE IF primal' = DBLMAX THEN "TIME_EXCEEDED"
                     ELSE "FEASIBLE",
           ub    |-> ub,
           lb    |-> IF s = "OPTIMAL" THEN Unit * primal'
                     ELSE IF s = "INFEASIBLE" THEN report.lb
                     ELSE DualBound(L')]
  BY DEF return_stats
<1>2. PICK ub \in CastToInt(primal') :
        report' =
          [state |-> IF ~late THEN s
                     ELSE IF primal' = DBLMAX THEN "TIME_EXCEEDED"
                     ELSE "FEASIBLE",
           ub    |-> ub,
           lb    |-> IF s = "OPTIMAL" THEN Unit * primal'
                     ELSE IF s = "INFEASIBLE" THEN report.lb
                     ELSE DualBound(L')]
  BY <1>1
<1>3. primal' \in 1 .. DBLMAX /\ DBLMAX \in Nat /\ primal' \in Int
  BY BPAssumption DEF Values
<1>4. ub \in Int /\ (primal' # DBLMAX => ub = primal')
  BY <1>2, <1>3 DEF CastToInt
<1>5. DualBound(L') \in Int /\ report.lb \in Int /\ Unit * primal' \in Int
  BY <1>3, DualBoundType DEF TypeOK, Unit
<1>6. report'.state \in States /\ report'.ub = ub /\ report'.lb \in Int
  BY <1>2, <1>5 DEF States
<1>7. report' = [state |-> report'.state, ub |-> report'.ub, lb |-> report'.lb]
  BY <1>2
<1>8. report' \in [state : States, lb : Int, ub : Int]
  BY <1>4, <1>6, <1>7
<1>. QED  BY <1>2, <1>4, <1>8

-----------------------------------------------------------------------------
(* Every step of the search keeps the inductive invariant.                 *)

(* The root alone, with an empty list, satisfies the invariant. *)
LEMMA InitIInv == Init => IInv
<1> SUFFICES ASSUME Init PROVE IInv
  OBVIOUS
<1>1. PICK free \in 0 .. MaxFree : pending = <<[val |-> opt, free |-> free]>>
  BY DEF Init
<1>2. /\ pending \in Seq(Subproblem) /\ Len(pending) = 1
      /\ pending[1].val = opt /\ pending[1].free = free
      /\ L = <<>> /\ L \in Seq(OpenNode) /\ Len(L) = 0
  BY <1>1 DEF Init, Subproblem
<1>3. params.ub \in 1 .. DBLMAX /\ DBLMAX \in Nat \ {0} /\ MaxFree \in Nat
      /\ opt \in 1 .. DBLMAX
  BY BPAssumption DEF Init, Options, Values
<1>4. TypeOK
  <2>1. report \in [state : States, lb : Int, ub : Int]
    BY DEF Init, States, Unit
  <2>2. /\ params \in Options
        /\ primal = params.ub /\ best = 0 /\ dropped = FALSE
    BY DEF Init
  <2>3. Len(pending) <= 2 /\ best \in 0 .. DBLMAX - 1
        /\ primal \in Values /\ opt \in Values
    BY <1>2, <1>3, <2>2 DEF Values
  <2>. QED  BY <1>2, <2>1, <2>2, <2>3 DEF TypeOK
<1>5. ListInv
  BY <1>2, <1>3 DEF ListInv, SortedList, ListBelowPrimal
<1>6. StackInv
  <2>1. \A i \in 1 .. Len(pending) : i = 1
    BY <1>2
  <2>. QED  BY <1>2, <1>3, <2>1 DEF StackInv
<1>7. OptimumCovered
  BY <1>2 DEF OptimumCovered
<1>8. IncumbentIsPrimal
  BY DEF Init, IncumbentIsPrimal
<1>9. AnswerInv
  BY DEF Init, AnswerInv, OptimalIsOptimal, InfeasibleIsInfeasible,
         FeasibleHasColouring
<1>. QED  BY <1>4, <1>5, <1>6, <1>7, <1>8, <1>9 DEF IInv

(* A pending node other than the first is still pending after a push. *)
LEMMA StillPending ==
  ASSUME TypeOK, Solving, pending' = Tail(pending),
         NEW i \in 1 .. Len(pending), pending[i].val = opt
  PROVE  \/ Head(pending).val = opt
         \/ \E j \in 1 .. Len(pending') : pending'[j].val = opt
<1>1. CASE i = 1
  BY <1>1, HeadFacts
<1>2. CASE i # 1
  <2>1. i - 1 \in 1 .. Len(pending') /\ pending'[i - 1] = pending[i]
    BY <1>2, HeadFacts
  <2>. QED  BY <2>1
<1>. QED  BY <1>1, <1>2

(* A push that erases the list down to its bound covers the optimum if the *)
(* pushed node does not matter any more.                                   *)
LEMMA ErasureCovers ==
  ASSUME IInv, Solving, UNCHANGED <<params, opt, report>>,
         NEW bound \in Values, bound <= primal, primal' = bound,
         Pruned(L', bound), pending' = Tail(pending),
         dropped' \/ dropped' = dropped,
         dropped' \/ Head(pending).val # opt \/ bound <= opt
  PROVE  OptimumCovered'
<1>1. SUFFICES ASSUME ~dropped'
               PROVE  \/ primal' <= opt'
                      \/ \E i \in 1 .. Len(L') : L'[i].val = opt'
                      \/ \E i \in 1 .. Len(pending') : pending'[i].val = opt'
  BY DEF OptimumCovered
<1>2. \/ bound <= opt
      \/ \E i \in 1 .. Len(L') : L'[i].val = opt
      \/ \E i \in 1 .. Len(pending) : pending[i].val = opt
  BY <1>1, PrunedCovers DEF Solving
<1>3. ASSUME NEW i \in 1 .. Len(pending), pending[i].val = opt
      PROVE  bound <= opt \/ \E j \in 1 .. Len(pending') : pending'[j].val = opt
  BY <1>1, <1>3, StillPending DEF IInv
<1>. QED  BY <1>2, <1>3

(* A node whose relaxation is infeasible is dropped. *)
LEMMA PushInfeasibleKeeps == IInv /\ PushInfeasible => IInv'
<1> SUFFICES ASSUME IInv, PushInfeasible PROVE IInv'
  OBVIOUS
<1>1. /\ Solving /\ pending' = Tail(pending) /\ Head(pending).val = DBLMAX
      /\ UNCHANGED <<params, opt, L, primal, best, dropped, report>>
  BY DEF PushInfeasible
<1>2. TypeOK /\ primal \in Values /\ primal <= primal
  BY Scalars DEF IInv, Values
<1>3. L \in Erased(primal)
  BY <1>2, Scalars DEF Erased
<1>4. Pruned(L', primal)
  BY <1>1, <1>2, <1>3, ErasedIsPruned DEF IInv, ListInv
<1>5. NextList
  BY <1>1, <1>2, <1>4, ListAfterErasure
<1>6. Head(pending).val # opt \/ primal <= opt
  BY <1>1, <1>2, Scalars
<1>7. OptimumCovered'
  BY <1>1, <1>2, <1>4, <1>6, ErasureCovers
<1>8. IncumbentIsPrimal' /\ dropped' \in BOOLEAN /\ best' \in 0 .. DBLMAX - 1
  BY <1>1 DEF IInv, TypeOK, IncumbentIsPrimal
<1>. QED  BY <1>1, <1>2, <1>5, <1>7, <1>8, PushKeeps

(* An integral node may lower the bound, as may the heuristic before it. *)
LEMMA PushIntegerKeeps == IInv /\ PushInteger => IInv'
<1> SUFFICES ASSUME IInv, PushInteger PROVE IInv'
  OBVIOUS
<1>1. /\ Solving /\ pending' = Tail(pending) /\ Head(pending).val < DBLMAX
      /\ UNCHANGED <<params, opt, dropped, report>>
  BY DEF PushInteger
<1>2. PICK h \in HeurValues(Head(pending)) :
        LET bound == IF Head(pending).val < AfterHeur(h)
                     THEN Head(pending).val ELSE AfterHeur(h)
        IN  SetPrimal(bound) /\ L' \in Erased(bound)
  BY DEF PushInteger
<1> DEFINE bound == IF Head(pending).val < AfterHeur(h)
                    THEN Head(pending).val ELSE AfterHeur(h)
<1>3. SetPrimal(bound) /\ L' \in Erased(bound)
  BY <1>2
<1>4. TypeOK /\ Head(pending).val \in 1 .. DBLMAX /\ Head(pending).val >= opt
  BY <1>1, HeadFacts, SubproblemType DEF IInv, ListInv, Values
<1>5. AfterHeur(h) \in 1 .. DBLMAX /\ AfterHeur(h) <= primal
      /\ (AfterHeur(h) < primal => opt <= AfterHeur(h))
  BY <1>1, AfterHeurFacts DEF Values
<1>6. bound \in Values /\ bound <= primal /\ bound <= Head(pending).val
      /\ (bound < primal => opt <= bound)
  BY <1>4, <1>5, Scalars DEF Values
<1>. HIDE DEF bound
<1>7. Pruned(L', bound)
  BY <1>3, <1>6, ErasedIsPruned DEF IInv, ListInv
<1>8. primal' = bound /\ best' \in 0 .. DBLMAX - 1 /\ IncumbentIsPrimal'
  BY <1>1, <1>3, <1>6, NewBound
<1>9. NextList
  BY <1>1, <1>6, <1>7, <1>8, ListAfterErasure
<1>10. Head(pending).val # opt \/ bound <= opt
  BY <1>6
<1>11. OptimumCovered'
  BY <1>1, <1>6, <1>7, <1>8, <1>10, ErasureCovers
<1>12. dropped' \in BOOLEAN
  BY <1>1, <1>4 DEF TypeOK
<1>. QED  BY <1>1, <1>6, <1>8, <1>9, <1>11, <1>12, PushKeeps

(* A node whose exact pricing failed is dropped after the heuristic's
   update. *)
LEMMA PushUnknownKeeps == IInv /\ PushUnknown => IInv'
<1> SUFFICES ASSUME IInv, PushUnknown PROVE IInv'
  OBVIOUS
<1>1. /\ Solving /\ pending' = Tail(pending) /\ dropped' = TRUE
      /\ UNCHANGED <<params, opt, report>>
  BY DEF PushUnknown
<1>2. PICK h \in HeurValues(Head(pending)) :
        SetPrimal(AfterHeur(h)) /\ L' \in Erased(AfterHeur(h))
  BY DEF PushUnknown
<1>3. TypeOK /\ SortedList /\ ListBelowPrimal
  BY DEF IInv, ListInv
<1>4. AfterHeur(h) \in Values /\ AfterHeur(h) <= primal
      /\ (AfterHeur(h) < primal => opt <= AfterHeur(h))
  BY <1>1, AfterHeurFacts
<1>5. Pruned(L', AfterHeur(h))
  BY <1>2, <1>3, <1>4, ErasedIsPruned
<1>6. primal' = AfterHeur(h) /\ best' \in 0 .. DBLMAX - 1 /\ IncumbentIsPrimal'
  BY <1>1, <1>2, <1>4, NewBound
<1>7. NextList
  BY <1>1, <1>4, <1>5, <1>6, ListAfterErasure
<1>8. OptimumCovered'
  BY <1>1 DEF OptimumCovered
<1>. QED  BY <1>1, <1>4, <1>6, <1>7, <1>8, PushKeeps

(* A node whose feasibility check timed out is dropped. *)
LEMMA PushUndecidedKeeps == IInv /\ PushUndecided => IInv'
<1> SUFFICES ASSUME IInv, PushUndecided PROVE IInv'
  OBVIOUS
<1>1. /\ Solving /\ pending' = Tail(pending) /\ dropped' = TRUE
      /\ UNCHANGED <<params, opt, L, primal, best, report>>
  BY DEF PushUndecided
<1>2. TypeOK /\ primal \in Values /\ primal <= primal
  BY Scalars DEF IInv, Values
<1>3. L \in Erased(primal)
  BY <1>2, Scalars DEF Erased
<1>4. Pruned(L', primal)
  BY <1>1, <1>2, <1>3, ErasedIsPruned DEF IInv, ListInv
<1>5. NextList
  BY <1>1, <1>2, <1>4, ListAfterErasure
<1>6. OptimumCovered'
  BY <1>1 DEF OptimumCovered
<1>7. IncumbentIsPrimal' /\ best' \in 0 .. DBLMAX - 1
  BY <1>1 DEF IInv, TypeOK, IncumbentIsPrimal
<1>. QED  BY <1>1, <1>2, <1>5, <1>6, <1>7, PushKeeps

(* Without a vertex to branch on, the assertion ends the program. *)
LEMMA PushStuckKeeps == IInv /\ PushStuck => IInv'
<1> SUFFICES ASSUME IInv, PushStuck PROVE IInv'
  OBVIOUS
<1>1. /\ report' = [report EXCEPT !.state = "ABORTED"]
      /\ UNCHANGED <<params, opt, L, pending, primal, best, dropped>>
  BY DEF PushStuck
<1>2. report' \in [state : States, lb : Int, ub : Int]
      /\ report'.state = "ABORTED"
  BY <1>1 DEF IInv, TypeOK, States
<1>3. TypeOK'
  BY <1>1, <1>2 DEF IInv, TypeOK
<1>4. ListInv' /\ StackInv' /\ IncumbentIsPrimal'
  BY <1>1 DEF IInv, ListInv, StackInv, IncumbentIsPrimal, SortedList,
              ListBelowPrimal
<1>5. OptimumCovered' /\ AnswerInv'
  BY <1>2 DEF OptimumCovered, Running, AnswerInv, OptimalIsOptimal,
              InfeasibleIsInfeasible, FeasibleHasColouring
<1>. QED  BY <1>3, <1>4, <1>5 DEF IInv

(* A fractional node is pruned by the bound or inserted in order. *)
LEMMA PushFractionalKeeps == IInv /\ PushFractional => IInv'
<1> SUFFICES ASSUME IInv, PushFractional PROVE IInv'
  OBVIOUS
<1> DEFINE n == Head(pending)
<1>1. /\ Solving /\ pending' = Tail(pending) /\ n.free > 0
      /\ UNCHANGED <<params, opt, dropped, report>>
  BY DEF PushFractional
<1>2. PICK h \in HeurValues(n), lb \in LowerBounds :
        /\ n.val < DBLMAX => lb <= Unit * n.val + Eps
        /\ SetPrimal(AfterHeur(h))
        /\ \E kept \in Erased(AfterHeur(h)) :
             IF Prunable(lb, AfterHeur(h))
             THEN L' = kept
             ELSE \E i \in Positions(kept, lb) :
                    L' = Inserted(kept, i, [val |-> n.val,
                                            free |-> n.free, lb |-> lb])
  BY DEF PushFractional
<1>3. PICK kept \in Erased(AfterHeur(h)) :
        IF Prunable(lb, AfterHeur(h))
        THEN L' = kept
        ELSE \E i \in Positions(kept, lb) :
               L' = Inserted(kept, i, [val |-> n.val,
                                       free |-> n.free, lb |-> lb])
  BY <1>2
<1>4. TypeOK /\ SortedList /\ ListBelowPrimal
  BY DEF IInv, ListInv
<1>5. AfterHeur(h) \in Values /\ AfterHeur(h) <= primal
      /\ (AfterHeur(h) < primal => opt <= AfterHeur(h))
  BY <1>1, AfterHeurFacts
<1>6. Pruned(kept, AfterHeur(h))
  BY <1>4, <1>5, ErasedIsPruned
<1>7. primal' = AfterHeur(h) /\ best' \in 0 .. DBLMAX - 1 /\ IncumbentIsPrimal'
  BY <1>1, <1>2, <1>5, NewBound
<1>8. dropped' \in BOOLEAN
  BY <1>1, <1>4 DEF TypeOK
<1>9. n \in Subproblem /\ n.val \in Values /\ n.free \in 0 .. MaxFree
  BY <1>1, <1>4, HeadFacts, SubproblemType
<1>10. CASE Prunable(lb, AfterHeur(h))
  <2>1. L' = kept
    BY <1>3, <1>10
  <2>2. NextList
    BY <1>1, <1>5, <1>6, <1>7, <2>1, ListAfterErasure
  <2>3. n.val # opt \/ AfterHeur(h) <= opt
    <3>1. lb \in Nat /\ opt \in 1 .. DBLMAX /\ AfterHeur(h) \in 1 .. DBLMAX
          /\ DBLMAX \in Nat
      BY <1>4, <1>5, Scalars, BPAssumption DEF Values
    <3>2. CeilEps(lb) >= AfterHeur(h)
      BY <1>10 DEF Prunable
    <3>3. n.val = opt /\ opt < DBLMAX => CeilEps(lb) <= opt
      <4> SUFFICES ASSUME n.val = opt, opt < DBLMAX PROVE CeilEps(lb) <= opt
        OBVIOUS
      <4>1. lb <= 1000 * opt + 1
        BY <1>2 DEF Unit, Eps
      <4>. QED  BY <3>1, <4>1 DEF CeilEps, Unit, Eps
    <3>4. CeilEps(lb) \in Int
      BY <3>1 DEF CeilEps, Unit, Eps
    <3>. QED  BY <3>1, <3>2, <3>3, <3>4
  <2>4. OptimumCovered'
    BY <1>1, <1>5, <1>6, <1>7, <2>1, <2>3, ErasureCovers
  <2>. QED  BY <1>1, <1>5, <1>7, <1>8, <2>2, <2>4, PushKeeps
<1>11. CASE ~Prunable(lb, AfterHeur(h))
  <2> DEFINE node == [val |-> n.val, free |-> n.free, lb |-> lb]
  <2>1. PICK i \in Positions(kept, lb) : L' = Inserted(kept, i, node)
    BY <1>3, <1>11
  <2>2. node \in OpenNode /\ node.val = n.val /\ node.free = n.free
        /\ node.lb = lb
    BY <1>9 DEF OpenNode
  <2>. HIDE DEF node
  <2>3. node.free > 0
        /\ (node.val < DBLMAX => node.lb <= Unit * node.val + Eps)
    BY <1>1, <1>2, <2>2
  <2>4. NextList
    BY <1>1, <1>5, <1>6, <1>7, <1>11, <2>1, <2>2, <2>3, ListAfterInsertion
  <2>5. /\ \A k \in 1 .. Len(kept) : \E j \in 1 .. Len(L') : L'[j] = kept[k]
        /\ \E j \in 1 .. Len(L') : L'[j] = node
    BY <1>4, <1>5, <1>6, <1>11, <2>1, <2>2, InsertedIsOrdered
  <2>6. OptimumCovered'
    <3>1. SUFFICES ASSUME ~dropped'
                   PROVE  \/ primal' <= opt
                          \/ \E j \in 1 .. Len(L') : L'[j].val = opt
                          \/ \E j \in 1 .. Len(pending') : pending'[j].val = opt
      BY <1>1 DEF OptimumCovered
    <3>2. \/ AfterHeur(h) <= opt
          \/ \E j \in 1 .. Len(kept) : kept[j].val = opt
          \/ \E j \in 1 .. Len(pending) : pending[j].val = opt
      BY <1>1, <1>5, <1>6, <3>1, PrunedCovers DEF Solving
    <3>3. ASSUME NEW j \in 1 .. Len(kept), kept[j].val = opt
          PROVE  \E k \in 1 .. Len(L') : L'[k].val = opt
      BY <2>5, <3>3
    <3>4. ASSUME NEW j \in 1 .. Len(pending), pending[j].val = opt
          PROVE  \/ \E k \in 1 .. Len(L') : L'[k].val = opt
                 \/ \E k \in 1 .. Len(pending') : pending'[k].val = opt
      <4>1. n.val = opt \/ \E k \in 1 .. Len(pending') : pending'[k].val = opt
        BY <1>1, <1>4, <3>4, StillPending
      <4>2. n.val = opt => \E k \in 1 .. Len(L') : L'[k].val = opt
        BY <2>2, <2>5
      <4>. QED  BY <4>1, <4>2
    <3>. QED  BY <1>7, <3>2, <3>3, <3>4
  <2>. QED  BY <1>1, <1>5, <1>7, <1>8, <2>4, <2>6, PushKeeps
<1>. QED  BY <1>10, <1>11

(* The invariant once a report has been made. *)
LEMMA EndKeeps ==
  ASSUME IInv, UNCHANGED <<params, opt, dropped>>, NextList, pending' = <<>>,
         primal' \in Values, best' \in 0 .. DBLMAX - 1, IncumbentIsPrimal',
         report' \in [state : States, lb : Int, ub : Int],
         report'.state # "RUNNING", AnswerInv'
  PROVE  IInv'
<1>1. pending' \in Seq(Subproblem) /\ Len(pending') = 0
  OBVIOUS
<1>2. TypeOK'
  BY <1>1 DEF IInv, TypeOK, NextList
<1>3. ListInv' /\ StackInv'
  BY <1>1 DEF ListInv, StackInv, NextList
<1>4. OptimumCovered'
  BY DEF OptimumCovered, Running
<1>. QED  BY <1>2, <1>3, <1>4 DEF IInv

(* A report with a value that is not DBLMAX comes with a colouring. *)
LEMMA FeasibleReport ==
  ASSUME primal' # DBLMAX => report'.ub = primal', IncumbentIsPrimal',
         report'.state = "FEASIBLE" => primal' # DBLMAX
  PROVE  FeasibleHasColouring'
BY DEF FeasibleHasColouring, IncumbentIsPrimal

(* At a limit the search reports what it has. *)
LEMMA PushLimitKeeps == IInv /\ PushLimit => IInv'
<1> SUFFICES ASSUME IInv, PushLimit PROVE IInv'
  OBVIOUS
<1>1. Solving /\ pending' = <<>> /\ UNCHANGED <<params, opt, dropped>>
  BY DEF PushLimit
<1>2. PICK h \in HeurValues(Head(pending)) :
        SetPrimal(AfterHeur(h)) /\ L' \in Erased(AfterHeur(h))
  BY DEF PushLimit
<1>3. PICK s \in LimitStates : return_stats(s)
  BY DEF PushLimit
<1>4. TypeOK /\ SortedList /\ ListBelowPrimal
  BY DEF IInv, ListInv
<1>5. AfterHeur(h) \in Values /\ AfterHeur(h) <= primal
      /\ (AfterHeur(h) < primal => opt <= AfterHeur(h))
  BY <1>1, AfterHeurFacts
<1>6. Pruned(L', AfterHeur(h))
  BY <1>2, <1>4, <1>5, ErasedIsPruned
<1>7. primal' = AfterHeur(h) /\ best' \in 0 .. DBLMAX - 1 /\ IncumbentIsPrimal'
  BY <1>1, <1>2, <1>5, NewBound
<1>8. NextList
  BY <1>1, <1>5, <1>6, <1>7, ListAfterErasure
<1>9. s \in States
      /\ s \notin {"RUNNING", "OPTIMAL", "FEASIBLE", "INFEASIBLE"}
  BY <1>3, BPAssumption DEF States
<1>10. L' \in Seq(OpenNode)
  BY <1>8 DEF NextList
<1>11. /\ report' \in [state : States, lb : Int, ub : Int]
       /\ \/ report'.state = s
          \/ report'.state = "TIME_EXCEEDED"
          \/ report'.state = "FEASIBLE" /\ primal' # DBLMAX
       /\ primal' # DBLMAX => report'.ub = primal'
  BY <1>3, <1>4, <1>5, <1>7, <1>9, <1>10, ReportFacts
<1>12. /\ report'.state \notin {"RUNNING", "OPTIMAL", "INFEASIBLE"}
       /\ report'.state = "FEASIBLE" => primal' # DBLMAX
  BY <1>9, <1>11
<1>13. AnswerInv'
  <2>1. OptimalIsOptimal' /\ InfeasibleIsInfeasible'
    BY <1>12 DEF OptimalIsOptimal, InfeasibleIsInfeasible
  <2>2. FeasibleHasColouring'
    BY <1>7, <1>11, <1>12, FeasibleReport
  <2>. QED  BY <2>1, <2>2 DEF AnswerInv
<1>. QED  BY <1>1, <1>5, <1>7, <1>8, <1>11, <1>12, <1>13, EndKeeps

(* The list without its back. *)
LEMMA ListAfterPop ==
  ASSUME IInv, L # <<>>, L' = SubSeq(L, 1, Len(L) - 1),
         UNCHANGED <<params, opt, primal>>
  PROVE  /\ NextList
         /\ Len(L) \in Nat \ {0} /\ Len(L') = Len(L) - 1
         /\ \A i \in 1 .. Len(L') : i \in 1 .. Len(L) /\ L'[i] = L[i]
<1>1. L \in Seq(OpenNode) /\ Len(L) \in Nat \ {0}
  BY EmptySeq DEF IInv, TypeOK
<1>2. /\ L' \in Seq(OpenNode) /\ Len(L') = Len(L) - 1
      /\ \A i \in 1 .. Len(L') : L'[i] = L[i]
  <2> DEFINE n == Len(L) - 1
  <2>1. n \in Nat /\ 1 \in Int /\ n \in Int
    BY <1>1
  <2>2. \A i \in 1 .. n : L[i] \in OpenNode
    BY <1>1
  <2>. HIDE DEF n
  <2>3. /\ SubSeq(L, 1, n) \in Seq(OpenNode)
        /\ Len(SubSeq(L, 1, n)) = IF 1 <= n THEN n - 1 + 1 ELSE 0
        /\ \A i \in 1 .. n - 1 + 1 : SubSeq(L, 1, n)[i] = L[1 + i - 1]
    BY <2>1, <2>2, SubSeqProperties
  <2>4. Len(SubSeq(L, 1, n)) = n
    BY <2>1, <2>3
  <2>5. \A i \in 1 .. n : SubSeq(L, 1, n)[i] = L[i]
    BY <2>1, <2>3
  <2>. QED  BY <2>3, <2>4, <2>5 DEF n
<1>3. \A i \in 1 .. Len(L') : i \in 1 .. Len(L) /\ L'[i] = L[i]
  BY <1>1, <1>2
<1>4. SortedList' /\ ListBelowPrimal'
  BY <1>3 DEF IInv, ListInv, SortedList, ListBelowPrimal
<1>5. \A i \in 1 .. Len(L') :
        /\ L'[i].free > 0
        /\ L'[i].val >= opt
        /\ L'[i].val < DBLMAX => L'[i].lb <= Unit * L'[i].val + Eps
        /\ params.dfs => L'[i].free + i <= MaxFree + 1
  BY <1>3 DEF IInv, ListInv, StackInv
<1>. QED  BY <1>1, <1>2, <1>3, <1>4, <1>5 DEF NextList

(* The invariant after a pop, from what becomes of the popped node. *)
LEMMA PopKeeps ==
  ASSUME IInv, Looping, L # <<>>, L' = SubSeq(L, 1, Len(L) - 1),
         UNCHANGED <<params, opt, primal, best, dropped, report>>,
         pending' \in Seq(Subproblem), Len(pending') <= 2,
         \A i \in 1 .. Len(pending') :
           /\ pending'[i].val >= opt
           /\ pending'[i].free < L[Len(L)].free,
         L[Len(L)].val = opt =>
           \/ primal <= opt
           \/ \E i \in 1 .. Len(pending') : pending'[i].val = opt
  PROVE  IInv'
<1>1. NextList /\ Len(L) \in Nat \ {0} /\ Len(L') = Len(L) - 1
      /\ \A i \in 1 .. Len(L') : i \in 1 .. Len(L) /\ L'[i] = L[i]
  BY ListAfterPop
<1>2. TypeOK'
  BY <1>1 DEF IInv, TypeOK, NextList
<1>3. ListInv'
  BY <1>1 DEF ListInv, NextList
<1>4. ASSUME params.dfs, NEW i \in 1 .. Len(pending')
      PROVE  pending'[i].free + Len(L') + Len(pending') <= MaxFree + 1
  <2>1. L[Len(L)].free + Len(L) <= MaxFree + 1
    BY <1>1, <1>4 DEF IInv, StackInv
  <2>2. L[Len(L)] \in OpenNode /\ L[Len(L)].free \in Nat /\ MaxFree \in Nat
    BY <1>1, OpenNodeType, ElementOfSeq, BPAssumption DEF IInv, TypeOK
  <2>3. pending'[i].free \in Nat /\ Len(pending') \in Nat
    BY SubproblemType, ElementOfSeq
  <2>. QED  BY SMTT(60), <1>1, <2>1, <2>2, <2>3
<1>5. StackInv'
  BY <1>1, <1>4 DEF StackInv, NextList
<1>6. OptimumCovered'
  <2>1. SUFFICES ASSUME ~dropped
                 PROVE  \/ primal <= opt
                        \/ \E i \in 1 .. Len(L') : L'[i].val = opt
                        \/ \E i \in 1 .. Len(pending') : pending'[i].val = opt
    BY DEF OptimumCovered
  <2>2. Len(pending) = 0
    BY DEF Looping
  <2>3. primal <= opt \/ \E i \in 1 .. Len(L) : L[i].val = opt
    BY <2>1, <2>2 DEF IInv, OptimumCovered, Looping
  <2>4. ASSUME NEW i \in 1 .. Len(L), L[i].val = opt, i # Len(L)
        PROVE  \E j \in 1 .. Len(L') : L'[j].val = opt
    <3>1. i \in 1 .. Len(L')
      BY <1>1, <2>4
    <3>. QED  BY <1>1, <2>4, <3>1
  <2>. QED  BY <2>3, <2>4
<1>7. IncumbentIsPrimal' /\ AnswerInv'
  BY DEF IInv, IncumbentIsPrimal, AnswerInv, OptimalIsOptimal,
         InfeasibleIsInfeasible, FeasibleHasColouring
<1>. QED  BY <1>2, <1>3, <1>5, <1>6, <1>7 DEF IInv

(* A popped node that the bound has made useless is dropped. *)
LEMMA PopPrunedKeeps == IInv /\ PopPruned => IInv'
<1> SUFFICES ASSUME IInv, PopPruned PROVE IInv'
  OBVIOUS
<1> DEFINE back == L[Len(L)]
<1>1. /\ Looping /\ L # <<>> /\ L' = SubSeq(L, 1, Len(L) - 1)
      /\ Prunable(back.lb, primal)
      /\ UNCHANGED <<params, opt, pending, primal, best, dropped, report>>
  BY DEF PopPruned
<1>2. L \in Seq(OpenNode) /\ Len(L) \in Nat \ {0} /\ Len(L) \in 1 .. Len(L)
  BY <1>1, EmptySeq DEF IInv, TypeOK
<1>3. back \in OpenNode /\ back.lb \in Nat
      /\ back.lb < Unit * primal
  BY <1>2, OpenNodeType DEF IInv, ListInv, ListBelowPrimal
<1>4. primal \in 1 .. DBLMAX /\ opt \in 1 .. DBLMAX /\ DBLMAX \in Nat
  BY Scalars DEF IInv
(* A node of the list is below the bound, so it can be prunable only when  *)
(* its value exceeds the bound less one by at most the tolerance.          *)
<1>5. back.val = opt => primal <= opt
  <2> SUFFICES ASSUME back.val = opt PROVE primal <= opt
    OBVIOUS
  <2>1. opt < DBLMAX => back.lb <= 1000 * opt + 1
    BY <1>2 DEF IInv, ListInv, Unit, Eps
  <2>2. opt < DBLMAX => CeilEps(back.lb) <= opt
    BY <1>3, <1>4, <2>1 DEF CeilEps, Unit, Eps
  <2>3. CeilEps(back.lb) >= primal /\ CeilEps(back.lb) \in Int
    BY <1>1, <1>3 DEF Prunable, CeilEps, Unit, Eps
  <2>. QED  BY <1>4, <2>2, <2>3
<1>6. pending' \in Seq(Subproblem) /\ Len(pending') = 0
  BY <1>1 DEF Looping
<1>. QED  BY <1>1, <1>5, <1>6, PopKeeps

(* A popped node is replaced by its two sons, to be pushed next. *)
LEMMA PopBranchKeeps == IInv /\ PopBranch => IInv'
<1> SUFFICES ASSUME IInv, PopBranch PROVE IInv'
  OBVIOUS
<1> DEFINE back == L[Len(L)]
<1>1. /\ Looping /\ L # <<>> /\ L' = SubSeq(L, 1, Len(L) - 1)
      /\ pending' \in Sons(back)
      /\ UNCHANGED <<params, opt, primal, best, dropped, report>>
  BY DEF PopBranch
<1>2. L \in Seq(OpenNode) /\ Len(L) \in 1 .. Len(L)
  BY <1>1, EmptySeq DEF IInv, TypeOK
<1>3. back \in OpenNode /\ back.val \in Nat /\ back.val >= opt
  <2>1. back \in OpenNode /\ back.val \in Nat
    BY <1>2, OpenNodeType
  <2>2. back.val >= opt
    BY <1>2 DEF IInv, ListInv
  <2>. QED  BY <2>1, <2>2
<1>4. /\ pending' \in [1 .. 2 -> Subproblem]
      /\ \A i \in 1 .. 2 : pending'[i].free < back.free
                           /\ pending'[i].val >= back.val
      /\ \E i \in 1 .. 2 : pending'[i].val = back.val
  BY <1>1 DEF Sons
<1>5. pending' \in Seq(Subproblem) /\ Len(pending') = 2
  <2>1. \E n \in Nat : pending' \in [1 .. n -> Subproblem]
    BY <1>4
  <2>2. pending' \in Seq(Subproblem)
    BY <2>1, SeqDef
  <2>3. DOMAIN pending' = 1 .. 2 /\ DOMAIN pending' = 1 .. Len(pending')
        /\ Len(pending') \in Nat
    BY <1>4, <2>2, LenProperties
  <2>. QED  BY <2>2, <2>3
<1>6. \A i \in 1 .. Len(pending') :
        pending'[i].val >= opt /\ pending'[i].free < back.free
  <2>1. \A i \in 1 .. 2 : pending'[i].val \in Nat
    BY <1>4, SubproblemType
  <2>2. opt \in Int
    BY Scalars DEF IInv
  <2>. QED  BY <1>3, <1>4, <1>5, <2>1, <2>2
<1>7. back.val = opt => \E i \in 1 .. Len(pending') : pending'[i].val = opt
  BY <1>4, <1>5
<1>. QED  BY <1>1, <1>5, <1>6, <1>7, PopKeeps

(* At the end, with an empty list or after the root under --relax, what is
   reported means what AnswerInv says. *)
LEMMA FinishKeeps == IInv /\ Finish => IInv'
<1> SUFFICES ASSUME IInv, Finish PROVE IInv'
  OBVIOUS
<1> DEFINE s == IF primal = DBLMAX THEN "INFEASIBLE"
                ELSE IF params.relax /\ L # <<>> THEN "FEASIBLE"
                ELSE "OPTIMAL"
<1>1. /\ Looping /\ pending' = <<>> /\ (params.relax \/ L = <<>>)
      /\ UNCHANGED <<params, opt, L, pending, primal, best, dropped>>
      /\ return_stats(s)
  BY DEF Finish, Looping
<1>2. TypeOK /\ IncumbentIsPrimal /\ s \in States
  BY DEF IInv, States
<1>3. primal \in Values /\ L \in Seq(OpenNode) /\ best \in 0 .. DBLMAX - 1
  BY <1>2 DEF TypeOK
<1>4. NextList
  <2>1. L \in Erased(primal)
    BY <1>2, Scalars DEF Erased
  <2>2. primal <= primal
    BY <1>2, Scalars
  <2>3. Pruned(L, primal)
    BY <1>2, <1>3, <2>1, <2>2, ErasedIsPruned DEF IInv, ListInv
  <2>. QED  BY <1>1, <1>3, <2>3, ListAfterErasure
<1>5. IncumbentIsPrimal'
  BY <1>1, <1>2 DEF IncumbentIsPrimal
<1>. HIDE DEF s
<1>6. /\ report' \in [state : States, lb : Int, ub : Int]
      /\ \/ report'.state = s
         \/ report'.state = "TIME_EXCEEDED"
         \/ report'.state = "FEASIBLE" /\ primal' # DBLMAX
      /\ primal' # DBLMAX => report'.ub = primal'
      /\ s = "OPTIMAL" => report'.lb = Unit * primal'
  BY <1>1, <1>2, <1>3, ReportFacts
<1>7. /\ report'.state # "RUNNING"
      /\ report'.state = "FEASIBLE" => primal # DBLMAX
      /\ report'.state = "INFEASIBLE" => s = "INFEASIBLE" /\ primal = DBLMAX
      /\ report'.state = "OPTIMAL" =>
           s = "OPTIMAL" /\ primal # DBLMAX /\ L = <<>>
  BY <1>1, <1>6 DEF s
<1>8. L = <<>> /\ ~dropped => primal <= opt
  BY DEF IInv, OptimumCovered, Finish, Looping
<1>9. OptimalIsOptimal'
  <2> SUFFICES ASSUME report'.state = "OPTIMAL", ~dropped,
                      opt < params.ub \/ params.ub = DBLMAX
               PROVE  best = opt /\ report'.ub = opt /\ report'.lb = Unit * opt
    BY <1>1 DEF OptimalIsOptimal
  <2>1. primal <= opt /\ primal # DBLMAX /\ s = "OPTIMAL"
    BY <1>7, <1>8
  <2>2. best = primal /\ best = opt
    BY <1>2, <2>1, Scalars DEF IncumbentIsPrimal
  <2>. QED  BY <1>1, <1>6, <2>1, <2>2
<1>10. InfeasibleIsInfeasible'
  <2> SUFFICES ASSUME report'.state = "INFEASIBLE", ~params.relax, ~dropped
               PROVE  opt = DBLMAX
    BY <1>1 DEF InfeasibleIsInfeasible
  <2>1. primal = DBLMAX /\ primal <= opt
    BY <1>1, <1>7, <1>8
  <2>. QED  BY <1>2, <2>1, Scalars
<1>11. FeasibleHasColouring'
  BY <1>1, <1>5, <1>6, <1>7, FeasibleReport
<1>12. AnswerInv'
  BY <1>9, <1>10, <1>11 DEF AnswerInv
<1>. QED  BY <1>1, <1>3, <1>4, <1>5, <1>6, <1>7, <1>12, EndKeeps

(* A stuttering step changes nothing of the invariant. *)
LEMMA StutterKeeps == IInv /\ UNCHANGED vars => IInv'
BY DEF vars, IInv, TypeOK, ListInv, StackInv, OptimumCovered, AnswerInv,
       IncumbentIsPrimal, SortedList, ListBelowPrimal, OptimalIsOptimal,
       InfeasibleIsInfeasible, FeasibleHasColouring, Running

-----------------------------------------------------------------------------
(* The theorems.                                                           *)

(* The inductive invariant holds throughout every execution. *)
THEOREM Invariance == Spec => []IInv
<1>1. IInv /\ [Next]_vars => IInv'
  BY PushInfeasibleKeeps, PushIntegerKeeps, PushFractionalKeeps,
     PushLimitKeeps, PushUnknownKeeps, PushUndecidedKeeps, PushStuckKeeps,
     PopPrunedKeeps, PopBranchKeeps, FinishKeeps, StutterKeeps DEF Next
<1>. QED  BY InitIInv, <1>1, PTL DEF Spec

(* Every variable keeps its type, whatever the sizes and options. *)
THEOREM TypeCorrect == Spec => []TypeOK
<1>1. IInv => TypeOK
  BY DEF IInv
<1>. QED  BY <1>1, Invariance, PTL

(* The list of open nodes of a best-bound search is always sorted. *)
THEOREM ListSorted == Spec => []SortedList
<1>1. IInv => SortedList
  BY DEF IInv, ListInv
<1>. QED  BY <1>1, Invariance, PTL

(* No open node ever reaches the primal bound, in either search. *)
THEOREM OpenNodesBelowPrimal == Spec => []ListBelowPrimal
<1>1. IInv => ListBelowPrimal
  BY DEF IInv, ListInv
<1>. QED  BY <1>1, Invariance, PTL

(* Pruning, branching and erasing never lose the last optimal colouring. *)
THEOREM OptimumNeverLost == Spec => []OptimumCovered
<1>1. IInv => OptimumCovered
  BY DEF IInv
<1>. QED  BY <1>1, Invariance, PTL

(* primal_bound is always the number of colours of the saved colouring. *)
THEOREM PrimalIsIncumbent == Spec => []IncumbentIsPrimal
<1>1. IInv => IncumbentIsPrimal
  BY DEF IInv
<1>. QED  BY <1>1, Invariance, PTL

(* The answers OPTIMAL, INFEASIBLE and FEASIBLE of solve are true. *)
THEOREM AnswersAreTrue ==
  Spec => [](OptimalIsOptimal /\ InfeasibleIsInfeasible /\ FeasibleHasColouring)
<1>1. IInv => OptimalIsOptimal /\ InfeasibleIsInfeasible /\ FeasibleHasColouring
  BY DEF IInv, AnswerInv
<1>. QED  BY <1>1, Invariance, PTL

(* When solve answers INFEASIBLE without --relax, and no node was dropped  *)
(* undecided, there is no colouring.                                       *)
THEOREM InfeasibleIsTrue == Spec => []InfeasibleIsInfeasible
<1>1. IInv => InfeasibleIsInfeasible
  BY DEF IInv, AnswerInv
<1>. QED  BY <1>1, Invariance, PTL

(* A depth-first search never has more open nodes than the root has        *)
(* undecided vertices.                                                     *)
THEOREM DfsListBounded == Spec => []DfsListIsShort
<1>1. IInv => DfsListIsShort
  <2> SUFFICES ASSUME IInv, params.dfs PROVE Len(L) <= MaxFree
    BY DEF DfsListIsShort
  <2>1. Len(L) \in Nat /\ MaxFree \in Nat /\ L \in Seq(OpenNode)
    BY Scalars DEF IInv, TypeOK
  <2>2. CASE Len(L) = 0
    BY <2>1, <2>2
  <2>3. CASE Len(L) # 0
    <3>1. Len(L) \in 1 .. Len(L)
      BY <2>1, <2>3
    <3>2. L[Len(L)].free > 0 /\ L[Len(L)].free + Len(L) <= MaxFree + 1
      BY <3>1 DEF IInv, ListInv, StackInv
    <3>3. L[Len(L)] \in OpenNode /\ L[Len(L)].free \in Nat
      BY <2>1, <3>1, OpenNodeType
    <3>. QED  BY <2>1, <3>2, <3>3
  <2>. QED  BY <2>2, <2>3
<1>. QED  BY <1>1, Invariance, PTL

(* The dual bound of a depth-first search never exceeds the optimum.       *)
THEOREM DfsDualBound == Spec => []DfsDualBoundIsValid
<1>1. ASSUME IInv, params.dfs, Looping, ~dropped, L # <<>>, opt < primal
      PROVE  DualBound(L) <= Unit * opt + Eps
  <2>1. L \in Seq(OpenNode) /\ Len(pending) = 0 /\ opt \in Nat
        /\ opt < DBLMAX
    BY <1>1, Scalars DEF IInv, TypeOK, Looping
  <2>2. PICK k \in 1 .. Len(L) : L[k].val = opt
    BY <1>1, <2>1, Scalars DEF IInv, OptimumCovered, Looping
  <2>3. L[k].lb <= Unit * opt + Eps
    BY <1>1, <2>1, <2>2 DEF IInv, ListInv
  <2>4. \A i \in 1 .. Len(L) : L[i].lb \in Nat
    BY <2>1, OpenNodeType
  <2>5. PICK m \in {L[i].lb : i \in 1 .. Len(L)} :
          \A b \in {L[i].lb : i \in 1 .. Len(L)} : m <= b
    <3> DEFINE T == {L[i].lb : i \in 1 .. Len(L)}
    <3>1. T \in SUBSET Nat /\ T # {}
      BY <2>2, <2>4
    <3>. HIDE DEF T
    <3>2. \E x \in T : \A b \in T : x <= b
      BY <3>1, LeastNatural
    <3>. QED  BY <3>2 DEF T
  <2> DEFINE least == CHOOSE b \in {L[i].lb : i \in 1 .. Len(L)} :
                        \A i \in 1 .. Len(L) : b <= L[i].lb
  <2>6. \E b \in {L[i].lb : i \in 1 .. Len(L)} : \A i \in 1 .. Len(L) : b <= L[i].lb
    BY <2>5
  <2>7. least \in {L[i].lb : i \in 1 .. Len(L)}
        /\ \A i \in 1 .. Len(L) : least <= L[i].lb
    BY <2>6
  <2>8. DualBound(L) = least
    BY <1>1 DEF DualBound
  <2>. HIDE DEF least
  <2>9. least \in Nat /\ least <= L[k].lb
    BY <2>2, <2>4, <2>7
  <2>. QED  BY <2>1, <2>2, <2>3, <2>4, <2>8, <2>9 DEF Unit, Eps
<1>2. IInv => DfsDualBoundIsValid
  BY <1>1 DEF DfsDualBoundIsValid, DualBoundIsValid
<1>. QED  BY <1>2, Invariance, PTL

-----------------------------------------------------------------------------
(* The search implements ExactSearch.                                      *)

(* Without --relax, --ub and nodes dropped unsolved, these never change.   *)
Plain == ~dropped /\ ~params.relax /\ params.ub = DBLMAX

(* A new colouring is better than the saved one, and a colouring. *)
LEMMA BestAfter ==
  ASSUME IInv, NEW bound \in Values, bound <= primal,
         bound < primal => opt <= bound, SetPrimal(bound)
  PROVE  \/ best' = best
         \/ /\ best' \in opt .. DBLMAX - 1
            /\ best = 0 \/ best' < best
<1>1. TypeOK /\ IncumbentIsPrimal /\ bound \in 1 .. DBLMAX
  BY DEF IInv, Values
<1>. QED  BY <1>1, Scalars DEF SetPrimal, IncumbentIsPrimal

(* In every step the incumbent stays or is replaced by a better one that
   exists. *)
LEMMA BestStep ==
  ASSUME IInv, Next
  PROVE  /\ Running /\ opt' = opt
         /\ \/ best' = best
            \/ /\ best' \in opt .. DBLMAX - 1
               /\ best = 0 \/ best' < best
<1>1. ASSUME Solving, NEW h \in HeurValues(Head(pending)), SetPrimal(AfterHeur(h))
      PROVE  \/ best' = best
             \/ best' \in opt .. DBLMAX - 1 /\ (best = 0 \/ best' < best)
  BY <1>1, AfterHeurFacts, BestAfter
<1>2. CASE PushInteger
  <2>1. Solving
    BY <1>2 DEF PushInteger
  <2>2. PICK h \in HeurValues(Head(pending)) :
          SetPrimal(IF Head(pending).val < AfterHeur(h)
                    THEN Head(pending).val ELSE AfterHeur(h))
    BY <1>2 DEF PushInteger
  <2>3. TypeOK /\ Head(pending).val \in 1 .. DBLMAX /\ Head(pending).val >= opt
    BY <2>1, HeadFacts, SubproblemType DEF IInv, ListInv, Values
  <2>4. AfterHeur(h) \in 1 .. DBLMAX /\ AfterHeur(h) <= primal
        /\ (AfterHeur(h) < primal => opt <= AfterHeur(h))
    BY <2>1, AfterHeurFacts DEF Values
  <2> DEFINE bound == IF Head(pending).val < AfterHeur(h)
                      THEN Head(pending).val ELSE AfterHeur(h)
  <2>5. bound \in Values /\ bound <= primal /\ (bound < primal => opt <= bound)
    BY <2>3, <2>4, Scalars DEF Values
  <2>6. SetPrimal(bound)
    BY <2>2
  <2>. HIDE DEF bound
  <2>7. \/ best' = best
        \/ best' \in opt .. DBLMAX - 1 /\ (best = 0 \/ best' < best)
    BY <2>5, <2>6, BestAfter
  <2>. QED  BY <1>2, <2>7 DEF PushInteger, Solving
<1>3. CASE PushFractional
  BY <1>1, <1>3 DEF PushFractional, Solving
<1>4. CASE PushLimit
  BY <1>1, <1>4 DEF PushLimit, Solving
<1>5. CASE PushUnknown
  BY <1>1, <1>5 DEF PushUnknown, Solving
<1>6. CASE PushInfeasible \/ PushUndecided \/ PushStuck
  BY <1>6 DEF PushInfeasible, PushUndecided, PushStuck, Solving
<1>7. CASE PopPruned \/ PopBranch \/ Finish
  BY <1>7 DEF PopPruned, PopBranch, Finish, Looping
<1>. QED  BY <1>2, <1>3, <1>4, <1>5, <1>6, <1>7 DEF Next

(* Whatever is reported, the invariant makes it a true answer. *)
TrueAnswer == Answer \in ES!TrueAnswers(best)

(* Under the plain options, the answer is one that ExactSearch allows. *)
LEMMA AnswerIsTrue ==
  ASSUME IInv, Plain
  PROVE  TrueAnswer
<1>. USE DEF TrueAnswer
<1>1. TypeOK /\ opt \in 1 .. DBLMAX /\ best \in 0 .. DBLMAX - 1 /\ DBLMAX \in Nat
  BY Scalars DEF IInv
<1>2. CASE report.state = "OPTIMAL"
  <2>1. best = opt /\ best # 0
    BY <1>1, <1>2 DEF IInv, AnswerInv, OptimalIsOptimal, Plain
  <2>. QED  BY <1>2, <2>1 DEF Answer, ES!TrueAnswers
<1>3. CASE report.state = "FEASIBLE"
  <2>1. best # 0
    BY <1>3 DEF IInv, AnswerInv, FeasibleHasColouring, Plain
  <2>. QED  BY <1>3, <2>1 DEF Answer, ES!TrueAnswers
<1>4. CASE report.state = "INFEASIBLE"
  <2>1. opt = DBLMAX
    BY <1>4 DEF IInv, AnswerInv, InfeasibleIsInfeasible, Plain
  <2>2. best = 0
    BY <1>1, <2>1 DEF IInv, IncumbentIsPrimal
  <2>. QED  BY <1>4, <2>1, <2>2 DEF Answer, ES!TrueAnswers
<1>5. CASE report.state \notin {"OPTIMAL", "FEASIBLE", "INFEASIBLE"}
  <2>1. Answer = "running" \/ Answer = "stopped"
    BY <1>5 DEF Answer
  <2>. QED  BY <2>1 DEF ES!TrueAnswers
<1>. QED  BY <1>2, <1>3, <1>4, <1>5

(* Without --relax and --ub, when exact pricing never fails and the        *)
(* feasibility check never times out, the tree search does what an exact   *)
(* solver promises, even when it ends in an abort.                         *)
THEOREM Implementation ==
  ASSUME RelaxModes = {FALSE}, InitialBounds = {DBLMAX},
         PricingMayFail = FALSE, FeasibilityMayTimeOut = FALSE
  PROVE  Spec => Refinement
<1>1. Init => Plain
  <2> SUFFICES ASSUME Init PROVE Plain
    OBVIOUS
  <2>1. params.relax \in RelaxModes /\ params.ub \in InitialBounds
    BY DEF Init, Options
  <2>. QED  BY <2>1 DEF Init, Plain
<1>2. Plain /\ [Next]_vars => Plain'
  BY DEF Plain, Next, vars, PushInfeasible, PushInteger, PushFractional,
         PushLimit, PushUnknown, PushUndecided, PushStuck, PopPruned,
         PopBranch, Finish
<1>3. Init => ES!Init
  <2> SUFFICES ASSUME Init PROVE ES!Init
    OBVIOUS
  <2>1. opt \in 1 .. DBLMAX /\ best = 0 /\ report.state = "RUNNING"
    BY DEF Init, Values
  <2>. QED  BY <2>1 DEF ES!Init, Answer
<1>4. IInv /\ TrueAnswer' /\ [Next]_vars => [ES!Next]_ES!esvars
  <2> SUFFICES ASSUME IInv, TrueAnswer', [Next]_vars
               PROVE  [ES!Next]_ES!esvars
    OBVIOUS
  <2>1. CASE Next
    <3>1. /\ Running /\ opt' = opt
          /\ \/ best' = best
             \/ /\ best' \in opt .. DBLMAX - 1
                /\ best = 0 \/ best' < best
      BY <2>1, BestStep
    <3>2. Answer = "running"
      BY <3>1 DEF Running, Answer
    <3>3. Answer' \in ES!TrueAnswers(best')
      BY <3>1 DEF TrueAnswer, ES!TrueAnswers
    <3>. QED  BY <3>1, <3>2, <3>3 DEF ES!Next, ES!Advance, ES!Better
  <2>2. CASE UNCHANGED vars
    BY <2>2 DEF vars, ES!esvars, Answer
  <2>. QED  BY <2>1, <2>2
<1>5. Spec => []Plain
  BY <1>1, <1>2, PTL DEF Spec
<1>6. IInv /\ Plain => TrueAnswer
  BY AnswerIsTrue
<1>7. Spec => ES!Spec
  BY <1>3, <1>4, <1>5, <1>6, Invariance, PTL DEF Spec, ES!Spec
<1>. QED  BY <1>7 DEF Refinement

=============================================================================
