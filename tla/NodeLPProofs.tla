---------------------------- MODULE NodeLPProofs ----------------------------
(***************************************************************************)
(* Proofs about the relaxation of a node: every pricing brings a new       *)
(* column, and the search is told the truth about the node.                *)
(***************************************************************************)
EXTENDS NodeLP, FiniteSetTheorems, FunctionTheorems, SequenceTheorems, TLAPS

-----------------------------------------------------------------------------
(* Sequences of the elements of a set.                                     *)

(* SetToSeq lists the elements of a finite set. *)
LEMMA SetToSeqLists ==
  ASSUME NEW S, IsFiniteSet(S)
  PROVE  /\ Cardinality(S) \in Nat
         /\ SetToSeq(S) \in [1 .. Cardinality(S) -> S]
<1> DEFINE n == Cardinality(S)
<1>1. n \in Nat /\ ExistsBijection(1 .. n, S)
  BY FS_CardinalityType
<1>2. PICK f \in Bijection(1 .. n, S) : TRUE
  BY <1>1 DEF ExistsBijection
<1>3. f \in [1 .. n -> S] /\ IsInjective(f)
  BY <1>2 DEF Bijection, Injection
<1>. QED  BY <1>1, <1>3 DEF SetToSeq

(* A set of columns becomes a sequence of columns. *)
LEMMA ColumnSequence ==
  ASSUME NEW C, IsFiniteSet(C), NEW S \in SUBSET C
  PROVE  /\ SetToSeq(S) \in Seq(S)
         /\ Len(SetToSeq(S)) = Cardinality(S)
<1>1. IsFiniteSet(S)
  BY FS_Subset
<1>. QED  BY <1>1, SetToSeqLists

(* The stable sets of a node are finitely many. *)
LEMMA ColumnsAreFinite == IsFiniteSet(Columns)
BY FS_SUBSET, FS_Subset, NodeLPAssumption

-----------------------------------------------------------------------------
(* The inductive invariant.                                                *)

PricingStages == {"pool", "greedy", "pq", "p", "exact"}

Stages == PricingStages \cup
  {"solve", "feasibility", "init", "lp", "verdict", "done", "aborted"}

(* Types; the positive variables are those of a verdict. *)
Typed ==
  /\ params \in Options /\ node \in Node
  /\ stables \in Seq(SUBSET Vertices) /\ pool \in Seq(SUBSET Vertices)
  /\ late \in Seq(SUBSET Vertices) /\ coloring \in Seq(SUBSET Vertices)
  /\ attractive \in SUBSET Columns
  /\ stage \in Stages
  /\ state = "LP_FRACTIONAL" =>
       stage \in {"done", "aborted"} /\ posVars \subseteq DOMAIN stables

(* While the pricing stages follow each other, in the order of the method, *)
(* the LP has none of the attractive columns, and it is the whole          *)
(* relaxation if there are none.                                           *)
Pricing ==
  stage \in PricingStages =>
    /\ \E i \in DOMAIN Pipeline : Pipeline[i] = stage
    /\ attractive \cap Range(stables) = {}
    /\ objVal \in Int /\ node.lpval <= objVal
    /\ attractive = {} => objVal = node.lpval

(* Unless P-MWSSP has missed a column, the verdict is on the whole          *)
(* relaxation; if it has, on an LP that is worth no less.                  *)
Converged ==
  stage = "verdict" =>
    /\ objVal \in Int /\ node.lpval <= objVal
    /\ ~missed => objVal = node.lpval

IInv == Typed /\ Pricing /\ Converged /\ AnswerIsRight

-----------------------------------------------------------------------------
(* The pricing pipeline.                                                   *)

(* Every method starts with the pool and ends with exact pricing. *)
LEMMA PipelineOrder ==
  ASSUME Typed
  PROVE  /\ DOMAIN Pipeline \subseteq Nat
         /\ \E i \in DOMAIN Pipeline : Pipeline[i] = "pool"
         /\ \A i \in DOMAIN Pipeline : Pipeline[i] # "exact" =>
              /\ i + 1 \in DOMAIN Pipeline
              /\ Pipeline[i + 1] \in PricingStages
<1>1. Method \in 0 .. 5
  <2>1. params.pipeline \in 0 .. 6
    BY NodeLPAssumption DEF Typed, Options
  <2>. QED  BY <2>1 DEF Method
<1>2. CASE Method = 0
  <2>1. Pipeline = <<"pool", "exact">>
    BY <1>2 DEF Pipeline
  <2>. QED  BY <2>1 DEF PricingStages
<1>3. CASE Method = 1
  <2>1. Pipeline = <<"pool", "greedy", "exact">>
    BY <1>3 DEF Pipeline
  <2>. QED  BY <2>1 DEF PricingStages
<1>4. CASE Method = 2
  <2>1. Pipeline = <<"pool", "greedy", "pq", "exact">>
    BY <1>4 DEF Pipeline
  <2>. QED  BY <2>1 DEF PricingStages
<1>5. CASE Method = 3
  <2>1. Pipeline = <<"pool", "greedy", "p", "exact">>
    BY <1>5 DEF Pipeline
  <2>. QED  BY <2>1 DEF PricingStages
<1>6. CASE Method = 4
  <2>1. Pipeline = <<"pool", "greedy", "pq", "p", "exact">>
    BY <1>6 DEF Pipeline
  <2>. QED  BY <2>1 DEF PricingStages
<1>7. CASE Method = 5
  <2>1. Pipeline = <<"pool", "greedy", "p", "pq", "exact">>
    BY <1>7 DEF Pipeline
  <2>. QED  BY <2>1 DEF PricingStages
<1>. QED  BY <1>1, <1>2, <1>3, <1>4, <1>5, <1>6, <1>7

(* The stage after one that is not the last is a stage of the method. *)
LEMMA AfterIsStage ==
  ASSUME Typed, NEW s, s # "exact", \E i \in DOMAIN Pipeline : Pipeline[i] = s
  PROVE  /\ After(s) \in PricingStages
         /\ \E i \in DOMAIN Pipeline : Pipeline[i] = After(s)
<1> DEFINE i == CHOOSE j \in DOMAIN Pipeline : Pipeline[j] = s
<1>1. i \in DOMAIN Pipeline /\ Pipeline[i] = s
  OBVIOUS
<1>2. 1 + i = i + 1
  <2>1. DOMAIN Pipeline \subseteq Nat
    BY PipelineOrder
  <2>. QED  BY <1>1, <2>1
<1>. QED  BY <1>1, <1>2, PipelineOrder DEF After

(* What a stage adds are attractive columns, and exact pricing adds one.   *)
LEMMA AdditionsAreAttractive ==
  ASSUME Typed, NEW s \in PricingStages, NEW new \in Additions(s)
  PROVE  /\ new \in Seq(attractive)
         /\ s = "exact" => new # <<>>
<1>0. IsFiniteSet(attractive)
  BY ColumnsAreFinite, FS_Subset DEF Typed
<1>1. CASE s = "pool"
  <2>1. PICK S \in kSubset(Least(params.k, Cardinality(PoolCandidates)), PoolCandidates) :
          new = [j \in 1 .. Cardinality(S) |-> pool[SetToSeq(S)[j]]]
    BY <1>1 DEF Additions
  <2>2. S \subseteq PoolCandidates
    BY DEF kSubset
  <2>3. IsFiniteSet(S)
    <3>1. IsFiniteSet(1 .. Len(pool))
      BY FS_Interval DEF Typed
    <3>2. S \subseteq 1 .. Len(pool)
      BY <2>2 DEF PoolCandidates, Typed
    <3>. QED  BY <3>1, <3>2, FS_Subset
  <2>4. Cardinality(S) \in Nat /\ SetToSeq(S) \in [1 .. Cardinality(S) -> S]
    BY <2>3, SetToSeqLists
  <2>5. \A j \in 1 .. Cardinality(S) : pool[SetToSeq(S)[j]] \in attractive
    BY <2>2, <2>4 DEF PoolCandidates
  <2>. QED  BY <1>1, <2>1, <2>4, <2>5
<1>2. CASE s = "greedy"
  <2>1. PICK S \in SUBSET attractive : new = SetToSeq(S)
    BY <1>2 DEF Additions
  <2>2. new \in Seq(S)
    BY <1>0, <2>1, ColumnSequence
  <2>. QED  BY <1>2, <2>2
<1>3. CASE s = "pq"
  <2>1. PICK n \in 0 .. MaxSets : new \in [1 .. n -> attractive]
    BY <1>3 DEF Additions
  <2>. QED  BY <1>3, <2>1, NodeLPAssumption
<1>4. CASE s = "p"
  <2>1. new \in {<<>>} \cup {<<c>> : c \in attractive}
    BY <1>4 DEF Additions
  <2>2. \A c \in attractive : <<c>> \in Seq(attractive)
    OBVIOUS
  <2>3. <<>> \in Seq(attractive)
    OBVIOUS
  <2>. QED  BY <1>4, <2>1, <2>2, <2>3
<1>5. CASE s = "exact"
  <2>1. new \in {<<c>> : c \in attractive}
    BY <1>5 DEF Additions
  <2>2. PICK c \in attractive : new = <<c>>
    BY <2>1
  <2>. QED  BY <2>2
<1>. QED  BY <1>1, <1>2, <1>3, <1>4, <1>5 DEF PricingStages

-----------------------------------------------------------------------------
(* The steps before the LP.                                                *)

(* What the invariant says of a node. *)
LEMMA NodeFacts ==
  ASSUME NEW n \in Node
  PROVE  /\ n.vertices \subseteq Vertices
         /\ n.val \in Nat /\ n.val <= DBLMAX
         /\ n.lpval \in Nat
         /\ n.val < DBLMAX => n.lpval <= Unit * n.val
         /\ n.kind = "infeasible" => n.val = DBLMAX
         /\ n.kind = "trivial" => n.val = 1
         /\ n.kind = "gcp" => n.val < DBLMAX
<1>1. /\ n \in [vertices : SUBSET Vertices, free : 0 .. MaxFree, val : 1 .. DBLMAX,
                lpval : Objectives, feasible : BOOLEAN,
                kind : {"infeasible", "trivial", "gcp", "plain"}]
      /\ n.val < DBLMAX => n.lpval <= Unit * n.val
      /\ n.kind = "infeasible" => n.val = DBLMAX
      /\ n.kind = "trivial" => n.val = 1
      /\ n.kind = "gcp" => n.val < DBLMAX
  BY DEF Node
<1>2. n.vertices \subseteq Vertices /\ n.val \in 1 .. DBLMAX /\ n.lpval \in Objectives
  BY <1>1
<1>3. n.val \in Nat /\ n.val <= DBLMAX /\ n.lpval \in Nat
  <2>1. DBLMAX \in Nat /\ Objectives \subseteq Nat
    BY NodeLPAssumption
  <2>. QED  BY <1>2, <2>1
<1>. QED  BY <1>1, <1>2, <1>3, Zenon

(* A heuristic colouring is a sequence of columns. *)
LEMMA HeuristicColouringType ==
  ASSUME NEW n, NEW colours \in HeuristicColourings(n)
  PROVE  colours \in Seq(SUBSET Vertices)
<1>1. PICK S \in SUBSET ColumnsOf(n) : colours = SetToSeq(S)
  BY DEF HeuristicColourings
<1>2. S \subseteq Columns
  BY DEF ColumnsOf
<1>3. SetToSeq(S) \in Seq(S)
  BY <1>2, ColumnsAreFinite, ColumnSequence
<1>4. S \subseteq SUBSET Vertices
  BY <1>2, NodeLPAssumption
<1>. QED  BY <1>1, <1>3, <1>4

(* The invariant holds at first. *)
LEMMA InitHolds ==
  ASSUME Init
  PROVE  IInv
<1>1. Typed
  BY DEF Init, Typed, Stages, Node
<1>. QED  BY <1>1 DEF Init, IInv, Pricing, Converged, AnswerIsRight, PricingStages

(* A node that its flags settle is answered right. *)
LEMMA SettledKeeps ==
  ASSUME IInv, Infeasible \/ Trivial \/ Gcp
  PROVE  IInv'
<1>1. Typed'
  <2>1. stables' \in Seq(SUBSET Vertices)
    BY HeuristicColouringType DEF IInv, Typed, Infeasible, Trivial, Gcp
  <2>. QED  BY <2>1 DEF IInv, Typed, Infeasible, Trivial, Gcp, Done, Stages
<1>2. stage' = "done"
  BY DEF Infeasible, Trivial, Gcp, Done
<1>3. AnswerIsRight'
  <2>1. node \in Node /\ node' = node
    BY DEF IInv, Typed, Infeasible, Trivial, Gcp
  <2>2. CASE Infeasible
    BY <2>1, <2>2, NodeFacts DEF Infeasible, Done, AnswerIsRight
  <2>3. CASE Trivial
    <3>1. node.val = 1 /\ 1 < DBLMAX
      BY <2>1, <2>3, NodeFacts, NodeLPAssumption DEF Trivial
    <3>. QED  BY <2>1, <2>3, <3>1 DEF Trivial, Done, AnswerIsRight, Unit
  <2>4. CASE Gcp
    <3>1. node.val < DBLMAX /\ node.val \in Nat
      BY <2>1, <2>4, NodeFacts DEF Gcp
    <3>2. \/ state' = "LP_INTEGER" /\ objVal' = Unit * node.val
          \/ state' = "LP_TIME_EXCEEDED"
      BY <2>4 DEF Gcp, Done
    <3>. QED  BY <2>1, <3>1, <3>2 DEF AnswerIsRight, Unit
  <2>. QED  BY <2>2, <2>3, <2>4
<1>. QED  BY <1>1, <1>2, <1>3 DEF IInv, Pricing, Converged, PricingStages

(* The heuristic and the check only prepare the LP. *)
LEMMA PreparationKeeps ==
  ASSUME IInv,
         Heuristic \/ FeasibilitySkipped \/ FeasibilityPassed \/ AddInitialColumns
  PROVE  IInv'
<1>1. coloring' \in Seq(SUBSET Vertices)
  <2>1. coloring \in Seq(SUBSET Vertices) /\ <<>> \in Seq(SUBSET Vertices)
    BY DEF IInv, Typed
  <2>2. CASE Heuristic
    BY <2>1, <2>2, HeuristicColouringType DEF Heuristic
  <2>3. CASE FeasibilityPassed
    BY <2>1, <2>3, HeuristicColouringType DEF FeasibilityPassed
  <2>4. CASE FeasibilitySkipped \/ AddInitialColumns
    BY <2>1, <2>4 DEF FeasibilitySkipped, AddInitialColumns
  <2>. QED  BY <2>2, <2>3, <2>4
<1>2. stables' \in Seq(SUBSET Vertices)
  <2>1. <<{}>> \in Seq(SUBSET Vertices)
    <3>1. \A C, c : c \in C => <<c>> \in Seq(C)
      OBVIOUS
    <3>. QED  BY <3>1
  <2>2. /\ stables \in Seq(SUBSET Vertices) /\ coloring \in Seq(SUBSET Vertices)
        /\ late \in Seq(SUBSET Vertices)
    BY DEF IInv, Typed
  <2>3. CASE Heuristic \/ FeasibilitySkipped \/ FeasibilityPassed
    BY <2>2, <2>3 DEF Heuristic, FeasibilitySkipped, FeasibilityPassed
  <2>4. CASE AddInitialColumns
    <3>1. \/ stables' = <<{}>> \o late
          \/ stables' = coloring \o late
      BY <2>4 DEF AddInitialColumns
    <3>2. \A a, b \in Seq(SUBSET Vertices) : a \o b \in Seq(SUBSET Vertices)
      OBVIOUS
    <3>. QED  BY <2>1, <2>2, <3>1, <3>2
  <2>. QED  BY <2>3, <2>4
<1>3. stage' \in {"feasibility", "init", "lp", "aborted"} /\ state' = state
  BY DEF Heuristic, FeasibilitySkipped, FeasibilityPassed, AddInitialColumns
<1>4. state # "LP_FRACTIONAL"
  BY DEF IInv, Typed, Heuristic, FeasibilitySkipped, FeasibilityPassed, AddInitialColumns
<1>5. UNCHANGED <<params, node, pool, late, attractive>>
  BY DEF Heuristic, FeasibilitySkipped, FeasibilityPassed, AddInitialColumns
<1>6. Typed'
  BY <1>1, <1>2, <1>3, <1>4, <1>5 DEF IInv, Typed, Stages
<1>. QED  BY <1>3, <1>6 DEF IInv, Pricing, Converged, AnswerIsRight, PricingStages

(* A check without a colouring settles the node, or gives up. *)
LEMMA FeasibilityFailedKeeps ==
  ASSUME IInv, FeasibilityFailed
  PROVE  IInv'
<1>1. Typed'
  BY DEF IInv, Typed, FeasibilityFailed, Done, Stages
<1>2. AnswerIsRight'
  <2>1. node \in Node /\ node' = node
    BY DEF IInv, Typed, FeasibilityFailed
  <2>2. node.val <= DBLMAX /\ node.val \in Nat
    BY <2>1, NodeFacts
  <2>. QED  BY <2>1, <2>2, NodeLPAssumption DEF FeasibilityFailed, Done, AnswerIsRight
<1>. QED  BY <1>1, <1>2
     DEF IInv, FeasibilityFailed, Done, Pricing, Converged, PricingStages

-----------------------------------------------------------------------------
(* Column generation.                                                      *)

(* The LP leaves attractive columns that it does not have, or is the whole *)
(* relaxation.                                                             *)
LEMMA OptimizeLPKeeps ==
  ASSUME IInv, OptimizeLP
  PROVE  IInv'
<1>1. /\ attractive' \subseteq Columns
      /\ attractive' \cap Range(stables) = {}
      /\ attractive' = {} => objVal' = node.lpval
      /\ objVal' \in Objectives /\ node.lpval <= objVal'
      /\ stage = "lp" /\ stage' = "pool"
      /\ UNCHANGED <<params, node, stables, dummy, pool, late, coloring, posVars,
                     state, gaveUp, missed>>
  BY DEF OptimizeLP, Improving, ColumnsOf, Values
<1>2. Typed'
  BY <1>1 DEF IInv, Typed, Stages, PricingStages
<1>3. \E i \in DOMAIN Pipeline : Pipeline[i] = "pool"
  BY PipelineOrder DEF IInv
<1>4. Pipeline' = Pipeline
  BY <1>1 DEF Pipeline, Method
<1>5. Pricing'
  BY <1>1, <1>3, <1>4, NodeLPAssumption DEF Pricing
<1>. QED  BY <1>1, <1>2, <1>5 DEF IInv, Converged, AnswerIsRight

(* A limit ends the work on the node with no claim about it. *)
LEMMA LimitKeeps ==
  ASSUME IInv, LPLimit \/ PriceLimit
  PROVE  IInv'
<1>1. stage' = "done" /\ state' \in Limits
  BY DEF LPLimit, PriceLimit, Done, Limits
<1>2. UNCHANGED <<params, node, stables, dummy, pool, late, coloring, attractive,
                  objVal, posVars, gaveUp, missed>>
  BY DEF LPLimit, PriceLimit
<1>3. Typed'
  BY <1>1, <1>2 DEF IInv, Typed, Stages, Limits
<1>. QED  BY <1>1, <1>3
     DEF IInv, Pricing, Converged, AnswerIsRight, PricingStages, Limits

(* The columns a stage adds are new ones of the node. *)
LEMMA PriceAdds ==
  ASSUME IInv, NEW s \in PricingStages, Price(s)
  PROVE  \E new \in Seq(attractive) :
           /\ s = "exact" => new # <<>>
           /\ stables' = stables \o new
           /\ stage' = IF new # <<>> THEN "lp" ELSE After(s)
<1>1. PICK new \in Additions(s) :
        stables' = stables \o new /\ stage' = IF new # <<>> THEN "lp" ELSE After(s)
  BY DEF Price
<1>2. new \in Seq(attractive) /\ (s = "exact" => new # <<>>)
  BY AdditionsAreAttractive DEF IInv
<1>. QED  BY <1>1, <1>2

(* A stage that finds nothing hands on to the next one. *)
LEMMA PriceKeeps ==
  ASSUME IInv, NEW s \in PricingStages, Price(s)
  PROVE  IInv'
<1>1. PICK new \in Seq(attractive) :
        /\ s = "exact" => new # <<>>
        /\ stables' = stables \o new
        /\ stage' = IF new # <<>> THEN "lp" ELSE After(s)
  BY PriceAdds
<1>2. /\ stage = s
      /\ UNCHANGED <<params, node, pool, late, coloring, attractive, objVal,
                     posVars, state, gaveUp, missed>>
  BY DEF Price
<1>3. new \in Seq(SUBSET Vertices)
  <2>1. attractive \subseteq SUBSET Vertices
    BY NodeLPAssumption DEF IInv, Typed
  <2>. QED  BY <1>1, <2>1
<1>4. stables' \in Seq(SUBSET Vertices)
  BY <1>1, <1>3 DEF IInv, Typed
<1>5. state # "LP_FRACTIONAL"
  BY <1>2 DEF IInv, Typed, PricingStages
<1>6. CASE new # <<>>
  <2>1. stage' = "lp"
    BY <1>1, <1>6
  <2>2. Typed'
    BY <1>2, <1>4, <1>5, <2>1 DEF IInv, Typed, Stages
  <2>. QED  BY <2>1, <2>2 DEF IInv, Pricing, Converged, AnswerIsRight, PricingStages
<1>7. CASE new = <<>>
  <2>1. s # "exact" /\ stage' = After(s)
    BY <1>1, <1>7
  <2>2. \E i \in DOMAIN Pipeline : Pipeline[i] = s
    BY <1>2 DEF IInv, Pricing
  <2>3. stage' \in PricingStages /\ \E i \in DOMAIN Pipeline : Pipeline[i] = stage'
    BY <2>1, <2>2, AfterIsStage DEF IInv
  <2>4. stables' = stables
    BY <1>1, <1>7 DEF IInv, Typed
  <2>5. Typed'
    BY <1>2, <1>4, <1>5, <2>3 DEF IInv, Typed, Stages
  <2>6. Pipeline' = Pipeline
    BY <1>2 DEF Pipeline, Method
  <2>7. Pricing'
    BY <1>2, <2>3, <2>4, <2>6 DEF IInv, Pricing
  <2>. QED  BY <2>3, <2>5, <2>7 DEF IInv, Converged, AnswerIsRight, PricingStages
<1>. QED  BY <1>6, <1>7

(* A proof that nothing is attractive makes the LP the whole relaxation.   *)
LEMMA PriceProvesKeeps ==
  ASSUME IInv, PriceProves
  PROVE  IInv'
<1>1. /\ stage' = "verdict" /\ stage \in PricingStages /\ attractive = {}
      /\ UNCHANGED <<params, node, stables, dummy, pool, late, coloring,
                     attractive, objVal, posVars, state, gaveUp, missed>>
  BY DEF PriceProves, PricingStages
<1>2. Typed'
  BY <1>1 DEF IInv, Typed, Stages, PricingStages
<1>3. Converged'
  BY <1>1 DEF IInv, Pricing, Converged
<1>. QED  BY <1>1, <1>2, <1>3 DEF IInv, Pricing, AnswerIsRight, PricingStages

(* A column that is missed leaves an LP that is worth no less.             *)
LEMMA PriceMissesKeeps ==
  ASSUME IInv, PriceMisses
  PROVE  IInv'
<1>1. /\ stage' = "verdict" /\ stage \in PricingStages /\ missed'
      /\ UNCHANGED <<params, node, stables, dummy, pool, late, coloring,
                     attractive, objVal, posVars, state, gaveUp>>
  BY DEF PriceMisses, PricingStages
<1>2. Typed'
  BY <1>1 DEF IInv, Typed, Stages, PricingStages
<1>3. Converged'
  BY <1>1 DEF IInv, Pricing, Converged
<1>. QED  BY <1>1, <1>2, <1>3 DEF IInv, Pricing, AnswerIsRight, PricingStages

-----------------------------------------------------------------------------
(* The verdict and the sons.                                               *)

(* The verdict on the whole relaxation is right, and no colouring that any *)
(* LP gives is worth less than the optimum.                                *)
LEMMA VerdictKeeps ==
  ASSUME IInv, DummyUsed \/ Integral \/ Fractional
  PROVE  IInv'
<1>1. /\ stage = "verdict" /\ stage' \in {"done", "aborted"}
      /\ UNCHANGED <<params, node, stables, dummy, pool, late, coloring,
                     attractive, gaveUp, missed>>
  BY DEF DummyUsed, Integral, Fractional, Done
<1>2. objVal \in Int /\ (~missed => objVal = node.lpval)
  BY <1>1 DEF IInv, Converged
<1>3. node \in Node
  BY DEF IInv, Typed
<1>4. Proper \subseteq DOMAIN stables /\ IsFiniteSet(DOMAIN stables)
  <2>1. DOMAIN stables = 1 .. Len(stables) /\ Len(stables) \in Nat
    BY DEF IInv, Typed
  <2>. QED  BY <2>1, FS_Interval DEF Proper
<1>5. Typed'
  <2>1. CASE DummyUsed
    BY <1>1, <2>1 DEF IInv, Typed, Stages, DummyUsed, Done
  <2>2. CASE Integral
    BY <1>1, <2>2 DEF IInv, Typed, Stages, Integral, Done
  <2>3. CASE Fractional
    <3>1. posVars' \subseteq DOMAIN stables
      BY <1>4, <2>3 DEF Fractional, kSubset
    <3>. QED  BY <1>1, <2>3, <3>1 DEF IInv, Typed, Stages, Fractional
  <2>. QED  BY <2>1, <2>2, <2>3
<1>6. AnswerIsRight'
  <2>1. CASE DummyUsed
    <3>1. ~missed /\ node.val < DBLMAX => objVal <= Unit * Cap
      BY <1>2, <1>3, NodeFacts, NodeLPAssumption DEF Unit, Cap
    <3>2. ~missed /\ objVal > Unit * Cap => node.val = DBLMAX
      BY <1>2, <1>3, <3>1, NodeFacts, NodeLPAssumption DEF Unit, Cap
    <3>. QED  BY <1>1, <2>1, <3>2 DEF DummyUsed, Done, AnswerIsRight
  <2>2. CASE Integral
    <3>1. PICK S \in SUBSET Proper :
            /\ Cardinality(S) >= node.val
            /\ objVal = Unit * Cardinality(S) /\ objVal' = Unit * Cardinality(S)
      BY <2>2 DEF Integral
    <3>2. Cardinality(S) \in Nat
      BY <1>4, FS_Subset, FS_CardinalityType
    <3>3. node.val \in Nat /\ node.val < DBLMAX /\ node.lpval <= Unit * node.val
      BY <1>3, <2>2, NodeFacts DEF Integral
    <3>4. objVal' >= Unit * node.val
      BY <3>1, <3>2, <3>3 DEF Unit
    <3>5. ~missed => objVal' = Unit * node.val
      BY <1>2, <1>3, <3>1, <3>2, <3>3, NodeFacts DEF Unit
    <3>. QED  BY <1>1, <2>2, <3>3, <3>4, <3>5 DEF Integral, Done, AnswerIsRight
  <2>3. CASE Fractional
    <3>1. ~missed /\ node.val < DBLMAX => objVal <= Unit * node.val
      BY <1>2, <1>3, NodeFacts
    <3>. QED  BY <1>1, <2>3, <3>1 DEF Fractional, AnswerIsRight
  <2>. QED  BY <2>1, <2>2, <2>3
<1>. QED  BY <1>1, <1>5, <1>6 DEF IInv, Pricing, Converged, PricingStages

(* The columns of a son are those of its parent, without lost vertices. *)
LEMMA TranslatedType ==
  ASSUME NEW positions, IsFiniteSet(positions), NEW n \in Node
  PROVE  Translated(positions, n) \in Seq(SUBSET Vertices)
<1>1. Cardinality(positions) \in Nat
  BY FS_CardinalityType
<1>2. \A c : TranslateColumn(c, n) \in SUBSET Vertices
  BY NodeFacts DEF TranslateColumn
<1> DEFINE column(j) ==
      LET i == CHOOSE i \in positions : Cardinality({k \in positions : k < i}) = j - 1
      IN  TranslateColumn(stables[i], n)
<1>3. Translated(positions, n) = [j \in 1 .. Cardinality(positions) |-> column(j)]
  BY DEF Translated
<1>4. \A j : column(j) \in SUBSET Vertices
  BY <1>2
<1>. QED
  <2> HIDE DEF column
  <2>. QED  BY <1>1, <1>3, <1>4

(* A son starts with columns and an LP of its own. *)
LEMMA BranchKeeps ==
  ASSUME IInv, Branch
  PROVE  IInv'
<1>1. node' \in Node
  BY DEF Branch, Sons
<1>2. IsFiniteSet(DOMAIN stables) /\ posVars \subseteq DOMAIN stables
  <2>1. DOMAIN stables = 1 .. Len(stables) /\ Len(stables) \in Nat
    BY DEF IInv, Typed
  <2>2. state = "LP_FRACTIONAL"
    BY DEF Branch
  <2>. QED  BY <2>1, <2>2, FS_Interval DEF IInv, Typed
<1>3. IsFiniteSet(posVars) /\ IsFiniteSet(DOMAIN stables \ posVars)
  BY <1>2, FS_Subset
<1>4. /\ Translated(DOMAIN stables, node') \in Seq(SUBSET Vertices)
      /\ Translated(posVars, node') \in Seq(SUBSET Vertices)
      /\ Translated(DOMAIN stables \ posVars, node') \in Seq(SUBSET Vertices)
  BY <1>1, <1>2, <1>3, TranslatedType
<1>5. pool' \in Seq(SUBSET Vertices) /\ late' \in Seq(SUBSET Vertices)
  <2>1. <<>> \in Seq(SUBSET Vertices)
    OBVIOUS
  <2>2. \/ pool' = <<>> /\ late' = <<>>
        \/ pool' = Translated(DOMAIN stables, node') /\ late' = <<>>
        \/ pool' = Translated(posVars, node') /\ late' = <<>>
        \/ /\ pool' = Translated(DOMAIN stables \ posVars, node')
           /\ late' = Translated(posVars, node')
        \/ pool' = <<>> /\ late' = Translated(DOMAIN stables, node')
    BY Zenon DEF Branch
  <2>. QED  BY <1>4, <2>1, <2>2
<1>6. Typed'
  BY <1>1, <1>5 DEF IInv, Typed, Branch, Stages
<1>. QED  BY <1>6 DEF Branch, IInv, Pricing, Converged, AnswerIsRight, PricingStages

-----------------------------------------------------------------------------
(* The theorems.                                                           *)

(* Every step keeps the invariant. *)
LEMMA NextKeeps ==
  ASSUME IInv, [Next]_vars
  PROVE  IInv'
<1>1. CASE Infeasible \/ Trivial \/ Gcp
  BY <1>1, SettledKeeps
<1>2. CASE Heuristic \/ FeasibilitySkipped \/ FeasibilityPassed \/ AddInitialColumns
  BY <1>2, PreparationKeeps
<1>3. CASE FeasibilityFailed
  BY <1>3, FeasibilityFailedKeeps
<1>4. CASE OptimizeLP
  BY <1>4, OptimizeLPKeeps
<1>5. CASE LPLimit \/ PriceLimit
  BY <1>5, LimitKeeps
<1>6. CASE PricePool \/ PriceGreedy \/ PricePQ \/ PriceP \/ PriceExact
  BY <1>6, PriceKeeps
  DEF PricePool, PriceGreedy, PricePQ, PriceP, PriceExact, PricingStages
<1>7. CASE PriceProves
  BY <1>7, PriceProvesKeeps
<1>8. CASE DummyUsed \/ Integral \/ Fractional
  BY <1>8, VerdictKeeps
<1>9. CASE Branch
  BY <1>9, BranchKeeps
<1>10. CASE UNCHANGED vars
  BY <1>10 DEF vars, IInv, Typed, Pricing, Converged, AnswerIsRight, Pipeline, Method
<1>11. CASE PriceMisses
  BY <1>11, PriceMissesKeeps
<1>. QED  BY <1>1, <1>2, <1>3, <1>4, <1>5, <1>6, <1>7, <1>8, <1>9, <1>10, <1>11 DEF Next

(* In every reachable state the variables have their types, the pricing    *)
(* stages are those of the method in its order, and the LP has none of the *)
(* columns that it finds attractive.                                       *)
THEOREM Invariance == Spec => []IInv
<1>1. Init => IInv
  BY InitHolds
<1>2. IInv /\ [Next]_vars => IInv'
  BY NextKeeps
<1>. QED  BY <1>1, <1>2, PTL DEF Spec

(* What LP::solve tells the tree search of a node is right. *)
THEOREM AnswersAreRight == Spec => []AnswerIsRight
<1>1. IInv => AnswerIsRight
  BY DEF IInv
<1>. QED  BY <1>1, Invariance, PTL

(* A pricing stage that makes the LP be solved again has brought a column  *)
(* that the LP did not have.                                               *)
THEOREM PricingBringsColumns == Spec => PricedColumnsAreNew
<1> DEFINE A == (stage \in {"pool", "greedy", "pq", "p", "exact"} /\ stage' = "lp") =>
                  Range(stables') \ Range(stables) # {}
<1>1. IInv /\ [Next]_vars => [A]_vars
  <2>1. SUFFICES ASSUME IInv, Next, stage \in PricingStages, stage' = "lp"
                 PROVE  Range(stables') \ Range(stables) # {}
    BY DEF PricingStages
  <2>2. PICK s \in PricingStages : Price(s)
    <3>1. ~(Infeasible \/ Trivial \/ Gcp \/ LPLimit \/ PriceLimit \/ PriceProves
              \/ PriceMisses \/ DummyUsed \/ Integral \/ Fractional \/ Branch \/ FeasibilityFailed)
      BY <2>1 DEF Infeasible, Trivial, Gcp, LPLimit, PriceLimit, PriceProves,
              PriceMisses, DummyUsed, Integral, Fractional, Branch, FeasibilityFailed, Done
    <3>2. ~(Heuristic \/ FeasibilitySkipped \/ FeasibilityPassed
              \/ AddInitialColumns \/ OptimizeLP)
      BY <2>1 DEF PricingStages, Heuristic, FeasibilitySkipped, FeasibilityPassed,
              AddInitialColumns, OptimizeLP
    <3>. QED  BY <2>1, <3>1, <3>2
         DEF Next, PricePool, PriceGreedy, PricePQ, PriceP, PriceExact, PricingStages
  <2>3. PICK new \in Seq(attractive) :
          /\ s = "exact" => new # <<>>
          /\ stables' = stables \o new
          /\ stage' = IF new # <<>> THEN "lp" ELSE After(s)
    BY <2>1, <2>2, PriceAdds
  <2>4. stage = s
    BY <2>2 DEF Price
  <2>5. new # <<>>
    <3>1. SUFFICES ASSUME new = <<>> PROVE FALSE
      OBVIOUS
    <3>2. s # "exact" /\ stage' = After(s)
      BY <2>3, <3>1
    <3>3. \E i \in DOMAIN Pipeline : Pipeline[i] = s
      BY <2>1, <2>4 DEF IInv, Pricing
    <3>4. stage' \in PricingStages
      BY <2>1, <3>2, <3>3, AfterIsStage DEF IInv
    <3>. QED  BY <2>1, <3>4 DEF PricingStages
  <2>6. new[1] \in attractive /\ 1 \in DOMAIN new
    BY <2>5
  <2>7. new[1] \in Range(stables')
    <3>1. stables \in Seq(SUBSET Vertices)
      BY <2>1 DEF IInv, Typed
    <3>2. stables'[Len(stables) + 1] = new[1] /\ Len(stables) + 1 \in DOMAIN stables'
      BY <2>3, <2>6, <3>1
    <3>. QED  BY <3>2 DEF Range
  <2>8. new[1] \notin Range(stables)
    BY <2>1, <2>6 DEF IInv, Pricing
  <2>. QED  BY <2>7, <2>8
<1>2. Spec => [][A]_vars
  <2> HIDE DEF A
  <2>. QED  BY <1>1, Invariance, PTL DEF Spec
<1>. QED  BY <1>2 DEF PricedColumnsAreNew
=============================================================================
