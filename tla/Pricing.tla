------------------------------- MODULE Pricing --------------------------------
(***************************************************************************)
(* One round of pricing, LP::pricing (src/src/lp.cpp) with the routines of *)
(* PricingEnv (src/src/pricing.cpp): given the duals of the restricted LP, *)
(* find stable sets of negative reduced cost, or prove that there is none. *)
(*                                                                         *)
(* The value of a column is the sum of the duals gamma of its P-parts less *)
(* the duals mu of its Q-parts; it is worth adding when that exceeds One.  *)
(* Duals are integers, and no two values lie within the tolerances.  The   *)
(* stable set solver is abstracted to the sets that module StableSets      *)
(* shows it may return, which are not the heaviest where it searches for   *)
(* cliques; CPLEX is abstracted to the statuses it may end with.           *)
(***************************************************************************)
EXTENDS Integers, SequencesExt

CONSTANTS
  One,        \* the value 1.0
  Threshold,  \* THRESHOLD, above which the exact solver is stopped
  Instances,  \* the instances, with their duals and the pool of the node
  Options,    \* the parameters of an execution
  DenseDensity, \* from this percentage on, the wrapper searches for cliques
  NodeLimit,  \* and from more vertices than that (SEWELL_node_limit)
  MaxSets     \* bound on the sets of one P,Q-MWSSP call

VARIABLES
  inst,   \* the instance of the node
  opt,    \* method, dense, k (pricingMaxColsPerIter), calls, alpha (in tenths)
  stage,  \* where the round is
  pos,    \* the next entry of the pool
  heap,   \* the best entries so far, <<cost, position>>
  cands,  \* the candidates of heur_solve with their costs
  stab,   \* the stable set heur_solve builds
  calls,  \* finished calls of heur_solve
  cols,   \* their best columns, in order of non-decreasing cost
  added,  \* the columns added to the LP
  ret,    \* what the round returns
  found   \* the candidates the pool or the greedy has seen (not in the program)

vars == <<inst, opt, stage, pos, heap, cands, stab, calls, cols, added, ret, found>>

V == DOMAIN inst.p
Adjacent(u, v) == {u, v} \in inst.E
IsStable(S) == \A u, v \in S : ~Adjacent(u, v)
StableSetsOf(W) == {S \in SUBSET W : IsStable(S)}
PartsP(S) == {inst.p[v] : v \in S}
PartsQ(S) == {inst.q[v] : v \in S}
Weight(weights, S) == MapThenSumSet(LAMBDA x : weights[x], S)
Value(ps, qs) == Weight(inst.gamma, ps) - Weight(inst.mu, qs)

(* Vertices and parts are numbers, the graph is simple, the pool holds     *)
(* stable sets of it.  Duals are not negative, and zero where add_column   *)
(* never enters the row; one of them is positive, or the LP would be worth *)
(* nothing.                                                                *)
ASSUME PricingAssumption ==
  /\ One \in Nat /\ Threshold \in Nat /\ One < Threshold
  /\ MaxSets \in Nat \ {0} /\ DenseDensity \in 0 .. 100 /\ NodeLimit \in Nat
  /\ \A o \in Options : /\ o.method \in 0 .. 6 /\ o.k \in Nat \ {0}
                        /\ o.calls \in Nat /\ o.alpha \in 0 .. 10
  /\ \A x \in Instances :
       /\ \E v \in DOMAIN x.p : x.gamma[x.p[v]] > 0
       /\ IsFiniteSet(DOMAIN x.p) /\ DOMAIN x.p \subseteq Nat /\ DOMAIN x.mu \subseteq Nat
       /\ x.p \in [DOMAIN x.p -> DOMAIN x.gamma] /\ x.q \in [DOMAIN x.p -> DOMAIN x.mu]
       /\ x.E \subseteq {e \in SUBSET DOMAIN x.p : Cardinality(e) = 2}
       /\ x.pool \in Seq(SUBSET DOMAIN x.p)
       /\ \A S \in Range(x.pool) : \A u, v \in S : {u, v} \notin x.E
       /\ x.gamma \in [DOMAIN x.gamma -> Nat] /\ x.mu \in [DOMAIN x.mu -> Nat]
       /\ \A v \in DOMAIN x.p : \/ x.mu[x.q[v]] = 0
                                \/ \E u \in DOMAIN x.p \ {v} : x.q[u] = x.q[v]

(* The elements of a set, each before those that it comes before.          *)
InOrder(S, Before(_, _)) ==
  CHOOSE s \in [1 .. Cardinality(S) -> S] :
    \A i, j \in 1 .. Cardinality(S) : i < j => Before(s[i], s[j])

(* StableEnv, with the list of its vertices as a set. *)
Column(S, ps, qs, cost) == [stable |-> S, ps |-> ps, qs |-> qs, cost |-> cost]
EmptyColumn == Column({}, {}, {}, 0)
ColumnOf(S) == Column(S, PartsP(S), PartsQ(S), Value(PartsP(S), PartsQ(S)))

-----------------------------------------------------------------------------
(* The order of the stages.                                                *)

pricingMethod == IF opt.method = 6 THEN IF opt.dense THEN 5 ELSE 2 ELSE opt.method

Stages ==
  LET greedy == IF pricingMethod \in 1 .. 5 THEN <<"greedy">> ELSE << >>
      pq     == IF pricingMethod \in {2, 4, 5} THEN <<"pq">> ELSE << >>
      p      == IF pricingMethod \in {3, 4, 5} THEN <<"p">> ELSE << >>
  IN <<"pool">> \o greedy
       \o (IF pricingMethod \in {3, 5} THEN p \o pq ELSE pq \o p) \o <<"exact">>

After(s) == Stages[1 + CHOOSE i \in DOMAIN Stages : Stages[i] = s]

Init ==
  /\ inst \in Instances /\ opt \in Options
  /\ stage = "pool" /\ pos = 1 /\ heap = {}
  /\ cands = << >> /\ stab = EmptyColumn /\ calls = 0 /\ cols = << >>
  /\ added = << >> /\ ret = -1 /\ found = {}

Return(n) == ret' = n /\ stage' = "done"

\* The stage adds columns and ends the round, or the next one is tried.
AddOrGoOn(s, columns) ==
  /\ added' = columns
  /\ IF columns # << >> THEN Return(Len(columns)) ELSE stage' = After(s) /\ UNCHANGED ret

-----------------------------------------------------------------------------
(* pricing_pool.                                                           *)

Worse(a, b) == a[1] < b[1] \/ (a[1] = b[1] /\ a[2] < b[2])
Top(h) == CHOOSE a \in h : \A b \in h \ {a} : Worse(a, b)

\* Faulty variant: the heap has its greatest entry on top.
KeptBelowBest(h, entry) ==
  IF Cardinality(h) < opt.k THEN h \cup {entry}
  ELSE LET top == CHOOSE a \in h : \A b \in h \ {a} : Worse(b, a)
       IN IF entry[1] > top[1] THEN (h \ {top}) \cup {entry} ELSE h

\* The worst entry makes room for a better one.
Kept(h, entry) ==
  IF Cardinality(h) < opt.k THEN h \cup {entry}
  ELSE IF entry[1] > Top(h)[1] THEN (h \ {Top(h)}) \cup {entry} ELSE h

PoolEntry ==
  /\ stage = "pool" /\ pos <= Len(inst.pool)
  /\ LET cost == ColumnOf(inst.pool[pos]).cost IN
       IF cost > One
       THEN heap' = Kept(heap, <<cost, pos>>) /\ found' = found \cup {<<cost, pos>>}
       ELSE UNCHANGED <<heap, found>>
  /\ pos' = pos + 1
  /\ UNCHANGED <<inst, opt, stage, cands, stab, calls, cols, added, ret>>

AddFromPool ==
  /\ stage = "pool" /\ pos > Len(inst.pool)
  /\ LET order == InOrder(heap, Worse)
     IN AddOrGoOn("pool", [j \in DOMAIN order |-> ColumnOf(inst.pool[order[j][2]])])
  /\ UNCHANGED <<inst, opt, pos, heap, cands, stab, calls, cols, found>>

-----------------------------------------------------------------------------
(* pricing_greedy and heur_solve.                                          *)

StartHeur ==
  /\ stage = "greedy" /\ calls < opt.calls
  /\ stab' = EmptyColumn
  /\ cands' = [v \in V |-> inst.gamma[inst.p[v]] - inst.mu[inst.q[v]]]
  /\ stage' = "heur"
  /\ UNCHANGED <<inst, opt, pos, heap, calls, cols, added, ret, found>>

\* The candidates that are nearly as good as the best.
RCL ==
  LET max_cost == Max(Range(cands))
      min_cost == Min(Range(cands))
  IN {v \in DOMAIN cands : 10 * cands[v] >= 10 * max_cost - opt.alpha * (max_cost - min_cost)}

\* Faulty variant: every candidate that stays is worth its P-part.
UpdatedAll(v) ==
  [u \in {u \in DOMAIN cands : inst.p[u] # inst.p[v] /\ ~Adjacent(u, v)} |->
     inst.gamma[inst.p[u]]]

\* The candidates of other P-parts that do not conflict with v; the Q-part
\* of v is paid for now.
Updated(v) ==
  [u \in {u \in DOMAIN cands : inst.p[u] # inst.p[v] /\ ~Adjacent(u, v)} |->
     IF inst.q[u] = inst.q[v] THEN inst.gamma[inst.p[u]] ELSE cands[u]]

HeurVertex ==
  /\ stage = "heur" /\ DOMAIN cands # {}
  /\ \E v \in RCL :
       /\ stab' = Column(stab.stable \cup {v}, stab.ps \cup {inst.p[v]},
                         stab.qs \cup {inst.q[v]}, stab.cost + cands[v])
       /\ cands' = Updated(v)
  /\ UNCHANGED <<inst, opt, stage, pos, heap, calls, cols, added, ret, found>>

IsSame(a, b) == a.ps = b.ps /\ a.qs = b.qs

\* Before the first dearer column.
Inserted(list, c) ==
  LET dearer == {i \in DOMAIN list : list[i].cost > c.cost}
  IN InsertAt(list, Min(dearer \cup {Len(list) + 1}), c)

\* What the list of the best k columns becomes.
WithCandidate(list, c) ==
  IF \/ c.cost <= One
     \/ Len(list) >= opt.k /\ c.cost < list[1].cost
     \/ \E d \in Range(list) : IsSame(c, d)
  THEN list
  ELSE Inserted(IF Len(list) = opt.k THEN Tail(list) ELSE list, c)

EndHeur ==
  /\ stage = "heur" /\ DOMAIN cands = {}
  /\ cols' = WithCandidate(cols, stab)
  /\ found' = IF stab.cost > One THEN found \cup {<<stab.cost, stab.ps, stab.qs>>} ELSE found
  /\ stab' = EmptyColumn /\ cands' = << >>
  /\ calls' = calls + 1
  /\ stage' = "greedy"
  /\ UNCHANGED <<inst, opt, pos, heap, added, ret>>

AddFromGreedy ==
  /\ stage = "greedy" /\ calls = opt.calls
  /\ AddOrGoOn("greedy", Reverse(cols))
  /\ UNCHANGED <<inst, opt, pos, heap, cands, stab, calls, cols, found>>

-----------------------------------------------------------------------------
(* pricing_P_Q_mwss and mwis_P_Q_solve.                                    *)

weightsPQ == [v \in V |-> inst.gamma[inst.p[v]] - inst.mu[inst.q[v]]]
Positive == {v \in V : weightsPQ[v] > 0}
HasEdge(W) == \E u, v \in W : Adjacent(u, v)

Heaviest(W, weights) ==
  {S \in StableSetsOf(W) : \A T \in StableSetsOf(W) : Weight(weights, T) <= Weight(weights, S)}

\* The density of the graph on W.  With a single vertex it is 0 / 0, which
\* is not below the threshold either.
Dense(W) ==
  200 * Cardinality({e \in inst.E : e \subseteq W})
    >= DenseDensity * Cardinality(W) * (Cardinality(W) - 1)
CliqueSearched(W) == Dense(W) \/ Cardinality(W) > NodeLimit

Weighted(W, weights) == {v \in W : weights[v] > 0}

\* The clique search drops the vertices without weight.  A vertex that none
\* of the lighter ones goes with raises the value that is searched for, but
\* the set stays: if vertices go together at all, it is the heaviest set of
\* several vertices that is returned, whatever one vertex alone weighs.
CliqueAnswers(W, weights) ==
  LET stable  == StableSetsOf(Weighted(W, weights)) \ {{}}
      several == {S \in stable : Cardinality(S) > 1}
      sets    == IF several = {} THEN stable ELSE several
  IN {S \in sets : \A T \in sets : Weight(weights, T) <= Weight(weights, S)}

\* It stops at a value above One: at a set that is, or, if a vertex alone is,
\* with whatever set it has.
CliqueAnswersAboveOne(W, weights) ==
  IF \E v \in W : weights[v] > One THEN StableSetsOf(Weighted(W, weights)) \ {{}}
  ELSE LET good == {S \in StableSetsOf(W) : Weight(weights, S) > One}
       IN IF good = {} THEN CliqueAnswers(W, weights) ELSE good

\* COLORstable_wrapper: sets above One that local search has met, or one set
\* of an exact search, which is the clique search or else returns a set above
\* One or the heaviest.  Without an edge the wrapper is not called, and all
\* the vertices are the answer.
MwisAnswers ==
  IF ~HasEdge(Positive) THEN {{Positive}}
  ELSE LET good == {S \in StableSetsOf(Positive) : Weight(weightsPQ, S) > One}
           last == IF CliqueSearched(Positive) THEN CliqueAnswersAboveOne(Positive, weightsPQ)
                   ELSE IF good = {} THEN Heaviest(Positive, weightsPQ) ELSE {}
       IN  {{S} : S \in last}
             \cup IF Dense(Positive) THEN {} ELSE UNION {kSubset(n, good) : n \in 1 .. MaxSets}

\* The column c with vertex v, whose Q-part it pays for.
WithVertex(c, v) ==
  Column(c.stable \cup {v}, c.ps \cup {inst.p[v]}, c.qs, c.cost + inst.gamma[inst.p[v]])

Joined(v, c) ==
  IF v \in c.stable \/ inst.p[v] \in c.ps \/ \E u \in c.stable : Adjacent(u, v) THEN c
  ELSE WithVertex(c, v)

\* Vertices that are paid for join: those of the Q-parts of the set, in order.
Maximal(column) ==
  LET order == InOrder({v \in V : inst.q[v] \in column.qs},
                 LAMBDA u, v : inst.q[u] < inst.q[v] \/ (inst.q[u] = inst.q[v] /\ u < v))
  IN FoldRight(Joined, Reverse(order), column)

PricePQ ==
  /\ stage = "pq"
  /\ \E sets \in MwisAnswers :
       LET order == SetToSeq({S \in sets : Maximal(ColumnOf(S)).cost > One})
       IN AddOrGoOn("pq", [j \in DOMAIN order |-> Maximal(ColumnOf(order[j]))])
  /\ UNCHANGED <<inst, opt, pos, heap, cands, stab, calls, cols, found>>

-----------------------------------------------------------------------------
(* pricing_P_mwss and mwis_P_solve.                                        *)

weightsP == [v \in V |-> inst.gamma[inst.p[v]]]

\* Faulty variant: a column that is not worth adding proves there is none.
PProvesByCost(S) == ColumnOf(S).cost <= One

\* The set that is returned is not above One even if its Q-parts were free,
\* and is taken for a heaviest one.
PProves(S) == Weight(weightsP, S) <= One

\* Forced optimality: no set stops the search.
PAnswers == IF CliqueSearched(V) THEN CliqueAnswers(V, weightsP) ELSE Heaviest(V, weightsP)

PriceP ==
  /\ stage = "p"
  /\ \E S \in PAnswers :
       \/ PProves(S) /\ Return(0) /\ UNCHANGED added
       \/ /\ ~PProves(S)
          /\ AddOrGoOn("p", IF ColumnOf(S).cost > One THEN <<ColumnOf(S)>> ELSE << >>)
  /\ UNCHANGED <<inst, opt, pos, heap, cands, stab, calls, cols, found>>

-----------------------------------------------------------------------------
(* pricing_exact and exact_solve.                                          *)

\* The points of the model: a stable set with a vertex of a P-part at most,
\* and Q-parts that are paid for, all of those of the set among them.
Points ==
  {x \in [S : StableSetsOf(V), w : SUBSET {inst.q[v] : v \in V}] :
     PartsQ(x.S) \subseteq x.w /\ \A u, v \in x.S : u # v => inst.p[u] # inst.p[v]}
Objective(x) == Value(PartsP(x.S), x.w)
OptimalPoints == {x \in Points : \A y \in Points : Objective(y) <= Objective(x)}

JoinedExact(v, c) ==
  IF \/ inst.gamma[inst.p[v]] = 0 \/ inst.p[v] \in c.ps
     \/ inst.q[v] \notin c.qs \/ \E u \in c.stable : Adjacent(u, v)
  THEN c
  ELSE WithVertex(c, v)

\* Vertices that are paid for join the set the solver was stopped at.
MaximalExact(column) ==
  FoldRight(JoinedExact, Reverse(InOrder(V, LAMBDA u, v : u < v)), column)

\* The Q-parts of the solution without a vertex are dropped, the cost is not
\* computed again.
Recovered(x) == Column(x.S, PartsP(x.S), PartsQ(x.S), Objective(x))

\* The callback has stopped the solver at a candidate above the threshold.
Stopped ==
  /\ stage = "exact"
  /\ \E x \in {y \in Points : Objective(y) > Threshold} :
       added' = <<MaximalExact(Recovered(x))>>
  /\ Return(1)
  /\ UNCHANGED <<inst, opt, pos, heap, cands, stab, calls, cols, found>>

Optimal ==
  /\ stage = "exact"
  /\ \E x \in OptimalPoints :
       /\ Objective(x) <= Threshold
       /\ IF Objective(x) <= One THEN Return(0) /\ UNCHANGED added
          ELSE Return(1) /\ added' = <<Recovered(x)>>
  /\ UNCHANGED <<inst, opt, pos, heap, cands, stab, calls, cols, found>>

\* A time or a memory limit, or anything else.
Limit ==
  /\ stage = "exact"
  /\ \E r \in {-1, -2, -3} : Return(r)
  /\ UNCHANGED <<inst, opt, pos, heap, cands, stab, calls, cols, added, found>>

Next ==
  \/ PoolEntry \/ AddFromPool
  \/ StartHeur \/ HeurVertex \/ EndHeur \/ AddFromGreedy
  \/ PricePQ \/ PriceP
  \/ Stopped \/ Optimal \/ Limit

Spec == Init /\ [][Next]_vars

-----------------------------------------------------------------------------
(* Properties.                                                             *)

(* Every column added is a stable set of the instance with its parts, has  *)
(* negative reduced cost, and is worth at least the cost the routine gave  *)
(* it, although that cost was summed up vertex by vertex while Q-parts     *)
(* were paid for, or taken from a solution that paid for more of them.     *)
AddedColumnsFit ==
  \A c \in Range(added) :
    /\ IsStable(c.stable) /\ c.ps = PartsP(c.stable) /\ c.qs = PartsQ(c.stable)
    /\ One < c.cost /\ c.cost <= Value(c.ps, c.qs)

(* A round that returns 0 ends column generation: no stable set then has   *)
(* negative reduced cost, whichever routine has concluded it.  There is    *)
(* one exception, which is what P-MWSSP can miss: where the wrapper        *)
(* searches for cliques, sets in which a single vertex has a P-part with a *)
(* positive dual.                                                          *)
NothingMissed ==
  [][ret' = 0 /\ ret # 0 =>
       \A S \in StableSetsOf(V) :
         \/ ColumnOf(S).cost <= One
         \/ /\ stage = "p" /\ CliqueSearched(V)
            /\ Cardinality(Weighted(S, weightsP)) = 1]_vars

(* "newsets[0] has an optimal stable set" (pricing.cpp): a round that      *)
(* returns 0 has missed nothing.                                           *)
ZeroIsProof ==
  stage = "done" /\ ret = 0 => \A S \in StableSetsOf(V) : ColumnOf(S).cost <= One

(* The heap of the pool and the list of the greedy hold the k best of the  *)
(* different columns they have seen, however these came.                   *)
KeepsTheBest ==
  LET held == IF stage = "pool" THEN heap ELSE {<<c.cost, c.ps, c.qs>> : c \in Range(cols)}
  IN stage \in {"pool", "greedy"} =>
       /\ held \subseteq found
       /\ Cardinality(held) = Min({opt.k, Cardinality(found)})
       /\ \A a \in held, b \in found \ held : a[1] >= b[1]
=============================================================================
