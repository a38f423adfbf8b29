--------------------------- MODULE ColorTreeProofs ---------------------------
(***************************************************************************)
(* Proofs about the sequential search of exactcolors, in runs without a    *)
(* crash whose LPs converge: no lower bound exceeds a chromatic number, an *)
(* optimal colouring can still be found below a node of the heap until the *)
(* bound of the search has reached it, and bounds that meet at the root    *)
(* belong to an optimal colouring.                                         *)
(***************************************************************************)
EXTENDS ColorTree, ColorNodesProofs

-----------------------------------------------------------------------------
(* What the bounds are worth.  c is the chromatic number of the instance,  *)
(* b the bound of the search and g the initial bound that was given.       *)

(* The values of one node: nothing in its subtree has fewer than c colours, *)
(* its lower bounds are right, and it is finished only if it cannot beat   *)
(* the search.                                                             *)
Valued(r, c, b) ==
  /\ r.opt \in Nat /\ r.lp \in Nat /\ r.lb \in Nat /\ r.ub \in Nat /\ r.best \in Nat
  /\ c <= r.opt /\ r.lp <= r.opt /\ r.lb <= r.opt
  /\ r.best # 0 => c <= r.best
  /\ r.status >= finished => b <= r.opt

(* A node that has never had children has the bound of its LP.             *)
Fresh(r) == Kids(r) = {} /\ r.status < finished => r.lb = r.lp

(* A node among others: a child has its chromatic number, unless that of   *)
(* the node cannot beat the search, and children are younger.              *)
Descends(nodes, n, b) ==
  /\ Kids(nodes[n]) # {} =>
       b <= nodes[n].opt \/ \E k \in Kids(nodes[n]) : nodes[k].opt = nodes[n].opt
  /\ \A k \in Kids(nodes[n]) : n < k

(* The root has a colouring that fits its upper bound, unless that is the  *)
(* given bound or more.                                                    *)
Rooted(r, c, g) ==
  r.opt = c /\ r.best # 0 /\ (r.best <= r.ub \/ g <= r.ub)

(* The node at is looked at: if it has lost its children it cannot beat    *)
(* the search.                                                             *)
Right(p, b, at, c, g) ==
  /\ c \in Nat \ {0} /\ b \in Nat /\ g \in Nat
  /\ \A n \in DOMAIN p.nodes : n # at => Fresh(p.nodes[n])
  /\ \A n \in DOMAIN p.nodes : Valued(p.nodes[n], c, b) /\ Descends(p.nodes, n, b)
  /\ Root \in DOMAIN p.nodes /\ Rooted(p.nodes[Root], c, g)
  /\ at \in DOMAIN p.nodes /\ Kids(p.nodes[at]) = {} => b <= p.nodes[at].opt

(* Every node that is still to be branched on is in the heap, and while    *)
(* the root is in the heap there is nothing else.                          *)
Waiting ==
  /\ Accounts(problem, {})
  /\ Root \in problem.heap =>
       DOMAIN problem.nodes = {Root} /\ root.ub = problem.ub

(* The invariant: if the LPs converge, then before a crash the values are  *)
(* right, and the nodes wait unless the program works on what it could not *)
(* read.                                                                   *)
Searching ==
  /\ crashes \in Nat /\ parms \in Parms
  /\ crashes = 0 /\ slack = 0 =>
       /\ Right(problem, problem.ub, None, chi, parms.initial_upper_bound)
       /\ pc # "broken" => Waiting

(* Nodes keep their places, graphs and upper bounds; those without         *)
(* children keep their lower bounds.                                       *)
ValuesKept(p, q) ==
  /\ q.ub = p.ub /\ DOMAIN q.nodes = DOMAIN p.nodes
  /\ \A n \in DOMAIN p.nodes :
       /\ SamePlace(p.nodes[n], q.nodes[n])
       /\ q.nodes[n].opt = p.nodes[n].opt /\ q.nodes[n].ub = p.nodes[n].ub
       /\ Kids(p.nodes[n]) = {} => q.nodes[n].lb = p.nodes[n].lb

(* What is kept twice is kept. *)
LEMMA ValuesKeptTwice ==
  ASSUME NEW p, NEW q, NEW r
  PROVE  /\ ValuesKept(p, p)
         /\ ValuesKept(p, q) /\ ValuesKept(q, r) => ValuesKept(p, r)
BY DEF ValuesKept, SamePlace, Kids

(* Only the nodes decide what is right. *)
LEMMA SameNodesRight ==
  ASSUME NEW p, NEW q, q.nodes = p.nodes
  PROVE  /\ \A b, at, c, g : Right(p, b, at, c, g) => Right(q, b, at, c, g)
         /\ q.ub = p.ub => ValuesKept(p, q)
<1>1. \A b, at, c, g : Right(p, b, at, c, g) => Right(q, b, at, c, g)
  BY DEF Right
<1>2. q.ub = p.ub => ValuesKept(p, q)
  BY DEF ValuesKept, SamePlace
<1>. QED  BY <1>1, <1>2

(* What is right stays right when the search gets better. *)
LEMMA BetterIsRight ==
  ASSUME NEW p, NEW b, NEW at, NEW c, NEW g, Right(p, b, at, c, g), NEW a \in Nat, a <= b
  PROVE  Right(p, a, at, c, g)
<1>1. c \in Nat \ {0} /\ b \in Nat /\ g \in Nat
  BY DEF Right
<1>2. ASSUME NEW n \in DOMAIN p.nodes
      PROVE  Valued(p.nodes[n], c, a) /\ Descends(p.nodes, n, a)
  <2>1. Valued(p.nodes[n], c, b) /\ Descends(p.nodes, n, b)
    BY DEF Right
  <2>2. p.nodes[n].opt \in Nat
    BY <2>1 DEF Valued
  <2>3. b <= p.nodes[n].opt => a <= p.nodes[n].opt
    BY <1>1, <2>2
  <2>4. Valued(p.nodes[n], c, a)
    BY <2>1, <2>3 DEF Valued
  <2>5. Descends(p.nodes, n, a)
    BY <2>1, <2>3 DEF Descends
  <2>. QED  BY <2>4, <2>5
<1>3. at \in DOMAIN p.nodes /\ Kids(p.nodes[at]) = {} => a <= p.nodes[at].opt
  <2>1. SUFFICES ASSUME at \in DOMAIN p.nodes, Kids(p.nodes[at]) = {}
                 PROVE  a <= p.nodes[at].opt
    OBVIOUS
  <2>2. b <= p.nodes[at].opt /\ p.nodes[at].opt \in Nat
    BY <2>1 DEF Right, Valued
  <2>. QED  BY <1>1, <2>2
<1>4. \A n \in DOMAIN p.nodes : n # at => Fresh(p.nodes[n])
  BY DEF Right
<1>. QED  BY <1>1, <1>2, <1>3, <1>4 DEF Right

(* A write that leaves the values of its node right. *)
LEMMA WriteIsRight ==
  ASSUME NEW p, Tree(p), NEW b, NEW at, NEW c, NEW g, Right(p, b, at, c, g),
         NEW i \in DOMAIN p.nodes, NEW q, NEW lb, NEW ub, NEW best, NEW status,
         Rewritten(p, i, q, lb, ub, best, status), Valued(q.nodes[i], c, b),
         i # at => Fresh(q.nodes[i]),
         i = Root => best # 0 /\ (best <= ub \/ g <= ub)
  PROVE  Right(q, b, at, c, g)
<1>1. /\ DOMAIN q.nodes = DOMAIN p.nodes
      /\ \A n \in DOMAIN p.nodes : n # i => q.nodes[n] = p.nodes[n]
      /\ Writes(p.nodes[i], q.nodes[i], lb, ub, best, status)
  BY DEF Rewritten
<1>2. \A n \in DOMAIN p.nodes : /\ Kids(q.nodes[n]) = Kids(p.nodes[n])
                                /\ q.nodes[n].opt = p.nodes[n].opt
  BY <1>1 DEF Writes, SamePlace, Kids
<1>3. \A n \in DOMAIN p.nodes : Valued(q.nodes[n], c, b)
  BY <1>1 DEF Right
<1>4. ASSUME NEW n \in DOMAIN p.nodes PROVE Descends(q.nodes, n, b)
  <2>1. Descends(p.nodes, n, b) /\ InPlace(p.nodes, n)
    BY DEF Right, Tree
  <2>2. \A k \in Kids(p.nodes[n]) : k \in DOMAIN p.nodes
    BY <2>1 DEF InPlace
  <2>. QED  BY <1>2, <2>1, <2>2 DEF Descends
<1>5. Root \in DOMAIN q.nodes /\ Rooted(q.nodes[Root], c, g)
  <2>1. Root \in DOMAIN p.nodes /\ Rooted(p.nodes[Root], c, g)
    BY DEF Right
  <2>2. i = Root => Rooted(q.nodes[Root], c, g)
    BY <1>1, <1>2, <2>1 DEF Rooted, Writes
  <2>. QED  BY <1>1, <2>1, <2>2
<1>6. at \in DOMAIN q.nodes /\ Kids(q.nodes[at]) = {} => b <= q.nodes[at].opt
  BY <1>1, <1>2 DEF Right
<1>7. c \in Nat \ {0} /\ b \in Nat /\ g \in Nat
  BY DEF Right
<1>8. \A n \in DOMAIN q.nodes : n # at => Fresh(q.nodes[n])
  BY <1>1 DEF Right
<1>. QED  BY <1>1, <1>3, <1>4, <1>5, <1>6, <1>7, <1>8 DEF Right

(* A write that keeps upper bound and graph, and the lower bound unless    *)
(* there are children. *)
LEMMA WriteKeepsValues ==
  ASSUME NEW p, NEW i, NEW q, NEW lb, NEW ub, NEW best, NEW status,
         Rewritten(p, i, q, lb, ub, best, status),
         i \in DOMAIN p.nodes => /\ ub = p.nodes[i].ub
                                 /\ Kids(p.nodes[i]) = {} => lb = p.nodes[i].lb
  PROVE  ValuesKept(p, q)
BY DEF Rewritten, Writes, SamePlace, ValuesKept

-----------------------------------------------------------------------------
(* Bounds travel up, and nodes are inserted.                               *)

(* A walk upwards is at a node with children, or it has ended; the bound   *)
(* that it takes up does not exceed that of the search.                    *)
Climbs(s, b) ==
  /\ s.lb \in Nat
  /\ s.at = None \/ (s.lb <= b /\ s.at \in DOMAIN s.p.nodes /\ Kids(s.p.nodes[s.at]) # {})

(* A lower bound that has been raised is right: a child has the chromatic  *)
(* number of its parent, unless that is as large as the bound of the       *)
(* search, which no raised bound exceeds. *)
LEMMA RaisedIsRight ==
  ASSUME NEW s, Tree(s.p), NEW b, NEW at, NEW c, NEW g, Right(s.p, b, at, c, g), Climbs(s, b)
  PROVE  /\ Tree(Raised(s).p) /\ Climbs(Raised(s), b)
         /\ Right(Raised(s).p, b, at, c, g) /\ ValuesKept(s.p, Raised(s).p)
<1> DEFINE p == s.p
           i == s.at
           r == p.nodes[i]
           S == {s.lb} \cup {p.nodes[k].lb : k \in Kids(r)}
           new == Min(S)
           q == WithLb(p, i, new)
           t == backup_colordata(q, i)
<1>1. Raised(s) = IF i = None THEN s
                  ELSE IF new > r.lb THEN [p |-> t, at |-> r.parent, lb |-> new]
                  ELSE [s EXCEPT !.at = None]
  BY DEF Raised, RaisedBy, WithLb
<1>2. IsProblem(p) /\ Root \in DOMAIN p.nodes
  BY DEF Tree, Right
<1>3. Tree(Raised(s).p)
  BY <1>2, RaisedKeeps, SameTreeCollects DEF Collects
<1>4. CASE i = None
  BY <1>1, <1>3, <1>4, ValuesKeptTwice
<1>5. CASE i # None /\ ~(new > r.lb)
  <2>1. Raised(s) = [s EXCEPT !.at = None]
    BY <1>1, <1>5
  <2>2. [s EXCEPT !.at = None].p = s.p /\ [s EXCEPT !.at = None].lb = s.lb
    OBVIOUS
  <2>3. "at" \in DOMAIN s => [s EXCEPT !.at = None].at = None
    BY SMTT(60)
  <2>. QED  BY <1>3, <1>5, <2>1, <2>2, <2>3, ValuesKeptTwice DEF Climbs
<1>6. CASE i # None /\ new > r.lb
  <2>1. i \in DOMAIN p.nodes /\ Kids(r) # {} /\ InPlace(p.nodes, i)
    BY <1>6 DEF Climbs, Tree
  <2>2. \A k \in Kids(r) : k \in DOMAIN p.nodes /\ Valued(p.nodes[k], c, b)
    BY <2>1 DEF InPlace, Right
  <2>3. S \in SUBSET Nat /\ S # {}
    BY <2>2 DEF Climbs, Valued
  <2>4. new \in Nat /\ new <= s.lb /\ \A k \in Kids(r) : new <= p.nodes[k].lb
    <3>. HIDE DEF new
    <3>1. new \in S /\ \A x \in S : new <= x
      BY <2>3, MinIsLeast DEF new
    <3>. QED  BY <2>3, <3>1
  <2>. HIDE DEF S, new
  <2>5. Valued(r, c, b) /\ Descends(p.nodes, i, b)
    BY <2>1 DEF Right
  <2>6. b \in Nat /\ s.lb <= b /\ s.lb \in Nat
    BY <1>6 DEF Right, Climbs
  <2>7. new <= r.opt
    <3>1. CASE b <= r.opt
      BY <2>4, <2>5, <2>6, <3>1 DEF Valued
    <3>2. CASE \E k \in Kids(r) : p.nodes[k].opt = r.opt
      <4>1. PICK k \in Kids(r) : p.nodes[k].opt = r.opt
        BY SMTT(60), <3>2
      <4>2. p.nodes[k].lb <= r.opt /\ p.nodes[k].lb \in Nat /\ r.opt \in Nat
        BY <2>2, <2>5, <4>1 DEF Valued
      <4>. QED  BY <2>4, <4>2
    <3>. QED  BY <2>1, <2>5, <3>1, <3>2 DEF Descends
  <2>8. Rewritten(p, i, q, new, r.ub, r.best, r.status)
    BY SMTT(60), <1>2, FieldRewritten
  <2>. HIDE DEF q
  <2>9. LET d == q.nodes[i]
        IN  /\ d.opt = r.opt /\ d.lp = r.lp /\ d.lb = new /\ d.ub = r.ub
            /\ d.best = r.best /\ d.status = r.status /\ Kids(d) = Kids(r)
    <3>1. Writes(r, q.nodes[i], new, r.ub, r.best, r.status)
      BY <2>1, <2>8 DEF Rewritten
    <3>. HIDE DEF r, new
    <3>. QED  BY <3>1 DEF Writes, SamePlace, Kids
  <2>10. Valued(q.nodes[i], c, b)
    BY <2>1, <2>4, <2>5, <2>7, <2>9 DEF Valued
  <2>11. i = Root => r.best # 0 /\ (r.best <= r.ub \/ g <= r.ub)
    BY SMTT(60) DEF Right, Rooted
  <2>. HIDE DEF r
  <2>12. Right(q, b, at, c, g)
    <3>1. Fresh(q.nodes[i])
      BY <2>1, <2>9 DEF Fresh
    <3>. QED  BY <2>1, <2>8, <2>10, <2>11, <3>1, WriteIsRight DEF r
  <2>13. ValuesKept(p, q)
    BY <2>1, <2>8, WriteKeepsValues DEF r
  <2>14. t.nodes = q.nodes /\ t.ub = q.ub
    <3>1. IsProblem(q)
      BY <1>2, LbWritten DEF Changed, q
    <3>. QED  BY <3>1, BackedUp
  <2>. HIDE DEF t
  <2>15. Right(t, b, at, c, g) /\ ValuesKept(p, t)
    BY <2>12, <2>13, <2>14, SameNodesRight, ValuesKeptTwice
  <2>16. Raised(s).p = t /\ Raised(s).at = r.parent /\ Raised(s).lb = new
    BY SMTT(60), <1>1, <1>6
  <2>17. r.parent = None \/ (r.parent \in DOMAIN t.nodes /\ Kids(t.nodes[r.parent]) # {})
    <3>1. r.parent = None \/ (r.parent \in DOMAIN p.nodes /\ Kids(p.nodes[r.parent]) # {})
      BY <2>1, ParentClimbs DEF r
    <3>. QED  BY <2>15, <3>1 DEF ValuesKept, SamePlace, Kids
  <2>18. new <= b
    BY <2>4, <2>6
  <2>. QED  BY <1>3, <2>4, <2>15, <2>16, <2>17, <2>18 DEF Climbs
<1>. QED  BY <1>4, <1>5, <1>6

(* So is every bound on the way up. *)
LEMMA TriggerIsRight ==
  ASSUME NEW p, Tree(p), NEW b, NEW at, NEW c, NEW g, Right(p, b, at, c, g),
         NEW i \in DOMAIN p.nodes, p.nodes[i].parent = None \/ p.nodes[i].lb <= b
  PROVE  LET q == trigger_lb_changes(p, i)
         IN  Tree(q) /\ Right(q, b, at, c, g) /\ ValuesKept(p, q)
<1> DEFINE first == [p |-> p, at |-> p.nodes[i].parent, lb |-> p.nodes[i].lb]
           n == p.nodes[i].depth
<1>1. n \in Nat /\ p.nodes[i].lb \in Nat
  BY DEF Tree, InPlace, Right, Valued
<1>2. PICK h : Walks(h, "raise", <<>>, first, n) /\ trigger_lb_changes(p, i) = h[n].p
  BY <1>1, RaiseIsWalk
<1>3. first.p = p /\ Climbs(first, b)
  BY <1>1, ParentClimbs DEF Climbs
<1>. HIDE DEF first, n
<1> DEFINE T == {k \in Nat : k <= n => /\ Tree(h[k].p) /\ Climbs(h[k], b)
                                       /\ Right(h[k].p, b, at, c, g) /\ ValuesKept(p, h[k].p)}
<1>4. 0 \in T
  <2>1. h[0] = first
    BY <1>1, <1>2 DEF Walks
  <2>. QED  BY <1>3, <2>1, ValuesKeptTwice
<1>5. ASSUME NEW k \in T PROVE k + 1 \in T
  <2>1. SUFFICES ASSUME k + 1 <= n
                 PROVE  /\ Tree(h[k + 1].p) /\ Climbs(h[k + 1], b)
                        /\ Right(h[k + 1].p, b, at, c, g) /\ ValuesKept(p, h[k + 1].p)
    OBVIOUS
  <2>2. /\ k \in Nat /\ Tree(h[k].p) /\ Climbs(h[k], b)
        /\ Right(h[k].p, b, at, c, g) /\ ValuesKept(p, h[k].p)
    BY <1>1, <2>1
  <2>3. h[k + 1] = Raised(h[k])
    <3>1. k + 1 \in 0 .. n /\ k + 1 # 0 /\ (k + 1) - 1 = k
      BY <1>1, <2>1, <2>2
    <3>2. h[k + 1] = StepOf("raise", <<>>, k + 1, h[k])
      BY <1>2, <3>1 DEF Walks
    <3>. QED  BY <3>2 DEF StepOf
  <2>4. /\ Tree(h[k + 1].p) /\ Climbs(h[k + 1], b)
        /\ Right(h[k + 1].p, b, at, c, g) /\ ValuesKept(h[k].p, h[k + 1].p)
    BY <2>2, <2>3, RaisedIsRight
  <2>. QED  BY <2>2, <2>4, ValuesKeptTwice
<1>6. T = Nat
  <2>. HIDE DEF T
  <2>. QED  BY <1>4, <1>5, SetInduction DEF T
<1>7. Tree(h[n].p) /\ Right(h[n].p, b, at, c, g) /\ ValuesKept(p, h[n].p)
  BY <1>1, <1>6
<1>. QED  BY <1>2, <1>7

(* A node without children is inserted; it is finished only if it cannot   *)
(* beat the search. *)
LEMMA InsertIsRight ==
  ASSUME NEW p, Tree(p), NEW b, NEW at, NEW c, NEW g, Right(p, b, at, c, g),
         NEW i \in DOMAIN p.nodes, Kids(p.nodes[i]) = {},
         p.nodes[i].parent = None \/ p.nodes[i].lb <= b, b <= p.nodes[i].ub
  PROVE  LET q == insert_into_branching_heap(p, i)
         IN  Tree(q) /\ Right(q, b, at, c, g) /\ ValuesKept(p, q)
<1> DEFINE first == p.strategy # min_lb /\ i # Root
           r == p.nodes[i]
           heap == p.heap \cup {i}
           v == WithHeap(p, heap)
           q == WithDeepFirst(v, i, first)
           t == WithStatus(p, i, finished)
<1>1. insert_into_branching_heap(p, i) =
        IF r.lb < r.ub THEN trigger_lb_changes(q, i) ELSE trigger_lb_changes(t, i)
  BY DEF insert_into_branching_heap, Strictly, WithHeap, WithDeepFirst, WithStatus
<1>2. IsProblem(p) /\ InPlace(p.nodes, i) /\ r.status \in Int /\ Valued(r, c, b)
  BY DEF Tree, InPlace, Right
<1>3. i = Root => r.best # 0 /\ (r.best <= r.ub \/ g <= r.ub)
  BY DEF Right, Rooted
<1>. HIDE DEF first, heap
<1>4. Rewritten(p, i, v, r.lb, r.ub, r.best, r.status) /\ Changed(p, i, r.status, heap, v)
  BY <1>2, FieldRewritten, HeapWritten
<1>5. Rewritten(p, i, t, r.lb, r.ub, r.best, finished) /\ Changed(p, i, finished, p.heap, t)
  BY <1>2, FieldRewritten, StatusWritten
<1>. HIDE DEF v, t
<1>6. /\ Rewritten(p, i, q, r.lb, r.ub, r.best, r.status) /\ Changed(p, i, r.status, heap, q)
  <2>1. IsProblem(v) /\ v.heap = heap /\ v.nodes[i].status = r.status
    BY <1>4 DEF Changed
  <2>2. LET d == v.nodes[i]
        IN  d.lb = r.lb /\ d.ub = r.ub /\ d.best = r.best /\ d.status = r.status
    BY <1>4 DEF Rewritten, Writes
  <2>3. Rewritten(v, i, q, r.lb, r.ub, r.best, r.status)
    BY <2>1, <2>2, FieldRewritten
  <2>4. Changed(v, i, r.status, heap, q)
    BY <2>1, DeepFirstWritten
  <2>. HIDE DEF q
  <2>. QED  BY <1>4, <2>3, <2>4, RewrittenTwice, ChangedTwice
<1>. HIDE DEF q
<1>7. /\ Tree(q) /\ Right(q, b, at, c, g) /\ ValuesKept(p, q) /\ i \in DOMAIN q.nodes
      /\ q.nodes[i].parent = None \/ q.nodes[i].lb <= b
  <2>1. Tree(q)
    BY <1>2, <1>6, ChangeKeepsTree
  <2>2. LET d == q.nodes[i]
        IN  /\ d.parent = r.parent /\ d.opt = r.opt /\ d.lp = r.lp /\ d.lb = r.lb /\ d.ub = r.ub
            /\ d.best = r.best /\ d.status = r.status /\ Kids(d) = Kids(r)
    BY <1>6 DEF Rewritten, Writes, SamePlace, Kids
  <2>3. Valued(q.nodes[i], c, b) /\ (i # at => Fresh(q.nodes[i]))
    BY <1>2, <2>2 DEF Valued, Fresh, Right
  <2>4. Right(q, b, at, c, g)
    BY <1>3, <1>6, <2>3, WriteIsRight
  <2>5. ValuesKept(p, q)
    BY <1>6, WriteKeepsValues
  <2>. QED  BY <2>1, <2>2, <2>4, <2>5 DEF ValuesKept
<1>8. ASSUME ~(r.lb < r.ub)
      PROVE  /\ Tree(t) /\ Right(t, b, at, c, g) /\ ValuesKept(p, t) /\ i \in DOMAIN t.nodes
             /\ t.nodes[i].parent = None \/ t.nodes[i].lb <= b
  <2>1. finished \in Int /\ ~(finished < finished) /\ finished >= finished
    BY DEF finished
  <2>2. Tree(t)
    BY <1>5, <2>1, ChangeKeepsTree
  <2>3. LET d == t.nodes[i]
        IN  /\ d.parent = r.parent /\ d.opt = r.opt /\ d.lp = r.lp /\ d.lb = r.lb /\ d.ub = r.ub
            /\ d.best = r.best /\ d.status = finished /\ Kids(d) = Kids(r)
    BY <1>5 DEF Rewritten, Writes, SamePlace, Kids
  <2>4. b <= r.opt
    <3>1. b \in Nat
      BY DEF Right
    <3>. QED  BY <1>2, <1>8, <3>1 DEF Valued
  <2>5. Valued(t.nodes[i], c, b) /\ Fresh(t.nodes[i])
    BY <1>2, <2>1, <2>3, <2>4 DEF Valued, Fresh
  <2>6. Right(t, b, at, c, g)
    BY <1>3, <1>5, <2>5, WriteIsRight
  <2>7. ValuesKept(p, t)
    BY <1>5, WriteKeepsValues
  <2>. QED  BY <2>2, <2>3, <2>6, <2>7 DEF ValuesKept
<1>9. CASE r.lb < r.ub
  <2>1. insert_into_branching_heap(p, i) = trigger_lb_changes(q, i)
    BY <1>1, <1>9
  <2>. QED  BY <1>7, <2>1, TriggerIsRight, ValuesKeptTwice
<1>10. CASE ~(r.lb < r.ub)
  <2>1. insert_into_branching_heap(p, i) = trigger_lb_changes(t, i)
    BY <1>1, <1>10
  <2>. QED  BY <1>8, <1>10, <2>1, TriggerIsRight, ValuesKeptTwice
<1>. QED  BY <1>9, <1>10

(* All children of a node are inserted. *)
LEMMA InsertAllIsRight ==
  ASSUME NEW p, Tree(p), NEW b, NEW at, NEW c, NEW g, Right(p, b, at, c, g),
         NEW kids, Len(kids) \in Nat,
         \A k \in 1 .. Len(kids) : /\ kids[k] \in DOMAIN p.nodes
                                   /\ Kids(p.nodes[kids[k]]) = {}
                                   /\ p.nodes[kids[k]].lb <= b /\ b <= p.nodes[kids[k]].ub
  PROVE  LET q == InsertAndBackupAll(p, kids)
         IN  Tree(q) /\ Right(q, b, at, c, g) /\ ValuesKept(p, q)
<1> DEFINE n == Len(kids)
           walk == "insert and back up"
<1>1. PICK h : Walks(h, walk, kids, p, n) /\ InsertAndBackupAll(p, kids) = h[n]
  BY BackupIsWalk
<1>. HIDE DEF n
<1>2. n \in Nat /\ Inserts(walk)
  BY DEF n, Inserts
<1>. HIDE DEF walk
<1> DEFINE T == {k \in Nat : k <= n => Tree(h[k]) /\ Right(h[k], b, at, c, g) /\ ValuesKept(p, h[k])}
<1>3. 0 \in T
  <2>1. h[0] = p
    BY <1>1, <1>2 DEF Walks
  <2>. QED  BY <2>1, ValuesKeptTwice
<1>4. ASSUME NEW k \in T PROVE k + 1 \in T
  <2>1. SUFFICES ASSUME k + 1 <= n
                 PROVE  Tree(h[k + 1]) /\ Right(h[k + 1], b, at, c, g) /\ ValuesKept(p, h[k + 1])
    OBVIOUS
  <2>2. k \in Nat /\ Tree(h[k]) /\ Right(h[k], b, at, c, g) /\ ValuesKept(p, h[k])
    BY <1>2, <2>1
  <2>3. k + 1 \in 1 .. n /\ k + 1 \in 0 .. n /\ k + 1 # 0 /\ (k + 1) - 1 = k
    BY <1>2, <2>1, <2>2
  <2> DEFINE i == kids[k + 1]
             q == insert_into_branching_heap(h[k], i)
  <2>4. h[k + 1] = StepOf(walk, kids, k + 1, h[k])
    BY <1>1, <2>3 DEF Walks
  <2>5. /\ i \in DOMAIN h[k].nodes /\ Kids(h[k].nodes[i]) = {}
        /\ h[k].nodes[i].lb <= b /\ b <= h[k].nodes[i].ub
    BY <2>2, <2>3 DEF n, ValuesKept, SamePlace, Kids
  <2>6. Tree(q) /\ Right(q, b, at, c, g) /\ ValuesKept(h[k], q)
    <3>. HIDE DEF i
    <3>. QED  BY <2>2, <2>5, InsertIsRight
  <2>7. IsProblem(h[k + 1]) /\ h[k + 1].nodes = q.nodes /\ h[k + 1].next = q.next /\ h[k + 1].ub = q.ub
    <3>1. IsProblem(q)
      BY <2>6 DEF Tree
    <3>. QED  BY <1>2, <2>4, <3>1, StepInserts
  <2>. HIDE DEF q
  <2>8. Tree(h[k + 1])
    BY <2>6, <2>7 DEF Tree
  <2>9. Right(h[k + 1], b, at, c, g) /\ ValuesKept(q, h[k + 1])
    BY <2>6, <2>7, SameNodesRight
  <2>. QED  BY <2>2, <2>6, <2>8, <2>9, ValuesKeptTwice
<1>5. T = Nat
  <2>. HIDE DEF T
  <2>. QED  BY <1>3, <1>4, SetInduction DEF T
<1>6. Tree(h[n]) /\ Right(h[n], b, at, c, g) /\ ValuesKept(p, h[n])
  BY <1>2, <1>5
<1>. QED  BY <1>1, <1>6

-----------------------------------------------------------------------------
(* Finished subtrees are collected.                                        *)

(* A node takes over the best colouring of its children if that beats its  *)
(* own bound. *)
LEMMA CollectedIsRight ==
  ASSUME NEW p, Tree(p), NEW b, NEW at, NEW c, NEW g, Right(p, b, at, c, g),
         NEW i \in DOMAIN p.nodes, Kids(p.nodes[i]) # {}, NEW kids, kids \subseteq Kids(p.nodes[i])
  PROVE  LET q == Collected(p, i, kids)
             r == p.nodes[i]
         IN  /\ Right(q, b, at, c, g)
             /\ \E ub, best : Rewritten(p, i, q, r.lb, ub, best, r.status)
<1> DEFINE r == p.nodes[i]
           kept == {p.nodes[k].best : k \in kids} \ {0}
           good == IF r.best = 0 THEN kept ELSE {x \in kept : x < r.ub}
           x == Min(good)
           v == WithBest(p, i, x)
           q == WithUb(v, i, x)
<1>1. Collected(p, i, kids) = IF good = {} THEN p ELSE q
  BY DEF Collected, WithUb, WithBest
<1>2. IsProblem(p) /\ InPlace(p.nodes, i) /\ Valued(r, c, b)
  BY DEF Tree, Right
<1>3. \A k \in kids : k \in DOMAIN p.nodes /\ Valued(p.nodes[k], c, b)
  BY <1>2 DEF InPlace, Right
<1>4. good \in SUBSET Nat /\ \A y \in good : c <= y /\ y # 0
  BY <1>3 DEF Valued
<1>5. CASE good = {}
  <2>1. Rewritten(p, i, p, r.lb, r.ub, r.best, r.status)
    BY DEF Rewritten, Writes, SamePlace
  <2>2. Collected(p, i, kids) = p
    BY <1>1, <1>5
  <2>. QED  BY <2>1, <2>2
<1>6. CASE good # {}
  <2>. HIDE DEF good
  <2>1. x \in Nat /\ c <= x /\ x # 0
    BY <1>4, <1>6, MinIsLeast
  <2>. HIDE DEF x
  <2>2. Rewritten(p, i, q, r.lb, x, x, r.status)
    <3>1. Rewritten(p, i, v, r.lb, r.ub, x, r.status) /\ IsProblem(v)
      BY <1>2, FieldRewritten, BestWritten DEF Changed
    <3>. HIDE DEF v
    <3>2. v.nodes[i].lb = r.lb /\ v.nodes[i].best = x /\ v.nodes[i].status = r.status
      BY <3>1 DEF Rewritten, Writes
    <3>3. Rewritten(v, i, q, r.lb, x, x, r.status)
      BY <3>1, <3>2, FieldRewritten DEF v
    <3>. HIDE DEF q
    <3>. QED  BY <3>1, <3>3, RewrittenTwice
  <2>. HIDE DEF v, q
  <2>3. LET d == q.nodes[i]
        IN  /\ d.opt = r.opt /\ d.lp = r.lp /\ d.lb = r.lb /\ d.ub = x /\ d.best = x
            /\ d.status = r.status /\ Kids(d) = Kids(r)
    BY <2>2 DEF Rewritten, Writes, SamePlace, Kids
  <2>4. Valued(q.nodes[i], c, b) /\ Fresh(q.nodes[i])
    BY <1>2, <2>1, <2>3 DEF Valued, Fresh
  <2>5. Right(q, b, at, c, g)
    <3>1. x <= x
      BY <2>1
    <3>. QED  BY <2>1, <2>2, <2>4, <3>1, WriteIsRight
  <2>6. Collected(p, i, kids) = q
    BY <1>1, <1>6
  <2>. QED  BY <2>2, <2>5, <2>6
<1>. QED  BY <1>5, <1>6

(* Finished children are freed.  If the parent has the chromatic number of *)
(* one of them it cannot beat the search. *)
LEMMA FreedIsRight ==
  ASSUME NEW p, Tree(p), NEW i \in DOMAIN p.nodes, NEW b, NEW c, NEW g, Right(p, b, i, c, g),
         NEW kids, kids \subseteq Kids(p.nodes[i]), \A k \in kids : p.nodes[k].status >= finished
  PROVE  Right(Freed(p, i, kids), b, i, c, g) /\ Collapses(p, i, Freed(p, i, kids))
<1> DEFINE q == Freed(p, i, kids)
           r == p.nodes[i]
           s == q.nodes[i]
<1>1. InPlace(p.nodes, i) /\ Valued(r, c, b) /\ Descends(p.nodes, i, b)
  BY DEF Tree, Right
<1>2. /\ Tree(q) /\ Collapses(p, i, q) /\ DOMAIN q.nodes = DOMAIN p.nodes \ kids
      /\ s.same = r.same \ kids /\ s.diff = r.diff \ kids
      /\ s.lp = r.lp /\ s.lb = r.lb /\ s.ub = r.ub /\ s.best = r.best
  BY FreedCollapses
<1>. HIDE DEF q
<1>3. /\ s.parent = r.parent /\ s.status = r.status /\ s.opt = r.opt
      /\ i \in DOMAIN q.nodes /\ Kids(s) = Kids(r) \ kids
      /\ \A n \in DOMAIN q.nodes : n # i => q.nodes[n] = p.nodes[n]
      /\ \A n \in DOMAIN q.nodes : n \in DOMAIN p.nodes /\ q.nodes[n].opt = p.nodes[n].opt
  BY <1>2 DEF Collapses, Kids
<1>. HIDE DEF r, s
<1>4. \A k \in kids : k \in DOMAIN p.nodes /\ Valued(p.nodes[k], c, b)
  BY <1>1 DEF InPlace, Right, r
<1>5. Kids(r) # {} => b <= r.opt \/ \E k \in Kids(r) \ kids : p.nodes[k].opt = r.opt
  BY <1>1, <1>4 DEF Descends, Valued, r
<1>6. ASSUME NEW n \in DOMAIN q.nodes PROVE Valued(q.nodes[n], c, b)
  <2>1. CASE n = i
    BY <1>1, <1>2, <1>3, <2>1 DEF Valued, s
  <2>2. CASE n # i
    BY <1>3, <2>2 DEF Right
  <2>. QED  BY <2>1, <2>2
<1>7. ASSUME NEW n \in DOMAIN q.nodes PROVE Descends(q.nodes, n, b)
  <2>1. InPlace(q.nodes, n)
    BY <1>2 DEF Tree
  <2>2. \A k \in Kids(q.nodes[n]) : k \in DOMAIN q.nodes
    BY <2>1 DEF InPlace
  <2>3. CASE n = i
    <3>1. Kids(s) # {} => b <= s.opt \/ \E k \in Kids(s) : q.nodes[k].opt = s.opt
      BY <1>3, <1>5, <2>2, <2>3 DEF s
    <3>2. \A k \in Kids(s) : n < k
      BY <1>1, <1>3, <2>3 DEF Descends, r
    <3>. QED  BY <2>3, <3>1, <3>2 DEF Descends, s
  <2>4. CASE n # i
    <3>1. Descends(p.nodes, n, b)
      BY <1>3 DEF Right
    <3>. QED  BY <1>3, <2>2, <2>4, <3>1 DEF Descends
  <2>. QED  BY <2>3, <2>4
<1>8. Root \in DOMAIN q.nodes /\ Rooted(q.nodes[Root], c, g)
  <2>1. Root \in DOMAIN p.nodes /\ Rooted(p.nodes[Root], c, g)
    BY DEF Right
  <2>2. Root \notin kids
    <3>1. i \in Nat
      BY DEF Tree
    <3>2. \A k \in kids : i < k
      BY <1>1 DEF Descends, r
    <3>. QED  BY <3>1, <3>2 DEF Root
  <2>3. CASE i = Root
    BY <1>2, <1>3, <2>1, <2>3 DEF Rooted, r, s
  <2>4. CASE i # Root
    BY <1>2, <1>3, <2>1, <2>2, <2>4
  <2>. QED  BY <2>3, <2>4
<1>9. Kids(s) = {} => b <= s.opt
  <2>1. Kids(r) = {} => b <= r.opt
    BY DEF Right, r
  <2>. QED  BY <1>3, <1>5, <2>1
<1>10. \A n \in DOMAIN q.nodes : n # i => Fresh(q.nodes[n])
  BY <1>3 DEF Right
<1>11. c \in Nat \ {0} /\ b \in Nat /\ g \in Nat
  BY DEF Right
<1>. QED  BY <1>2, <1>6, <1>7, <1>8, <1>9, <1>10, <1>11 DEF Right, q, s

(* One branch is collected if all of it is finished. *)
LEMMA BranchIsRight ==
  ASSUME NEW p, Tree(p), NEW i \in DOMAIN p.nodes, NEW b, NEW c, NEW g, Right(p, b, i, c, g),
         NEW kids, kids \subseteq Kids(p.nodes[i])
  PROVE  LET q == CollectBranch(p, i, kids)
         IN  Tree(q) /\ Right(q, b, i, c, g) /\ Collapses(p, i, q)
<1> DEFINE r == p.nodes[i]
           v == Collected(p, i, kids)
           q == Freed(v, i, kids)
<1>1. InPlace(p.nodes, i)
  BY DEF Tree
<1>2. CollectBranch(p, i, kids) = IF AllFinished(p, kids) THEN q ELSE p
  BY DEF CollectBranch
<1>3. CASE ~AllFinished(p, kids)
  <2>1. Collapses(p, i, p)
    BY DEF Collapses
  <2>2. CollectBranch(p, i, kids) = p
    BY <1>2, <1>3
  <2>. QED  BY <2>1, <2>2
<1>4. CASE AllFinished(p, kids)
  <2>1. Kids(r) # {} /\ \A k \in kids : p.nodes[k].status >= finished
    BY <1>4 DEF AllFinished
  <2>2. /\ Right(v, b, i, c, g)
        /\ \E ub, best : Rewritten(p, i, v, r.lb, ub, best, r.status)
    BY SMTT(60), <2>1, CollectedIsRight
  <2>3. SameTree(p, v)
    BY CollectedKeeps DEF Tree
  <2>4. Tree(v)
    BY <2>3, SameTreeCollects DEF Collects
  <2>. HIDE DEF v
  <2>5. /\ DOMAIN v.nodes = DOMAIN p.nodes /\ v.ub = p.ub /\ v.next = p.next
        /\ \A n \in DOMAIN p.nodes : n # i => v.nodes[n] = p.nodes[n]
        /\ LET d == v.nodes[i]
           IN  /\ d.parent = r.parent /\ d.depth = r.depth /\ d.same = r.same /\ d.diff = r.diff
               /\ d.opt = r.opt /\ d.status = r.status
    BY <2>2 DEF Rewritten, Writes, SamePlace
  <2>6. \A k \in kids : k \in DOMAIN p.nodes /\ k # i
    <3>1. \A k \in kids : k \in DOMAIN p.nodes
      BY <1>1 DEF InPlace
    <3>2. r.status >= finished => Kids(r) = {}
      BY <1>1 DEF InPlace
    <3>. QED  BY <2>1, <3>1, <3>2
  <2>7. /\ kids \subseteq Kids(v.nodes[i]) /\ i \in DOMAIN v.nodes
        /\ \A k \in kids : v.nodes[k].status >= finished
    BY <2>1, <2>5, <2>6 DEF Kids
  <2>8. Right(q, b, i, c, g) /\ Collapses(v, i, q) /\ Tree(q)
    BY <2>2, <2>4, <2>7, FreedIsRight, FreedCollapses
  <2>. HIDE DEF q
  <2>9. Collapses(p, i, q)
    BY <2>5, <2>8 DEF Collapses
  <2>10. CollectBranch(p, i, kids) = q
    BY <1>2, <1>4
  <2>. QED  BY <2>8, <2>9, <2>10
<1>. QED  BY <1>3, <1>4

(* Both branches are. *)
LEMMA BranchesAreRight ==
  ASSUME NEW p, Tree(p), NEW i \in DOMAIN p.nodes, NEW b, NEW c, NEW g, Right(p, b, i, c, g)
  PROVE  LET q == CollectBranches(p, i)
         IN  Tree(q) /\ Right(q, b, i, c, g) /\ Collapses(p, i, q)
<1> DEFINE v == CollectBranch(p, i, p.nodes[i].same)
           q == CollectBranch(v, i, v.nodes[i].diff)
<1>1. CollectBranches(p, i) = q
  BY DEF CollectBranches, Strictly
<1>2. Tree(v) /\ Right(v, b, i, c, g) /\ Collapses(p, i, v)
  BY SMTT(60), BranchIsRight DEF Kids
<1>. HIDE DEF v
<1>3. Tree(q) /\ Right(q, b, i, c, g) /\ Collapses(v, i, q)
  BY <1>2, BranchIsRight DEF Kids, Collapses
<1>. HIDE DEF q
<1>4. Collapses(p, i, q)
  BY <1>2, <1>3 DEF Collapses
<1>. QED  BY <1>1, <1>3, <1>4

(* A node that is looked at can be left when it has children or is finished. *)
LEMMA LeavingIsRight ==
  ASSUME NEW p, NEW at, NEW b, NEW c, NEW g, Right(p, b, at, c, g), None \notin DOMAIN p.nodes,
         at \in DOMAIN p.nodes => Fresh(p.nodes[at]),
         NEW m, m \in DOMAIN p.nodes => Kids(p.nodes[m]) # {}
  PROVE  Right(p, b, m, c, g) /\ Right(p, b, None, c, g)
BY DEF Right

(* One step of remove_finished_subtree up: a node without children whose   *)
(* chromatic number cannot beat the search is finished. *)
LEMMA CleanedIsRight ==
  ASSUME NEW s, Tree(s.p), Stands(s), NEW b, NEW c, NEW g, Right(s.p, b, s.at, c, g)
  PROVE  LET t == Cleaned(s)
         IN  /\ Tree(t.p) /\ Stands(t) /\ t.p.ub = s.p.ub
             /\ Right(t.p, b, t.at, c, g) /\ Right(t.p, b, None, c, g)
<1> DEFINE p == s.p
           i == s.at
           q == CollectBranches(p, i)
           v == WithStatus(q, i, finished)
           r == backup_colordata(v, i)
           m == q.nodes[i].parent
<1>1. Cleaned(s) = IF i = None THEN s
                   ELSE IF Kids(q.nodes[i]) # {} THEN [p |-> q, at |-> None]
                   ELSE [p |-> r, at |-> m]
  BY DEF Cleaned, Strictly, FinishedOrLeft, Finished, WithStatus
<1>2. CASE i = None
  BY <1>1, <1>2
<1>3. ASSUME i # None
      PROVE  /\ i \in DOMAIN q.nodes /\ None \notin DOMAIN q.nodes
             /\ Tree(q) /\ Right(q, b, i, c, g) /\ q.ub = p.ub
  <2>1. i \in DOMAIN p.nodes
    BY <1>3 DEF Stands
  <2>2. Tree(q) /\ Right(q, b, i, c, g) /\ Collapses(p, i, q)
    BY <2>1, BranchesAreRight
  <2>. HIDE DEF q
  <2>. QED  BY <2>2 DEF Collapses, Tree, None
<1>. HIDE DEF p, i, q
<1>4. CASE i # None /\ Kids(q.nodes[i]) # {}
  <2>1. Right(q, b, None, c, g)
    BY <1>3, <1>4, LeavingIsRight DEF Fresh
  <2>2. Cleaned(s).p = q /\ Cleaned(s).at = None
    BY <1>1, <1>4
  <2>. QED  BY <1>3, <1>4, <2>1, <2>2 DEF Stands, p
<1>5. CASE i # None /\ Kids(q.nodes[i]) = {}
  <2> DEFINE d == q.nodes[i]
  <2>1. IsProblem(q) /\ Valued(d, c, b) /\ b <= d.opt
    BY <1>3, <1>5 DEF Tree, Right
  <2>2. finished \in Int /\ ~(finished < finished)
    BY DEF finished
  <2>3. Rewritten(q, i, v, d.lb, d.ub, d.best, finished) /\ Changed(q, i, finished, q.heap, v)
    BY <2>1, FieldRewritten, StatusWritten
  <2>. HIDE DEF v
  <2>4. LET e == v.nodes[i]
        IN  /\ e.opt = d.opt /\ e.lp = d.lp /\ e.lb = d.lb /\ e.ub = d.ub /\ e.best = d.best
            /\ e.status = finished /\ e.parent = m
    BY <1>3, <1>5, <2>3 DEF Rewritten, Writes, SamePlace
  <2>5. Valued(v.nodes[i], c, b) /\ Fresh(v.nodes[i])
    BY <2>1, <2>2, <2>4 DEF Valued, Fresh
  <2>6. i = Root => d.best # 0 /\ (d.best <= d.ub \/ g <= d.ub)
    BY <1>3, <1>5 DEF Right, Rooted
  <2>7. Right(v, b, i, c, g)
    BY <1>3, <1>5, <2>3, <2>5, <2>6, WriteIsRight
  <2>8. Tree(v)
    BY <1>3, <1>5, <2>2, <2>3, ChangeKeepsTree
  <2>9. IsProblem(v) /\ i \in DOMAIN v.nodes /\ v.ub = q.ub
    BY <1>3, <1>5, <2>3, <2>8 DEF Rewritten, Tree
  <2>10. r.nodes = v.nodes /\ r.ub = v.ub /\ SameTree(v, r)
    BY <2>9, BackedUp DEF SameTree, SamePlace
  <2>. HIDE DEF r, d
  <2>11. Tree(r) /\ Right(r, b, i, c, g)
    BY <2>7, <2>8, <2>9, <2>10, SameNodesRight, SameTreeCollects DEF Collects
  <2>12. m = None \/ (m \in DOMAIN r.nodes /\ Kids(r.nodes[m]) # {})
    BY <2>4, <2>9, <2>10, <2>11, ParentClimbs
  <2>. HIDE DEF m
  <2>13. None \notin DOMAIN r.nodes
    BY <2>11 DEF Tree, None
  <2>14. Right(r, b, m, c, g) /\ Right(r, b, None, c, g)
    BY <2>5, <2>10, <2>11, <2>12, <2>13, LeavingIsRight
  <2>15. Cleaned(s).p = r /\ Cleaned(s).at = m
    BY <1>1, <1>5
  <2>. QED  BY <1>3, <1>5, <2>9, <2>10, <2>11, <2>12, <2>14, <2>15 DEF Stands, p
<1>. QED  BY <1>2, <1>4, <1>5

(* After the whole walk all is right. *)
LEMMA RemoveIsRight ==
  ASSUME NEW p, Tree(p), NEW i \in DOMAIN p.nodes, NEW b, NEW c, NEW g, Right(p, b, i, c, g)
  PROVE  LET q == remove_finished_subtree(p, i)
         IN  Right(q, b, None, c, g) /\ q.ub = p.ub
<1> DEFINE n == p.nodes[i].depth + 1
           first == [p |-> p, at |-> i]
<1>1. p.nodes[i].depth \in Nat
  BY DEF Tree, InPlace
<1>2. PICK h : Walks(h, "clean", <<>>, first, n) /\ remove_finished_subtree(p, i) = h[n].p
  BY <1>1, CleanIsWalk
<1>3. first.p = p /\ first.at = i /\ n \in Nat /\ n # 0
  BY <1>1
<1>. HIDE DEF first, n
<1> DEFINE Good(k) == /\ Tree(h[k].p) /\ Stands(h[k]) /\ h[k].p.ub = p.ub
                      /\ Right(h[k].p, b, h[k].at, c, g)
                      /\ k # 0 => Right(h[k].p, b, None, c, g)
           T == {k \in Nat : k <= n => Good(k)}
<1>4. 0 \in T
  <2>1. h[0] = first
    BY <1>2, <1>3 DEF Walks
  <2>. QED  BY <1>3, <2>1 DEF Stands
<1>5. ASSUME NEW k \in T PROVE k + 1 \in T
  <2>1. SUFFICES ASSUME k + 1 <= n PROVE Good(k + 1)
    OBVIOUS
  <2>2. k \in Nat /\ Good(k)
    BY <1>3, <2>1
  <2>3. h[k + 1] = Cleaned(h[k])
    <3>1. k + 1 \in 0 .. n /\ k + 1 # 0 /\ (k + 1) - 1 = k
      BY SMTT(60), <1>3, <2>1, <2>2
    <3>2. h[k + 1] = StepOf("clean", <<>>, k + 1, h[k])
      BY <1>2, <3>1 DEF Walks
    <3>. QED  BY <3>2 DEF StepOf
  <2> DEFINE s == h[k]
             t == h[k + 1]
  <2>4. /\ Tree(t.p) /\ Stands(t) /\ t.p.ub = s.p.ub
        /\ Right(t.p, b, t.at, c, g) /\ Right(t.p, b, None, c, g)
    BY <2>2, <2>3, CleanedIsRight
  <2>. QED  BY <2>2, <2>4
<1>6. T = Nat
  <2>. HIDE DEF T
  <2>. QED  BY <1>4, <1>5, SetInduction DEF T
<1>7. Good(n)
  <2>1. n \in T /\ n <= n
    BY <1>3, <1>6
  <2>. QED  BY <2>1
<1>. QED  BY <1>2, <1>3, <1>7

-----------------------------------------------------------------------------
(* A node is taken from the heap, and closed.                              *)

(* The node i of q is what it was in p, but for its upper bound, which is  *)
(* now that of the search.                                                 *)
Takes(p, i, q) ==
  /\ Accounts(q, {i}) /\ q.heap = p.heap \ {i} /\ i \in DOMAIN q.nodes
  /\ q.ub = p.ub /\ q.next = p.next
  /\ Writes(p.nodes[i], q.nodes[i], p.nodes[i].lb, p.ub, p.nodes[i].best, p.nodes[i].status)

(* A node that is taken is right; the root has the bound of the search as  *)
(* long as it is in the heap. *)
LEMMA TakenIsRight ==
  ASSUME NEW p, Accounts(p, {}), NEW c, NEW g, Right(p, p.ub, None, c, g),
         NEW i \in p.heap, i = Root => p.nodes[i].ub = p.ub
  PROVE  LET q == [p EXCEPT !.heap = @ \ {i}, !.nodes[i].ub = p.ub, !.files = <<>>]
         IN  Takes(p, i, q) /\ Right(q, p.ub, None, c, g)
<1> DEFINE q == [p EXCEPT !.heap = @ \ {i}, !.nodes[i].ub = p.ub, !.files = <<>>]
           r == p.nodes[i]
           heap == p.heap \ {i}
           ub == p.ub
           v == WithHeap(p, heap)
           w == WithUb(v, i, ub)
<1>1. /\ Tree(p) /\ IsProblem(p) /\ i \in Open(p) /\ Open(p) = p.heap
      /\ i \in DOMAIN p.nodes /\ Kids(r) = {} /\ r.status < finished
  BY DEF Accounts, Tree, Open
<1>2. r.status \in Int /\ Valued(r, c, ub) /\ Fresh(r) /\ ub \in Nat
  <2>1. None \notin DOMAIN p.nodes
    BY <1>1 DEF Tree, None
  <2>. QED  BY <1>1, <2>1 DEF Tree, InPlace, Right
<1>3. q = [w EXCEPT !.files = <<>>]
  BY DEF WithHeap, WithUb
<1>. HIDE DEF heap, ub, q
<1>4. Rewritten(p, i, v, r.lb, r.ub, r.best, r.status) /\ Changed(p, i, r.status, heap, v)
  BY <1>1, FieldRewritten, HeapWritten
<1>. HIDE DEF v
<1>5. Rewritten(p, i, w, r.lb, ub, r.best, r.status) /\ Changed(p, i, r.status, heap, w)
  <2>1. IsProblem(v) /\ v.heap = heap /\ v.nodes[i].status = r.status
    BY <1>1, <1>4 DEF Changed
  <2>2. v.nodes[i].lb = r.lb /\ v.nodes[i].best = r.best
    BY <1>1, <1>4 DEF Rewritten, Writes
  <2>3. Rewritten(v, i, w, r.lb, ub, r.best, r.status)
    BY <2>1, <2>2, FieldRewritten
  <2>4. Changed(v, i, r.status, heap, w)
    BY <2>1, UbWritten
  <2>. HIDE DEF w
  <2>. QED  BY <1>4, <2>3, <2>4, RewrittenTwice, ChangedTwice
<1>. HIDE DEF w
<1>6. IsProblem(q) /\ q.nodes = w.nodes /\ q.heap = w.heap /\ q.ub = w.ub /\ q.next = w.next
  <2>1. IsProblem(w)
    BY <1>5 DEF Changed
  <2>2. q = [nodes |-> w.nodes, heap |-> w.heap, ub |-> w.ub, next |-> w.next,
             strategy |-> w.strategy, files |-> <<>>]
    BY <1>3, <2>1 DEF IsProblem
  <2>3. IsProblem(q)
    BY <2>1, <2>2 DEF IsProblem
  <2>. QED  BY <2>2, <2>3
<1>7. Rewritten(p, i, q, r.lb, ub, r.best, r.status) /\ Changed(p, i, r.status, heap, q)
  BY <1>5, <1>6 DEF Rewritten, Changed
<1>8. Accounts(q, {i})
  <2> DEFINE status == r.status
  <2>0. /\ status \in Int /\ status < finished /\ (status >= finished => Kids(p.nodes[i]) = {})
        /\ Changed(p, i, status, heap, q) /\ Kids(p.nodes[i]) = {}
    BY <1>1, <1>2, <1>7
  <2>. HIDE DEF status, r
  <2>1. /\ Tree(q) /\ i \in Open(q) /\ \A n : n # i => (n \in Open(q) <=> n \in Open(p))
    BY <1>1, <2>0, ChangeKeepsTree
  <2>2. q.heap = heap
    BY <1>7 DEF Changed
  <2>. QED  BY <1>1, <2>1, <2>2 DEF Accounts, heap
<1>9. Takes(p, i, q)
  BY <1>1, <1>7, <1>8 DEF Takes, Rewritten, Changed, heap, ub
<1>10. LET d == q.nodes[i]
       IN  /\ d.opt = r.opt /\ d.lp = r.lp /\ d.lb = r.lb /\ d.ub = ub /\ d.best = r.best
           /\ d.status = r.status /\ Kids(d) = Kids(r)
  BY <1>1, <1>7 DEF Rewritten, Writes, SamePlace, Kids
<1>11. Valued(q.nodes[i], c, ub) /\ Fresh(q.nodes[i])
  BY <1>2, <1>10 DEF Valued, Fresh
<1>12. i = Root => r.best # 0 /\ (r.best <= ub \/ g <= ub)
  BY DEF Right, Rooted, ub
<1>13. Right(q, ub, None, c, g)
  BY <1>1, <1>7, <1>11, <1>12, WriteIsRight DEF ub
<1>. QED  BY <1>9, <1>13 DEF q, ub

(* A node that cannot beat the search is finished and collected. *)
LEMMA FinishedIsRight ==
  ASSUME NEW p, NEW i, Accounts(p, {i}), NEW b, NEW c, NEW g, Right(p, b, None, c, g),
         b <= p.nodes[i].opt
  PROVE  LET q == remove_finished_subtree([p EXCEPT !.nodes[i].status = finished], i)
         IN  Accounts(q, {}) /\ Right(q, b, None, c, g) /\ q.ub = p.ub /\ q.heap = p.heap
<1> DEFINE q == WithStatus(p, i, finished)
           d == p.nodes[i]
<1>1. /\ Tree(p) /\ IsProblem(p) /\ i \in DOMAIN p.nodes /\ Kids(d) = {}
      /\ Open(p) = p.heap \cup {i} /\ i \notin p.heap
  BY DEF Accounts, Tree, Open
<1>2. Valued(d, c, b)
  BY <1>1 DEF Right
<1>3. Rewritten(p, i, q, d.lb, d.ub, d.best, finished) /\ Changed(p, i, finished, p.heap, q)
  BY <1>1, FieldRewritten, StatusWritten
<1>4. finished \in Int /\ ~(finished < finished)
  BY DEF finished
<1>5. [p EXCEPT !.nodes[i].status = finished] = q
  BY DEF WithStatus
<1>. HIDE DEF q
<1>6. /\ Tree(q) /\ i \notin Open(q) /\ \A n : n # i => (n \in Open(q) <=> n \in Open(p))
  BY <1>1, <1>3, <1>4, ChangeKeepsTree
<1>7. q.heap = p.heap /\ q.ub = p.ub /\ i \in DOMAIN q.nodes
  BY <1>1, <1>3 DEF Changed, Rewritten
<1>8. Nearly(q, {}, i)
  BY <1>1, <1>6, <1>7 DEF Nearly
<1>9. LET e == q.nodes[i]
      IN  /\ e.opt = d.opt /\ e.lp = d.lp /\ e.lb = d.lb /\ e.ub = d.ub /\ e.best = d.best
          /\ e.status = finished
  BY <1>1, <1>3 DEF Rewritten, Writes
<1>10. Valued(q.nodes[i], c, b) /\ Fresh(q.nodes[i])
  BY <1>2, <1>4, <1>9 DEF Valued, Fresh
<1>11. i = Root => d.best # 0 /\ (d.best <= d.ub \/ g <= d.ub)
  BY DEF Right, Rooted
<1>12. Right(q, b, None, c, g)
  BY <1>1, <1>3, <1>10, <1>11, WriteIsRight
<1>13. Right(q, b, i, c, g)
  <2>1. None \notin DOMAIN q.nodes
    BY <1>6 DEF Tree, None
  <2>. QED  BY <1>9, <1>12, <2>1 DEF Right
<1>14. Right(remove_finished_subtree(q, i), b, None, c, g) /\ remove_finished_subtree(q, i).ub = q.ub
  BY <1>6, <1>7, <1>13, RemoveIsRight
<1>15. Accounts(remove_finished_subtree(q, i), {}) /\ remove_finished_subtree(q, i).heap = q.heap
  BY <1>7, <1>8, RemoveAccounts DEF Spares
<1>. QED  BY <1>5, <1>7, <1>14, <1>15

(* A node is closed: it is backed up, the bound of the search follows its  *)
(* own, and it is collected when its bounds meet. *)
LEMMA ClosedIsRight ==
  ASSUME NEW p, NEW i \in DOMAIN p.nodes, Nearly(p, {}, i),
         p.nodes[i].lb # p.nodes[i].ub => Accounts(p, {}),
         NEW b, b = (IF p.ub <= p.nodes[i].ub THEN p.ub ELSE p.nodes[i].ub),
         NEW c, NEW g, Right(p, b, None, c, g), Right(p, b, i, c, g)
  PROVE  LET q == Closed(p, i)
         IN  Accounts(q, {}) /\ Right(q, b, None, c, g) /\ q.ub = b /\ q.heap = p.heap
<1> DEFINE cd == p.nodes[i]
           v == backup_colordata(p, i)
           q == adapt_global_upper_bound(v, cd.ub)
<1>1. Closed(p, i) = IF cd.lb = cd.ub THEN remove_finished_subtree(q, i) ELSE q
  BY DEF Closed, Strictly
<1>2. IsProblem(v) /\ v.nodes = p.nodes /\ v.heap = p.heap /\ v.next = p.next /\ v.ub = p.ub
  BY BackedUp DEF Nearly, Tree
<1>. HIDE DEF v, cd
<1>3. IsProblem(q) /\ q.nodes = p.nodes /\ q.heap = p.heap /\ q.next = p.next /\ q.ub = b
  BY <1>2, AdaptKeeps DEF cd
<1>. HIDE DEF q
<1>4. Right(q, b, None, c, g) /\ Right(q, b, i, c, g)
  BY <1>3, SameNodesRight
<1>5. CASE cd.lb = cd.ub
  <2>1. Tree(q) /\ Nearly(q, {}, i) /\ i \in DOMAIN q.nodes
    BY <1>3 DEF Nearly, Tree, Open
  <2>2. Accounts(remove_finished_subtree(q, i), {}) /\ remove_finished_subtree(q, i).heap = q.heap
    BY <2>1, RemoveAccounts DEF Spares
  <2>3. Right(remove_finished_subtree(q, i), b, None, c, g) /\ remove_finished_subtree(q, i).ub = q.ub
    BY <1>4, <2>1, RemoveIsRight
  <2>. QED  BY <1>1, <1>3, <1>5, <2>2, <2>3
<1>6. CASE cd.lb # cd.ub
  <2>1. Accounts(q, {})
    BY <1>3, <1>6, SameNodesAccount DEF cd
  <2>. QED  BY <1>1, <1>3, <1>4, <1>6, <2>1
<1>. QED  BY <1>5, <1>6

(* A node in whose complete graph the LP is exact gets its colouring,      *)
(* which is the best one of the search; it is finished. *)
LEMMA GrabIsRight ==
  ASSUME NEW p, NEW i, Accounts(p, {i}), NEW c, NEW g, Right(p, p.ub, None, c, g),
         p.nodes[i].ub = p.ub, p.nodes[i].lb < p.nodes[i].ub, MayBeComplete(p.nodes[i])
  PROVE  LET q == grab_integral_solution(p, i)
             b == p.nodes[i].opt
         IN  /\ i \in DOMAIN q.nodes /\ Nearly(q, {}, i) /\ q.heap = p.heap
             /\ b \in Nat /\ b < p.ub /\ q.ub = p.ub
             /\ q.nodes[i].lb = q.nodes[i].ub /\ q.nodes[i].ub = b
             /\ Right(q, b, None, c, g) /\ Right(q, b, i, c, g)
<1> DEFINE d == p.nodes[i]
           b == d.opt
           ub == Min({d.ub, d.opt})
           v == WithBest(p, i, b)
           w == WithUb(v, i, ub)
           status == IF ub = d.lb THEN finished ELSE d.status
           q == WithStatus(w, i, status)
<1>1. /\ Tree(p) /\ IsProblem(p) /\ i \in DOMAIN p.nodes /\ Kids(d) = {} /\ d.status < finished
      /\ Open(p) = p.heap \cup {i} /\ i \notin p.heap /\ None \notin DOMAIN p.nodes
  BY DEF Accounts, Tree, Open, None
<1>2. Valued(d, c, p.ub) /\ Fresh(d)
  BY <1>1 DEF Right
<1>3. d.lb = b /\ b \in Nat /\ b < p.ub /\ p.ub \in Nat /\ c <= b
  BY <1>1, <1>2 DEF Valued, Fresh, MayBeComplete, Right
<1>4. ub = b
  <2> DEFINE S == {d.ub, d.opt}
  <2>1. S \in SUBSET Nat /\ S # {} /\ b \in S /\ \A x \in S : x = b \/ x > b
    BY <1>3
  <2>. HIDE DEF S, b
  <2> DEFINE m == Min(S)
  <2>2. m \in S /\ \A x \in S : m <= x
    BY <2>1, MinIsLeast
  <2>. HIDE DEF m
  <2>3. m = b
    <3>1. m \in Nat /\ m <= b /\ (m = b \/ m > b) /\ b \in Nat
      BY <1>3, <2>1, <2>2
    <3>. QED  BY <3>1
  <2>. QED  BY <2>3 DEF S, m
<1>5. status = finished
  BY <1>3, <1>4
<1>6. grab_integral_solution(p, i) = q
  BY DEF grab_integral_solution, WithBest, WithUb, WithStatus
<1>7. finished \in Int /\ ~(finished < finished)
  BY DEF finished
<1>. HIDE DEF ub, status
<1>8. Rewritten(p, i, v, d.lb, d.ub, b, d.status) /\ Changed(p, i, d.status, p.heap, v)
  BY <1>1, FieldRewritten, BestWritten
<1>. HIDE DEF v
<1>9. Rewritten(p, i, w, d.lb, b, b, d.status) /\ Changed(p, i, d.status, p.heap, w)
  <2>1. /\ IsProblem(v) /\ v.heap = p.heap
        /\ v.nodes[i].status = d.status /\ v.nodes[i].lb = d.lb /\ v.nodes[i].best = b
    BY <1>1, <1>8 DEF Changed, Rewritten, Writes
  <2>2. Rewritten(v, i, w, d.lb, b, b, d.status)
    BY <1>4, <2>1, FieldRewritten
  <2>3. Changed(v, i, d.status, p.heap, w)
    BY <2>1, UbWritten
  <2>. HIDE DEF w
  <2>. QED  BY <1>8, <2>2, <2>3, RewrittenTwice, ChangedTwice
<1>. HIDE DEF w
<1>10. Rewritten(p, i, q, d.lb, b, b, finished) /\ Changed(p, i, finished, p.heap, q)
  <2>1. /\ IsProblem(w) /\ w.heap = p.heap
        /\ w.nodes[i].ub = b /\ w.nodes[i].lb = d.lb /\ w.nodes[i].best = b
    BY <1>1, <1>9 DEF Changed, Rewritten, Writes
  <2>2. Rewritten(w, i, q, d.lb, b, b, finished)
    BY <1>5, <2>1, FieldRewritten
  <2>3. Changed(w, i, finished, p.heap, q)
    BY <1>5, <2>1, StatusWritten
  <2>. HIDE DEF q
  <2>. QED  BY <1>9, <2>2, <2>3, RewrittenTwice, ChangedTwice
<1>. HIDE DEF q
<1>11. /\ Tree(q) /\ i \notin Open(q) /\ \A n : n # i => (n \in Open(q) <=> n \in Open(p))
  BY <1>1, <1>7, <1>10, ChangeKeepsTree
<1>12. q.heap = p.heap /\ q.ub = p.ub /\ i \in DOMAIN q.nodes /\ DOMAIN q.nodes = DOMAIN p.nodes
  BY <1>1, <1>10 DEF Changed, Rewritten
<1>13. Nearly(q, {}, i)
  BY <1>1, <1>11, <1>12 DEF Nearly
<1>14. LET e == q.nodes[i]
       IN  /\ e.opt = b /\ e.lp = d.lp /\ e.lb = d.lb /\ e.ub = b /\ e.best = b
           /\ e.status = finished
  BY <1>1, <1>10 DEF Rewritten, Writes
<1>15. Right(p, b, None, c, g) /\ b <= b
  <2>. HIDE DEF b
  <2>. QED  BY <1>3, BetterIsRight
<1>16. Valued(q.nodes[i], c, b) /\ Fresh(q.nodes[i])
  BY <1>2, <1>3, <1>7, <1>14, <1>15 DEF Valued, Fresh
<1>17. b # 0
  BY <1>3 DEF Right
<1>18. Right(q, b, None, c, g)
  <2>. HIDE DEF b, d
  <2>. QED  BY <1>1, <1>10, <1>15, <1>16, <1>17, WriteIsRight
<1>19. Right(q, b, i, c, g)
  <2>1. None \notin DOMAIN q.nodes
    BY <1>1, <1>12
  <2>. QED  BY <1>14, <1>15, <1>18, <2>1 DEF Right
<1>. QED  BY <1>3, <1>6, <1>12, <1>13, <1>14, <1>18, <1>19

-----------------------------------------------------------------------------
(* A node branches.                                                        *)

(* What the children of a node may be: no chromatic number is below that   *)
(* of the node, one is the same, and the LP gains at most one. *)
LEMMA BranchingsBound ==
  ASSUME NEW cd, cd.depth \in Nat, cd.opt \in Nat, cd.lp \in Nat,
         NEW sequence, NEW only, NEW kids \in Branchings(cd, sequence, 0, only)
  PROVE  /\ kids.same \in Nat /\ Len(kids.bounds) \in Nat /\ kids.same <= Len(kids.bounds)
         /\ \A k \in 1 .. Len(kids.bounds) : LET b == kids.bounds[k]
              IN  /\ b.opt \in Nat /\ b.lp \in Nat /\ cd.opt <= b.opt
                  /\ b.lp <= b.opt /\ b.lp <= cd.lp + 1
                  /\ b.est = b.lp /\ b.status \in {LP_bound_estimated, LP_bound_computed}
         /\ \E k \in 1 .. Len(kids.bounds) : kids.bounds[k].opt = cd.opt
<1> DEFINE B == ChildBounds(cd, 0, only)
<1>1. ASSUME NEW b \in B
      PROVE  /\ b.opt \in Nat /\ b.lp \in Nat /\ cd.opt <= b.opt
             /\ b.lp <= b.opt /\ b.lp <= cd.lp + 1
             /\ b.est = b.lp /\ b.status \in {LP_bound_estimated, LP_bound_computed}
  <2>1. PICK c \in ChildGraphs(cd) : b \in Relaxed(c.opt, c.lp, cd.depth + 1, 0, only)
    BY DEF ChildBounds
  <2>2. c \in [opt : cd.opt .. cd.opt + 1, lp : cd.lp .. cd.lp + 1]
        /\ c.opt - c.lp \in 0 .. MaxDepth - cd.depth - 1
    BY DEF ChildGraphs
  <2>3. c.opt \in cd.opt .. cd.opt + 1 /\ c.lp \in cd.lp .. cd.lp + 1
    BY <2>2
  <2>4. c.opt - c.lp >= 0
    BY <2>2, <2>3, ColorNodesAssumption
  <2>5. /\ b.opt = c.opt /\ b.lp = c.lp /\ b.est = c.lp
        /\ b.status \in {LP_bound_estimated, LP_bound_computed}
    BY <2>1, <2>3, Converged
  <2>. QED  BY <2>3, <2>4, <2>5
<1>. HIDE DEF B
<1>2. PICK n \in ChildCounts(sequence) : kids \in [same : {n[1]}, bounds : [1 .. n[1] + n[2] -> B]]
  BY DEF Branchings, B
<1>3. n[1] \in Nat /\ n[2] \in Nat
  BY <1>2 DEF ChildCounts
<1> DEFINE m == n[1] + n[2]
<1>4. m \in Nat /\ n[1] <= m
  BY <1>3
<1>5. kids.same = n[1] /\ kids.bounds \in [1 .. m -> B]
  BY <1>2
<1>. HIDE DEF m
<1>6. Len(kids.bounds) = m /\ DOMAIN kids.bounds = 1 .. m
  BY <1>4, <1>5
<1>7. \E k \in 1 .. m : kids.bounds[k].opt = cd.opt
  BY <1>6 DEF Branchings
<1>8. \A k \in 1 .. m : kids.bounds[k] \in B
  BY <1>5
<1>. QED  BY <1>1, <1>3, <1>4, <1>5, <1>6, <1>7, <1>8

(* In q the node i of p has children, one for each member of bounds.       *)
Branched(p, i, bounds, q) ==
  LET r   == p.nodes[i]
      s   == q.nodes[i]
      ids == p.next .. q.next - 1
  IN  /\ IsProblem(q) /\ q.heap = p.heap /\ q.ub = p.ub /\ q.next = p.next + Len(bounds)
      /\ DOMAIN q.nodes = DOMAIN p.nodes \cup ids
      /\ \A n \in DOMAIN p.nodes : n # i => q.nodes[n] = p.nodes[n]
      /\ s.parent = r.parent /\ s.depth = r.depth /\ s.status = r.status
      /\ s.lb = r.lb /\ s.ub = r.ub /\ s.best = r.best /\ s.opt = r.opt /\ s.lp = r.lp
      /\ s.same \cap s.diff = {} /\ Kids(s) = ids
      /\ \A k \in ids : LET b == bounds[k - p.next + 1]
                        IN  q.nodes[k] = Colordata(i, r.depth + 1, b, r.ub)

(* The children enter memory. *)
LEMMA ChildrenEnter ==
  ASSUME NEW p, Tree(p), NEW i \in DOMAIN p.nodes, NEW kids,
         kids.same \in Nat, Len(kids.bounds) \in Nat, kids.same <= Len(kids.bounds)
  PROVE  Branched(p, i, kids.bounds, WithChildren(p, i, kids))
<1> DEFINE r == p.nodes[i]
           next == p.next
           m == next + Len(kids.bounds)
           ids == next .. m - 1
           same == next .. next + kids.same - 1
           diff == ids \ same
           child(b) == Colordata(i, r.depth + 1, b, r.ub)
           e == [r EXCEPT !.same = same]
           d == [e EXCEPT !.diff = diff]
           node(n) == IF n \in ids THEN child(kids.bounds[n - next + 1])
                      ELSE IF n = i THEN d ELSE p.nodes[n]
           D == DOMAIN p.nodes \cup ids
           nodes == [n \in D |-> node(n)]
           q == WithChildren(p, i, kids)
<1>1. /\ IsProblem(p) /\ IsColordata(r) /\ next \in Nat /\ i \in Nat /\ i < next
      /\ \A n \in DOMAIN p.nodes : n \in Nat /\ n < next /\ IsColordata(p.nodes[n])
  BY DEF Tree, IsProblem
<1>2. q = [p EXCEPT !.nodes = nodes, !.next = m]
  BY DEF WithChildren
<1>. HIDE DEF q
<1>3. q = [nodes |-> nodes, heap |-> p.heap, ub |-> p.ub, next |-> m,
           strategy |-> p.strategy, files |-> p.files]
  <2>. HIDE DEF nodes, m
  <2>. QED  BY <1>1, <1>2 DEF IsProblem
<1>4. same \subseteq ids /\ i \notin ids /\ \A n \in DOMAIN p.nodes : n \notin ids
  BY SMTT(60), <1>1
<1>. HIDE DEF ids, same, d, child, D, next, r
<1>5. /\ nodes[i] = d
      /\ \A n \in DOMAIN p.nodes : n # i => nodes[n] = p.nodes[n]
      /\ \A n \in ids : nodes[n] = child(kids.bounds[n - next + 1])
  BY <1>4 DEF D
<1>6. nodes = [n \in D |-> nodes[n]] /\ DOMAIN nodes = D
  OBVIOUS
<1>. HIDE DEF nodes, diff
<1>7. e = [parent |-> r.parent, depth |-> r.depth, status |-> r.status, lb |-> r.lb,
           ub |-> r.ub, best |-> r.best, same |-> same, diff |-> r.diff,
           opt |-> r.opt, lp |-> r.lp, est |-> r.est,
           deepFirst |-> r.deepFirst, whole |-> r.whole]
  BY <1>1 DEF IsColordata
<1>. HIDE DEF e
<1>8. d = [parent |-> r.parent, depth |-> r.depth, status |-> r.status, lb |-> r.lb,
           ub |-> r.ub, best |-> r.best, same |-> same, diff |-> diff,
           opt |-> r.opt, lp |-> r.lp, est |-> r.est,
           deepFirst |-> r.deepFirst, whole |-> r.whole]
  BY <1>7 DEF d
<1>9. IsColordata(d)
  BY <1>8 DEF IsColordata
<1>10. /\ d.parent = r.parent /\ d.depth = r.depth /\ d.status = r.status
       /\ d.lb = r.lb /\ d.ub = r.ub /\ d.best = r.best /\ d.opt = r.opt /\ d.lp = r.lp
       /\ d.same = same /\ d.diff = diff
  BY <1>8
<1>11. d.same \cap d.diff = {} /\ Kids(d) = ids
  BY <1>4, <1>10 DEF diff, Kids
<1>12. \A k \in ids : IsColordata(nodes[k])
  <2>1. ASSUME NEW parent, NEW depth, NEW b, NEW ub
        PROVE  IsColordata(Colordata(parent, depth, b, ub))
    BY DEF Colordata, IsColordata
  <2>. QED  BY <1>5, <2>1 DEF child
<1>13. \A n \in D : IsColordata(nodes[n])
  BY <1>1, <1>5, <1>9, <1>12 DEF D
<1>14. q.nodes = nodes /\ q.heap = p.heap /\ q.ub = p.ub /\ q.next = m
  BY <1>3
<1>15. IsProblem(q)
  BY <1>3, <1>6, <1>13, <1>14 DEF IsProblem
<1>16. ids = p.next .. q.next - 1 /\ m = p.next + Len(kids.bounds)
  BY <1>14 DEF ids, m, next
<1>17. \A k \in ids : LET b == kids.bounds[k - p.next + 1]
                      IN  q.nodes[k] = Colordata(i, r.depth + 1, b, r.ub)
  BY <1>5, <1>14 DEF child, next
<1>. HIDE DEF ids, m
<1>. QED  BY <1>5, <1>6, <1>10, <1>11, <1>14, <1>15, <1>16, <1>17 DEF Branched, q, D, r

(* The bounds of children that a node with this chromatic number and bound *)
(* of the LP may have.                                                     *)
Bounds(bounds, opt, lp) ==
  /\ Len(bounds) \in Nat
  /\ \A k \in 1 .. Len(bounds) : LET b == bounds[k]
       IN  /\ b.opt \in Nat /\ b.lp \in Nat /\ opt <= b.opt /\ b.lp <= b.opt /\ b.lp <= lp + 1
           /\ b.est = b.lp /\ b.status \in {LP_bound_estimated, LP_bound_computed}
  /\ \E k \in 1 .. Len(bounds) : bounds[k].opt = opt

(* The new children are right and wait to be inserted: since the bounds of *)
(* the node do not meet, no child has a bound above that of the search. *)
LEMMA ChildrenAreRight ==
  ASSUME NEW p, NEW i, Accounts(p, {i}), NEW c, NEW g, Right(p, p.ub, None, c, g),
         p.nodes[i].ub = p.ub, p.nodes[i].lb < p.nodes[i].ub,
         NEW bounds, Bounds(bounds, p.nodes[i].opt, p.nodes[i].lp),
         NEW q, Branched(p, i, bounds, q)
  PROVE  LET ids == Kids(q.nodes[i])
         IN  /\ Accounts(q, ids) /\ Right(q, p.ub, None, c, g)
             /\ i \in DOMAIN q.nodes /\ i \notin ids /\ ids # {} /\ ids \subseteq 0 .. q.next - 1
             /\ \A k \in ids : /\ k \in DOMAIN q.nodes /\ Kids(q.nodes[k]) = {}
                               /\ q.nodes[k].lb <= p.ub /\ p.ub <= q.nodes[k].ub
<1> DEFINE r == p.nodes[i]
           s == q.nodes[i]
           ub == p.ub
           ids == p.next .. q.next - 1
<1>1. /\ Tree(p) /\ i \in DOMAIN p.nodes /\ Kids(r) = {} /\ r.status < finished
      /\ Open(p) = p.heap \cup {i} /\ i \notin p.heap /\ None \notin DOMAIN p.nodes
      /\ p.next \in Nat /\ i \in Nat /\ i < p.next
      /\ \A n \in DOMAIN p.nodes : n \in Nat /\ n < p.next
  BY DEF Accounts, Tree, Open, None
<1>2. Valued(r, c, ub) /\ Fresh(r) /\ InPlace(p.nodes, i) /\ ub \in Nat /\ c \in Nat
  BY <1>1 DEF Right, Tree
<1>3. /\ IsProblem(q) /\ q.heap = p.heap /\ q.ub = ub /\ q.next = p.next + Len(bounds)
      /\ DOMAIN q.nodes = DOMAIN p.nodes \cup ids
      /\ \A n \in DOMAIN p.nodes : n # i => q.nodes[n] = p.nodes[n]
      /\ s.parent = r.parent /\ s.depth = r.depth /\ s.status = r.status
      /\ s.lb = r.lb /\ s.ub = r.ub /\ s.best = r.best /\ s.opt = r.opt /\ s.lp = r.lp
      /\ s.same \cap s.diff = {} /\ Kids(s) = ids
  BY DEF Branched
<1>4. r.lb = r.lp /\ r.lb < ub /\ r.ub = ub /\ r.lp + 1 <= ub /\ Bounds(bounds, r.opt, r.lp)
  BY <1>1, <1>2 DEF Fresh, Valued
<1>5. ASSUME NEW k \in ids
      PROVE  LET d == q.nodes[k]
             IN  /\ d.parent = i /\ d.depth \in Nat
                 /\ d.status \in {LP_bound_estimated, LP_bound_computed}
                 /\ d.same = {} /\ d.diff = {} /\ Kids(d) = {}
                 /\ d.ub = ub /\ d.best = 0 /\ d.lb = d.lp
                 /\ d.opt = bounds[k - p.next + 1].opt
                 /\ d.opt \in Nat /\ d.lp \in Nat /\ r.opt <= d.opt /\ d.lp <= d.opt /\ d.lp <= ub
  <2> DEFINE x == bounds[k - p.next + 1]
             depth == r.depth + 1
             opt == x.opt
             lp == x.lp
             d == q.nodes[k]
  <2>1. k - p.next + 1 \in 1 .. Len(bounds)
    BY SMTT(60), <1>1, <1>3, <1>4 DEF Bounds
  <2>2. /\ opt \in Nat /\ lp \in Nat /\ r.opt <= opt /\ lp <= opt /\ lp <= r.lp + 1
        /\ x.est = lp /\ x.status \in {LP_bound_estimated, LP_bound_computed}
    BY <1>4, <2>1 DEF Bounds
  <2>3. depth \in Nat /\ lp <= ub
    BY <1>2, <1>4, <2>2 DEF InPlace, Valued
  <2>4. d = Colordata(i, depth, x, ub)
    BY <1>4 DEF Branched
  <2>. HIDE DEF d, depth, x, ub, r, s
  <2>5. /\ d.parent = i /\ d.depth = depth /\ d.status = x.status
        /\ d.same = {} /\ d.diff = {} /\ d.ub = ub /\ d.best = 0 /\ d.lb = lp
        /\ d.opt = opt /\ d.lp = lp
    BY <2>2, <2>4 DEF Colordata
  <2>. QED  BY SMTT(60), <2>2, <2>3, <2>5 DEF Kids, d, x
<1>6. \E k \in ids : q.nodes[k].opt = r.opt
  <2>1. PICK j \in 1 .. Len(bounds) : bounds[j].opt = r.opt
    BY <1>4 DEF Bounds
  <2> DEFINE k == p.next + j - 1
  <2>2. k \in ids /\ k - p.next + 1 = j
    BY SMTT(60), <1>1, <1>3, <1>4 DEF Bounds
  <2>. HIDE DEF k, ids
  <2>. QED  BY <1>5, <2>1, <2>2
<1>7. \A k \in ids : k \in Nat /\ i < k /\ k \notin DOMAIN p.nodes /\ k < q.next
  BY <1>1, <1>3, <1>4 DEF Bounds
<1>8. q.next \in Nat /\ p.next <= q.next
  BY SMTT(60), <1>1, <1>3, <1>4 DEF Bounds
<1>. HIDE DEF r, s, ub, ids
<1>9. ASSUME NEW n \in DOMAIN q.nodes PROVE InPlace(q.nodes, n)
  <2>1. CASE n = i
    <3>1. s.depth \in Nat /\ s.status \in Int /\ ~(s.status >= finished)
      BY <1>1, <1>2, <1>3 DEF InPlace, r, finished
    <3>2. \A k \in Kids(s) : k \in DOMAIN q.nodes /\ q.nodes[k].parent = i
      BY <1>3, <1>5
    <3>3. s.parent # None => s.parent \in DOMAIN q.nodes /\ i \in Kids(q.nodes[s.parent])
      <4>1. SUFFICES ASSUME s.parent # None PROVE s.parent \in DOMAIN q.nodes /\ i \in Kids(q.nodes[s.parent])
        OBVIOUS
      <4>2. s.parent \in DOMAIN p.nodes /\ i \in Kids(p.nodes[s.parent])
        BY <1>2, <1>3, <4>1 DEF InPlace, r
      <4>3. s.parent # i
        BY <1>1, <4>2 DEF r
      <4>. QED  BY <1>3, <4>2, <4>3
    <3>. QED  BY <1>3, <2>1, <3>1, <3>2, <3>3 DEF InPlace, s
  <2>2. CASE n \in ids
    <3>1. q.nodes[n].status \in Int /\ ~(q.nodes[n].status >= finished)
      BY <1>5, <2>2 DEF LP_bound_estimated, LP_bound_computed, finished
    <3>2. i \in DOMAIN q.nodes /\ n \in Kids(q.nodes[i])
      BY <1>1, <1>3, <2>2 DEF s
    <3>. QED  BY <1>5, <2>2, <3>1, <3>2 DEF InPlace
  <2>3. CASE n \in DOMAIN p.nodes /\ n # i
    <3>1. InPlace(p.nodes, n) /\ q.nodes[n] = p.nodes[n]
      BY <1>1, <1>3, <2>3 DEF Tree
    <3>2. \A k \in DOMAIN p.nodes : q.nodes[k].parent = p.nodes[k].parent
      BY <1>3 DEF r, s
    <3>3. \A k \in Kids(q.nodes[n]) : k \in DOMAIN q.nodes /\ q.nodes[k].parent = n
      BY <1>3, <3>1, <3>2 DEF InPlace
    <3>4. q.nodes[n].parent # None =>
            q.nodes[n].parent \in DOMAIN q.nodes /\ n \in Kids(q.nodes[q.nodes[n].parent])
      <4>1. SUFFICES ASSUME p.nodes[n].parent # None
                     PROVE  p.nodes[n].parent \in DOMAIN q.nodes /\ n \in Kids(q.nodes[p.nodes[n].parent])
        BY <3>1
      <4>2. p.nodes[n].parent \in DOMAIN p.nodes /\ n \in Kids(p.nodes[p.nodes[n].parent])
        BY <3>1, <4>1 DEF InPlace
      <4>3. p.nodes[n].parent # i
        BY <1>1, <4>2 DEF r
      <4>. QED  BY <1>3, <4>2, <4>3
    <3>. QED  BY <3>1, <3>3, <3>4 DEF InPlace
  <2>. QED  BY <1>3, <2>1, <2>2, <2>3
<1>10. Tree(q)
  <2>1. \A n \in DOMAIN q.nodes : n \in 0 .. q.next - 1
    BY <1>1, <1>3, <1>7, <1>8
  <2>. QED  BY <1>3, <1>8, <1>9, <2>1 DEF Tree
<1>11. Accounts(q, ids)
  <2>1. q.heap \cap ids = {}
    <3>1. \A n \in p.heap : n \in DOMAIN p.nodes
      BY <1>1 DEF Open
    <3>. QED  BY <1>3, <1>7, <3>1
  <2>2. Open(q) = q.heap \cup ids
    <3>1. i \notin Open(q)
      BY <1>3, <1>6 DEF Open, s
    <3>2. ASSUME NEW n \in ids PROVE n \in Open(q)
      <4>1. n \in DOMAIN q.nodes /\ Kids(q.nodes[n]) = {}
            /\ q.nodes[n].status \in {LP_bound_estimated, LP_bound_computed}
        BY <1>3, <1>5
      <4>. QED  BY <4>1 DEF Open, LP_bound_estimated, LP_bound_computed, finished
    <3>3. ASSUME NEW n \in DOMAIN p.nodes, n # i PROVE n \in Open(q) <=> n \in Open(p)
      <4>1. q.nodes[n] = p.nodes[n] /\ n \in DOMAIN q.nodes
        BY <1>3, <3>3
      <4>. QED  BY <4>1 DEF Open
    <3>4. \A n \in Open(q) : n \in DOMAIN p.nodes \/ n \in ids
      BY <1>3 DEF Open
    <3>5. \A n \in p.heap : n \in DOMAIN p.nodes /\ n # i /\ n \in Open(p)
      BY <1>1 DEF Open
    <3>. QED  BY <1>1, <1>3, <3>1, <3>2, <3>3, <3>4, <3>5
  <2>. QED  BY <1>10, <2>1, <2>2 DEF Accounts
<1>12. ASSUME NEW n \in DOMAIN q.nodes PROVE Valued(q.nodes[n], c, ub)
  <2>1. CASE n = i
    BY <1>2, <1>3, <2>1 DEF Valued, s
  <2>2. CASE n \in ids
    <3>1. ~(q.nodes[n].status >= finished) /\ c <= r.opt /\ r.opt \in Nat
      BY <1>2, <1>5, <2>2 DEF LP_bound_estimated, LP_bound_computed, finished, Valued
    <3>2. c <= q.nodes[n].opt
      BY <1>2, <1>5, <2>2, <3>1
    <3>. QED  BY <1>2, <1>5, <2>2, <3>1, <3>2 DEF Valued
  <2>3. CASE n \in DOMAIN p.nodes /\ n # i
    BY <1>3, <2>3 DEF Right, ub
  <2>. QED  BY <1>3, <2>1, <2>2, <2>3
<1>13. ASSUME NEW n \in DOMAIN q.nodes PROVE Descends(q.nodes, n, ub) /\ Fresh(q.nodes[n])
  <2>1. CASE n = i
    BY <1>3, <1>6, <1>7, <2>1 DEF Descends, Fresh, s
  <2>2. CASE n \in ids
    BY <1>5, <2>2 DEF Descends, Fresh
  <2>3. CASE n \in DOMAIN p.nodes /\ n # i
    <3>1. Descends(p.nodes, n, ub) /\ Fresh(p.nodes[n]) /\ InPlace(p.nodes, n)
      BY SMTT(60), <1>1, <2>3 DEF Right, Tree, ub
    <3>2. \A k \in Kids(p.nodes[n]) : k \in DOMAIN p.nodes /\ q.nodes[k].opt = p.nodes[k].opt
      BY <1>3, <3>1 DEF InPlace, r, s
    <3>3. q.nodes[n] = p.nodes[n]
      BY <1>3, <2>3
    <3>. QED  BY <3>1, <3>2, <3>3 DEF Descends
  <2>. QED  BY <1>3, <2>1, <2>2, <2>3
<1>14. Root \in DOMAIN q.nodes /\ Rooted(q.nodes[Root], c, g)
  <2>1. Root \in DOMAIN p.nodes /\ Rooted(p.nodes[Root], c, g)
    BY DEF Right
  <2>2. CASE i = Root
    BY <1>3, <2>1, <2>2 DEF Rooted, r, s
  <2>3. CASE i # Root
    BY <1>3, <2>1, <2>3
  <2>. QED  BY <2>2, <2>3
<1>15. Right(q, ub, None, c, g)
  <2>1. None \notin DOMAIN q.nodes
    BY <1>10 DEF Tree, None
  <2>2. c \in Nat \ {0} /\ ub \in Nat /\ g \in Nat
    BY <1>2 DEF Right
  <2>. QED  BY <1>12, <1>13, <1>14, <2>1, <2>2 DEF Right
<1>16. i \in DOMAIN q.nodes /\ i \notin ids /\ ids # {} /\ ids \subseteq 0 .. q.next - 1
  BY <1>1, <1>3, <1>6, <1>7, <1>8
<1>17. \A k \in ids : /\ k \in DOMAIN q.nodes /\ Kids(q.nodes[k]) = {}
                      /\ q.nodes[k].lb <= ub /\ ub <= q.nodes[k].ub
  <2>1. \A k \in ids : k \in DOMAIN q.nodes
    BY <1>3
  <2>2. ub <= ub
    BY <1>2
  <2>. QED  BY <1>5, <2>1, <2>2
<1>. QED  BY <1>3, <1>11, <1>15, <1>16, <1>17 DEF ub, s

-----------------------------------------------------------------------------
(* One turn of the search.                                                 *)

given == parms.initial_upper_bound

(* What a turn begins with. *)
LEMMA TurnBegins ==
  ASSUME Searching, crashes = 0, slack = 0, NEW i \in problem.heap, Turn(i)
  PROVE  /\ Takes(problem, i, Taken(i)) /\ Right(Taken(i), problem.ub, None, chi, given)
         /\ Root \notin Taken(i).heap
<1>1. /\ Accounts(problem, {}) /\ Right(problem, problem.ub, None, chi, given)
      /\ Root \in problem.heap => DOMAIN problem.nodes = {Root} /\ root.ub = problem.ub
  BY DEF Searching, Waiting, Turn, given
<1>2. i \in DOMAIN problem.nodes
  BY <1>1 DEF Accounts, Open
<1>3. i = Root => problem.nodes[i].ub = problem.ub
  BY SMTT(60), <1>1 DEF root
<1>4. Takes(problem, i, Taken(i)) /\ Right(Taken(i), problem.ub, None, chi, given)
  BY <1>1, <1>3, TakenIsRight DEF Taken
<1>5. Root \notin Taken(i).heap
  BY <1>1, <1>2, <1>4 DEF Takes
<1>. QED  BY <1>4, <1>5

(* What a turn ends with. *)
LEMMA TurnEnds ==
  ASSUME Searching, UNCHANGED <<parms, slack, crashes>>,
         Accounts(problem', {}), Right(problem', problem'.ub, None, chi, given),
         Root \notin problem'.heap
  PROVE  Searching'
<1>1. chi' = chi
  BY DEF Right, Rooted, chi, root
<1>2. Right(problem', problem'.ub, None, chi', parms'.initial_upper_bound)
  BY <1>1 DEF given
<1>. HIDE DEF chi
<1>. QED  BY <1>2 DEF Searching, Waiting

(* A node whose bounds meet cannot beat the search. *)
LEMMA SkipSearches ==
  ASSUME Searching, crashes = 0, slack = 0, NEW i \in problem.heap, Skip(i)
  PROVE  Searching'
<1> DEFINE p == Taken(i)
           b == problem.ub
<1>1. /\ p.nodes[i].lb >= p.nodes[i].ub
      /\ problem' = remove_finished_subtree([p EXCEPT !.nodes[i].status = finished], i)
      /\ Turn(i) /\ UNCHANGED <<parms, slack, crashes>>
  BY DEF Skip, Turn
<1>2. Takes(problem, i, p) /\ Right(p, b, None, chi, given) /\ Root \notin p.heap
  BY <1>1, TurnBegins
<1>. HIDE DEF p, b
<1>3. Accounts(p, {i}) /\ i \in DOMAIN p.nodes /\ p.nodes[i].ub = b /\ p.ub = b
  BY <1>2 DEF Takes, Writes, b
<1>4. b <= p.nodes[i].opt
  <2>1. Valued(p.nodes[i], chi, b) /\ b \in Nat
    BY <1>2, <1>3 DEF Right
  <2>. QED  BY <1>1, <1>3, <2>1 DEF Valued
<1>5. Accounts(problem', {}) /\ Right(problem', b, None, chi, given) /\ problem'.ub = b
      /\ problem'.heap = p.heap
  BY <1>1, <1>2, <1>3, <1>4, FinishedIsRight
<1>. QED  BY <1>1, <1>2, <1>5, TurnEnds

(* What a node is made of when its LP converges again. *)
ResolvedBy(p, i, only, q) ==
  LET cd == p.nodes[i] IN
  \/ q = p
  \/ \E b \in Relaxed(cd.opt, cd.lp, cd.depth, 0, only) :
       q = [p EXCEPT !.nodes[i] = [@ EXCEPT !.lb = b.est, !.est = b.est, !.status = b.status,
                                            !.whole = TRUE]]

(* It is as right as before. *)
RightAgain(p, i, c, g, q) ==
  /\ Accounts(q, {i}) /\ Right(q, p.ub, None, c, g)
  /\ q.heap = p.heap /\ q.ub = p.ub
  /\ q.nodes[i].lb = p.nodes[i].lb /\ q.nodes[i].ub = p.nodes[i].ub

(* A node that has lost its stable sets gets the same bound again, if the  *)
(* LPs converge. *)
LEMMA ResolvedIsRight ==
  ASSUME NEW p, NEW i, Accounts(p, {i}), NEW c, NEW g, Right(p, p.ub, None, c, g),
         NEW only, NEW q, ResolvedBy(p, i, only, q)
  PROVE  RightAgain(p, i, c, g, q)
<1> DEFINE cd == p.nodes[i]
<1>1. /\ Tree(p) /\ IsProblem(p) /\ i \in DOMAIN p.nodes /\ Kids(cd) = {} /\ cd.status < finished
      /\ Open(p) = p.heap \cup {i} /\ i \notin p.heap /\ None \notin DOMAIN p.nodes
      /\ IsColordata(cd)
  BY DEF Accounts, Tree, IsProblem, Open, None
<1>2. Valued(cd, c, p.ub) /\ Fresh(cd) /\ cd.lb = cd.lp /\ cd.lp \in Nat
  BY <1>1 DEF Right, Fresh, Valued
<1>3. CASE q = p
  BY <1>3 DEF RightAgain
<1>4. CASE q # p
  <2>1. PICK b \in Relaxed(cd.opt, cd.lp, cd.depth, 0, only) :
          q = [p EXCEPT !.nodes[i] = [@ EXCEPT !.lb = b.est, !.est = b.est, !.status = b.status,
                                               !.whole = TRUE]]
    BY <1>4 DEF ResolvedBy
  <2> DEFINE est == b.est
             status == b.status
             r == [cd EXCEPT !.lb = est, !.est = est, !.status = status, !.whole = TRUE]
  <2>2. est = cd.lp /\ status \in {LP_bound_estimated, LP_bound_computed}
    BY <1>2, Converged
  <2>3. q = [p EXCEPT !.nodes[i] = r]
    BY <2>1
  <2>4. status \in Int /\ status < finished /\ ~(status >= finished)
    BY <2>2 DEF LP_bound_estimated, LP_bound_computed, finished
  <2>. HIDE DEF est, status
  <2>5. r = [parent |-> cd.parent, depth |-> cd.depth, status |-> status, lb |-> est,
             ub |-> cd.ub, best |-> cd.best, same |-> cd.same, diff |-> cd.diff,
             opt |-> cd.opt, lp |-> cd.lp, est |-> est,
             deepFirst |-> cd.deepFirst, whole |-> TRUE]
    <3>1. IsColordata(cd)
      BY <1>1
    <3>. HIDE DEF cd
    <3> DEFINE r1 == [cd EXCEPT !.lb = est]
               r2 == [r1 EXCEPT !.est = est]
               r3 == [r2 EXCEPT !.status = status]
    <3>2. r1 = [parent |-> cd.parent, depth |-> cd.depth, status |-> cd.status, lb |-> est,
                ub |-> cd.ub, best |-> cd.best, same |-> cd.same, diff |-> cd.diff,
                opt |-> cd.opt, lp |-> cd.lp, est |-> cd.est,
                deepFirst |-> cd.deepFirst, whole |-> cd.whole]
      BY <3>1 DEF IsColordata
    <3>. HIDE DEF r1
    <3>3. r2 = [parent |-> cd.parent, depth |-> cd.depth, status |-> cd.status, lb |-> est,
                ub |-> cd.ub, best |-> cd.best, same |-> cd.same, diff |-> cd.diff,
                opt |-> cd.opt, lp |-> cd.lp, est |-> est,
                deepFirst |-> cd.deepFirst, whole |-> cd.whole]
      BY <3>2
    <3>4. r = [r3 EXCEPT !.whole = TRUE]
      BY DEF r1
    <3>. HIDE DEF r2, r
    <3>5. r3 = [parent |-> cd.parent, depth |-> cd.depth, status |-> status, lb |-> est,
                ub |-> cd.ub, best |-> cd.best, same |-> cd.same, diff |-> cd.diff,
                opt |-> cd.opt, lp |-> cd.lp, est |-> est,
                deepFirst |-> cd.deepFirst, whole |-> cd.whole]
      BY <3>3
    <3>. HIDE DEF r3
    <3>. QED  BY <3>4, <3>5
  <2>. HIDE DEF r, cd
  <2>6. /\ IsColordata(r) /\ SamePlace(cd, r) /\ r.status = status
        /\ Writes(cd, r, est, cd.ub, cd.best, status)
    BY <2>5 DEF IsColordata, SamePlace, Writes
  <2>7. Rewritten(p, i, q, est, cd.ub, cd.best, status)
    BY <1>1, <2>3, <2>6, NodeRewritten DEF cd
  <2>8. Changed(p, i, status, p.heap, q)
    <3>1. q = [nodes |-> [p.nodes EXCEPT ![i] = r], heap |-> p.heap, ub |-> p.ub,
               next |-> p.next, strategy |-> p.strategy, files |-> p.files]
      BY <1>1, <2>3 DEF IsProblem
    <3>. QED  BY <1>1, <2>6, <3>1, NodeWritten DEF cd
  <2>9. Kids(p.nodes[i]) = {}
    BY <1>1 DEF cd
  <2>10. /\ Tree(q) /\ i \in Open(q) /\ \A n : n # i => (n \in Open(q) <=> n \in Open(p))
    BY <1>1, <2>4, <2>8, <2>9, ChangeKeepsTree
  <2>11. q.heap = p.heap /\ q.ub = p.ub /\ Accounts(q, {i})
    BY <1>1, <2>7, <2>8, <2>10 DEF Accounts, Changed, Rewritten
  <2>12. LET d == q.nodes[i]
         IN  /\ d.opt = cd.opt /\ d.lp = cd.lp /\ d.lb = est /\ d.ub = cd.ub /\ d.best = cd.best
             /\ d.status = status
    BY <1>1, <2>7 DEF Rewritten, Writes, cd
  <2>13. Valued(q.nodes[i], c, p.ub) /\ Fresh(q.nodes[i])
    BY <1>2, <2>2, <2>4, <2>12 DEF Valued, Fresh
  <2>14. i = Root => cd.best # 0 /\ (cd.best <= cd.ub \/ g <= cd.ub)
    BY DEF Right, Rooted, cd
  <2>15. Right(q, p.ub, None, c, g)
    BY <1>1, <2>7, <2>13, <2>14, WriteIsRight
  <2>. QED  BY <1>2, <2>2, <2>11, <2>12, <2>15 DEF cd, RightAgain
<1>. QED  BY <1>3, <1>4

(* A colouring that is grabbed is the new best one. *)
LEMMA SolveSearches ==
  ASSUME Searching, crashes = 0, slack = 0, NEW i \in problem.heap, Solve(i)
  PROVE  Searching'
<1> DEFINE p == Taken(i)
<1>1. /\ p.nodes[i].lb < p.nodes[i].ub /\ Turn(i) /\ UNCHANGED <<parms, slack, crashes>>
      /\ \E r \in Resolved(p, i) :
           /\ MayBeComplete(r.nodes[i])
           /\ \E q \in {grab_integral_solution(r, i)} : Closes(q, i)
  BY DEF Solve, Turn
<1>2. PICK r \in Resolved(p, i) : MayBeComplete(r.nodes[i]) /\ Closes(grab_integral_solution(r, i), i)
  BY <1>1
<1> DEFINE q == grab_integral_solution(r, i)
           b == r.nodes[i].opt
<1>3. Takes(problem, i, p) /\ Right(p, problem.ub, None, chi, given) /\ Root \notin p.heap
  BY <1>1, TurnBegins
<1>. HIDE DEF p
<1>4. Accounts(p, {i}) /\ p.nodes[i].ub = p.ub /\ p.ub = problem.ub
  BY <1>3 DEF Takes, Writes
<1>5. /\ Accounts(r, {i}) /\ Right(r, r.ub, None, chi, given) /\ r.heap = p.heap
      /\ r.ub = problem.ub /\ r.nodes[i].ub = r.ub /\ r.nodes[i].lb < r.nodes[i].ub
  <2>1. Right(p, p.ub, None, chi, given) /\ ResolvedBy(p, i, parms.upper_bounds_only, r)
    BY <1>3, <1>4 DEF Resolved, ResolvedBy
  <2>2. RightAgain(p, i, chi, given, r)
    <3>. HIDE DEF chi, given
    <3>. QED  BY <1>4, <2>1, ResolvedIsRight
  <2>3. /\ Accounts(r, {i}) /\ Right(r, p.ub, None, chi, given)
        /\ r.heap = p.heap /\ r.ub = p.ub
        /\ r.nodes[i].lb = p.nodes[i].lb /\ r.nodes[i].ub = p.nodes[i].ub
    BY <2>2 DEF RightAgain
  <2>. QED  BY <1>1, <1>4, <2>3
<1>6. /\ i \in DOMAIN q.nodes /\ Nearly(q, {}, i) /\ q.heap = r.heap
      /\ b \in Nat /\ b < r.ub /\ q.ub = r.ub
      /\ q.nodes[i].lb = q.nodes[i].ub /\ q.nodes[i].ub = b
      /\ Right(q, b, None, chi, given) /\ Right(q, b, i, chi, given)
  BY <1>2, <1>5, GrabIsRight
<1>7. problem' = Closed(q, i)
  BY <1>2, <1>6 DEF Closes
<1>. HIDE DEF q, b
<1>8. b = IF q.ub <= q.nodes[i].ub THEN q.ub ELSE q.nodes[i].ub
  <2>1. problem.ub \in Nat
    BY <1>3 DEF Right
  <2>. QED  BY <1>5, <1>6, <2>1
<1>9. Accounts(problem', {}) /\ Right(problem', b, None, chi, given) /\ problem'.ub = b
      /\ problem'.heap = q.heap
  BY <1>6, <1>7, <1>8, ClosedIsRight
<1>. QED  BY <1>1, <1>3, <1>5, <1>6, <1>9, TurnEnds

(* The children of a node are inserted in its place. *)
LEMMA BranchSearches ==
  ASSUME Searching, crashes = 0, slack = 0, NEW i \in problem.heap, Branch(i)
  PROVE  Searching'
<1> DEFINE t == Taken(i)
           b == problem.ub
           only == parms.upper_bounds_only
           After(p, kids) ==
             LET q == WithChildren(p, i, kids) IN InsertAndBackupAll(q, InOrder(q.nodes[i]))
<1>1. /\ t.nodes[i].lb < t.nodes[i].ub /\ Turn(i) /\ UNCHANGED <<parms, slack, crashes>>
      /\ \E p \in Resolved(t, i) :
         \E kids \in Branchings(p.nodes[i], parms.same_sequence, slack, only) :
           Closes(After(p, kids), i)
  BY DEF Branch, Turn
<1>. HIDE DEF t, b
<1>2. PICK p \in Resolved(t, i) :
        \E kids \in Branchings(p.nodes[i], parms.same_sequence, slack, only) :
          Closes(After(p, kids), i)
  BY <1>1
<1>3. PICK kids \in Branchings(p.nodes[i], parms.same_sequence, 0, only) :
        Closes(After(p, kids), i)
  BY <1>2
<1> DEFINE q == WithChildren(p, i, kids)
           r == InsertAndBackupAll(q, InOrder(q.nodes[i]))
<1>4. Closes(r, i)
  BY <1>3
<1>5. /\ Accounts(p, {i}) /\ Tree(p) /\ i \in DOMAIN p.nodes /\ p.nodes[i].ub = p.ub
      /\ p.ub = b /\ b \in Nat /\ p.nodes[i].lb < p.nodes[i].ub
      /\ Right(p, b, None, chi, given) /\ Root \notin p.heap
  <2>1. Takes(problem, i, t) /\ Right(t, b, None, chi, given) /\ Root \notin t.heap
    BY <1>1, TurnBegins DEF t, b
  <2>2. Accounts(t, {i}) /\ t.nodes[i].ub = t.ub /\ t.ub = b
    BY <2>1 DEF Takes, Writes, b
  <2>3. Right(t, t.ub, None, chi, given) /\ ResolvedBy(t, i, parms.upper_bounds_only, p)
    BY <2>1, <2>2 DEF Resolved, ResolvedBy
  <2>4. /\ Accounts(p, {i}) /\ Right(p, t.ub, None, chi, given)
        /\ p.heap = t.heap /\ p.ub = t.ub
        /\ p.nodes[i].lb = t.nodes[i].lb /\ p.nodes[i].ub = t.nodes[i].ub
    <3>1. RightAgain(t, i, chi, given, p)
      BY <2>2, <2>3, ResolvedIsRight
    <3>. QED  BY <3>1 DEF RightAgain
  <2>5. Tree(p) /\ i \in DOMAIN p.nodes /\ b \in Nat
    BY <2>1, <2>4 DEF Accounts, Open, Right
  <2>. QED  BY <1>1, <2>1, <2>2, <2>4, <2>5
<1>. HIDE DEF After, only
<1>6. Bounds(kids.bounds, p.nodes[i].opt, p.nodes[i].lp) /\ Branched(p, i, kids.bounds, q)
  <2>1. p.nodes[i].depth \in Nat /\ p.nodes[i].opt \in Nat /\ p.nodes[i].lp \in Nat
    BY <1>5 DEF Tree, InPlace, Right, Valued
  <2>. HIDE DEF q
  <2>2. /\ kids.same \in Nat /\ kids.same <= Len(kids.bounds)
        /\ Bounds(kids.bounds, p.nodes[i].opt, p.nodes[i].lp)
    BY <2>1, BranchingsBound DEF Bounds
  <2>. QED  BY <1>5, <2>2, ChildrenEnter DEF Bounds, q
<1>. HIDE DEF q
<1> DEFINE ids == Kids(q.nodes[i])
           s == InOrder(q.nodes[i])
<1>7. /\ Accounts(q, ids) /\ Right(q, b, None, chi, given)
      /\ i \in DOMAIN q.nodes /\ i \notin ids /\ ids # {} /\ ids \subseteq 0 .. q.next - 1
      /\ \A k \in ids : /\ k \in DOMAIN q.nodes /\ Kids(q.nodes[k]) = {}
                        /\ q.nodes[k].lb <= b /\ b <= q.nodes[k].ub
  <2>1. Right(p, p.ub, None, chi, given) /\ p.nodes[i].lb < p.nodes[i].ub
    BY <1>5
  <2>. HIDE DEF chi, given, s
  <2>2. /\ Accounts(q, ids) /\ Right(q, p.ub, None, chi, given)
        /\ i \in DOMAIN q.nodes /\ i \notin ids /\ ids # {} /\ ids \subseteq 0 .. q.next - 1
        /\ \A k \in ids : /\ k \in DOMAIN q.nodes /\ Kids(q.nodes[k]) = {}
                          /\ q.nodes[k].lb <= p.ub /\ p.ub <= q.nodes[k].ub
    BY <1>5, <1>6, <2>1, ChildrenAreRight
  <2>. QED  BY <1>5, <2>2
<1>8. /\ q.heap = p.heap /\ q.ub = b /\ q.nodes[i].ub = b
      /\ q.nodes[i].same \cap q.nodes[i].diff = {}
  BY <1>5, <1>6 DEF Branched
<1>9. Lists(s, ids)
  <2>1. q.next \in Nat
    BY <1>7 DEF Accounts, Tree
  <2>. QED  BY <1>7, <1>8, <2>1, InOrderLists
<1>. HIDE DEF s, ids
<1>10. Accounts(r, {}) /\ Keeps(q, r, ids)
  <2>1. ids \ ids = {} /\ r = InsertAndBackupAll(q, s)
    BY DEF s
  <2>. HIDE DEF r
  <2>2. Accounts(q, ids) /\ Lists(s, ids)
    BY <1>7, <1>9
  <2>3. /\ Accounts(InsertAndBackupAll(q, s), ids \ ids)
        /\ Keeps(q, InsertAndBackupAll(q, s), ids)
    BY <2>2, InsertAllAccounts
  <2>. QED  BY <2>1, <2>3
<1>11. Right(r, b, None, chi, given) /\ ValuesKept(q, r)
  <2>1. Len(s) \in Nat /\ \A k \in 1 .. Len(s) : s[k] \in ids
    BY <1>9 DEF Lists
  <2>2. Tree(q)
    BY <1>7 DEF Accounts
  <2>3. \A k \in 1 .. Len(s) : /\ s[k] \in DOMAIN q.nodes /\ Kids(q.nodes[s[k]]) = {}
                               /\ q.nodes[s[k]].lb <= b /\ b <= q.nodes[s[k]].ub
    BY <1>7, <2>1
  <2>. QED  BY <1>7, <2>1, <2>2, <2>3, InsertAllIsRight DEF s
<1>. HIDE DEF r
<1>12. /\ i \in DOMAIN r.nodes /\ Kids(r.nodes[i]) = ids /\ ids # {}
       /\ r.ub = b /\ r.nodes[i].ub = b
  BY <1>7, <1>8, <1>11 DEF ValuesKept, SamePlace, Kids, ids
<1>13. /\ Tree(r) /\ None \notin DOMAIN r.nodes /\ i \notin r.heap /\ Open(r) = r.heap
       /\ Nearly(r, {}, i)
  BY <1>10, <1>12 DEF Accounts, Tree, Open, None, Nearly
<1>14. Right(r, b, i, chi, given)
  BY <1>11, <1>12, <1>13, LeavingIsRight
<1>15. b = IF r.ub <= r.nodes[i].ub THEN r.ub ELSE r.nodes[i].ub
  BY <1>12
<1>16. /\ Accounts(problem', {}) /\ Right(problem', b, None, chi, given) /\ problem'.ub = b
       /\ problem'.heap = r.heap
  <2>1. CASE r.nodes[i].lb <= r.nodes[i].ub
    <3>1. problem' = Closed(r, i)
      BY <1>4, <2>1 DEF Closes
    <3>. QED  BY <1>10, <1>11, <1>12, <1>13, <1>14, <1>15, <3>1, ClosedIsRight
  <2>2. CASE ~(r.nodes[i].lb <= r.nodes[i].ub)
    <3> DEFINE w == backup_colordata(r, i)
    <3>1. problem' = w
      BY <1>4, <2>2 DEF Closes
    <3>2. IsProblem(w) /\ w.nodes = r.nodes /\ w.heap = r.heap /\ w.next = r.next /\ w.ub = r.ub
      BY <1>13, BackedUp DEF Tree
    <3>. HIDE DEF w
    <3>3. Accounts(w, {}) /\ Right(w, b, None, chi, given)
      BY <1>10, <1>11, <3>2, SameNodesAccount, SameNodesRight
    <3>. QED  BY <1>12, <3>1, <3>2, <3>3
  <2>. QED  BY <2>1, <2>2
<1>17. Root \notin r.heap
  <2>1. SUFFICES ASSUME Root \in r.heap PROVE FALSE
    OBVIOUS
  <2>2. Root \in Open(r)
    BY <1>13, <2>1
  <2>3. CASE Root \in ids
    <3>1. i \in Nat /\ \A k \in ids : i < k
      <4>1. Descends(q.nodes, i, b) /\ Tree(q)
        BY <1>7 DEF Right, Accounts
      <4>. QED  BY <1>7, <4>1 DEF Descends, Tree, ids
    <3>. QED  BY <2>3, <3>1 DEF Root
  <2>4. CASE Root \notin ids
    <3>1. Root \in Open(q)
      BY <1>10, <2>2, <2>4 DEF Keeps, SamePlace, Open, Kids
    <3>. QED  BY <1>5, <1>7, <1>8, <2>4, <3>1 DEF Accounts
  <2>. QED  BY <2>3, <2>4
<1>. QED  BY <1>1, <1>16, <1>17, TurnEnds

-----------------------------------------------------------------------------
(* The invariant.                                                          *)

(* The given bound, and the numbers that the search starts with. *)
LEMMA StartingNumbers ==
  ASSUME parms \in Parms, NEW opt \in 3 .. MaxOpt, NEW excess \in 0 .. DsaturExcess
  PROVE  LET dsatur == opt + excess
             ub == Min({dsatur, given})
         IN  /\ given \in Nat /\ opt \in Nat /\ opt # 0 /\ dsatur \in Nat /\ opt <= dsatur
             /\ ub \in Nat /\ (dsatur <= ub \/ given <= ub)
<1> DEFINE dsatur == opt + excess
           S == {dsatur, given}
           ub == Min(S)
<1>1. given \in Nat
  BY ColorTreeAssumption DEF given, COLORNWT_MAX
<1>2. opt \in Nat /\ opt # 0 /\ dsatur \in Nat /\ opt <= dsatur
  BY ColorTreeAssumption
<1>. HIDE DEF dsatur
<1>3. S \in SUBSET Nat /\ S # {} /\ \A x \in S : x = dsatur \/ x = given
  BY <1>1, <1>2
<1>. HIDE DEF S
<1>4. ub \in S
  BY <1>3, MinIsLeast
<1>. HIDE DEF ub
<1>5. ub \in Nat /\ (dsatur <= ub \/ given <= ub)
  BY <1>1, <1>2, <1>3, <1>4
<1>. QED  BY <1>1, <1>2, <1>5 DEF dsatur, S, ub

(* The root that DSATUR has coloured is right, and stays so when it is     *)
(* inserted. *)
LEMMA InitSearches == Init => Searching
<1>1. SUFFICES ASSUME Init PROVE Searching
  OBVIOUS
<1>2. parms \in Parms /\ crashes = 0
  BY <1>1 DEF Init
<1>3. PICK opt \in 3 .. MaxOpt, excess \in 0 .. DsaturExcess :
        \E lp \in Max({3, opt - MaxDepth}) .. opt :
        \E b \in RootBounds(opt, lp) : problem = Started(b, opt + excess)
  BY <1>1 DEF Init
<1>4. PICK lp \in Max({3, opt - MaxDepth}) .. opt :
        \E b \in RootBounds(opt, lp) : problem = Started(b, opt + excess)
  BY <1>3
<1>5. PICK first \in RootBounds(opt, lp) : problem = Started(first, opt + excess)
  BY <1>4
<1>16. SUFFICES ASSUME slack = 0 PROVE Searching
  BY <1>2 DEF Searching
<1>17. first \in Relaxed(opt, lp, 0, 0, parms.upper_bounds_only)
  BY <1>16 DEF RootBounds
<1> DEFINE dsatur == opt + excess
           ub == Min({dsatur, given})
           strategy == parms.strategy
           p == [nodes |-> [n \in {Root} |-> [Colordata(None, 0, first, ub) EXCEPT !.best = dsatur]],
                 heap |-> {}, ub |-> ub, next |-> 1, strategy |-> strategy, files |-> <<>>]
           r == p.nodes[Root]
<1>18. problem = insert_into_branching_heap(p, Root)
  BY <1>5 DEF Started, init_root_colordata, given
<1>6. /\ given \in Nat /\ opt \in Nat /\ opt # 0 /\ dsatur \in Nat /\ opt <= dsatur
      /\ ub \in Nat /\ (dsatur <= ub \/ given <= ub)
  BY <1>2, StartingNumbers
<1>7. lp \in Nat /\ lp <= opt
  BY <1>6, FirstRelaxation
<1>. HIDE DEF dsatur, ub, strategy
<1>8. Starting(p, opt, ub, dsatur)
  BY <1>6, <1>7, <1>17, RootStarts
<1>. HIDE DEF p
<1>9. Tree(p) /\ Kids(r) = {} /\ Accounts(p, {Root})
  BY <1>8, StartingTree
<1>10. /\ DOMAIN p.nodes = {Root} /\ p.ub = ub
       /\ r.parent = None /\ r.opt = opt /\ r.lp \in Nat /\ r.lp <= opt /\ r.lb = r.lp
       /\ r.ub = ub /\ r.best = dsatur
       /\ r.status \in {LP_bound_estimated, LP_bound_computed}
  BY <1>8 DEF Starting
<1>. HIDE DEF r
<1>11. ub <= ub /\ opt <= opt /\ ~(r.status >= finished)
  BY <1>6, <1>10 DEF LP_bound_estimated, LP_bound_computed, finished
<1>12. Right(p, ub, None, opt, given)
  <2>1. Valued(r, opt, ub) /\ Fresh(r) /\ Rooted(r, opt, given)
    BY <1>6, <1>10, <1>11 DEF Valued, Fresh, Rooted
  <2>2. Descends(p.nodes, Root, ub)
    BY <1>9 DEF Descends, r
  <2>3. None \notin DOMAIN p.nodes
    BY <1>9 DEF Tree, None
  <2>. QED  BY <1>6, <1>10, <2>1, <2>2, <2>3 DEF Right, r
<1>13. Accounts(problem, {})
  <2>1. {Root} \ {Root} = {} /\ Root \in {Root}
    OBVIOUS
  <2>. QED  BY <1>18, <1>9, <2>1, InsertAccounts
<1>14. Right(problem, ub, None, opt, given) /\ ValuesKept(p, problem)
  <2>1. Root \in DOMAIN p.nodes
    BY <1>10
  <2>2. p.nodes[Root].parent = None /\ ub <= p.nodes[Root].ub /\ Kids(p.nodes[Root]) = {}
    BY <1>9, <1>10, <1>11 DEF r
  <2>. QED  BY <1>18, <1>9, <1>12, <2>1, <2>2, InsertIsRight
<1>15. problem.ub = ub /\ DOMAIN problem.nodes = {Root} /\ chi = opt /\ root.ub = ub
  BY <1>10, <1>14 DEF ValuesKept, chi, root, r
<1>. QED  BY <1>2, <1>13, <1>14, <1>15 DEF Searching, Waiting, given

(* Every step keeps the invariant: after a crash it says nothing more. *)
LEMMA NextSearches == Searching /\ [Next]_vars => Searching'
<1>1. SUFFICES ASSUME Searching, [Next]_vars PROVE Searching'
  OBVIOUS
<1>2. crashes \in Nat /\ parms \in Parms
  BY <1>1 DEF Searching
<1>3. ASSUME UNCHANGED <<parms, slack, problem, crashes>>, pc = "broken" => pc' = "broken"
      PROVE  Searching'
  BY <1>1, <1>3 DEF Searching, Waiting, chi, root
<1>4. ASSUME UNCHANGED <<parms, slack, crashes>>, ~(crashes = 0 /\ slack = 0) PROVE Searching'
  BY <1>1, <1>4 DEF Searching
<1>5. ASSUME NEW i \in problem.heap, Skip(i) PROVE Searching'
  <2>1. UNCHANGED <<parms, slack, crashes>>
    BY <1>5 DEF Skip, Turn
  <2>. QED  BY <1>1, <1>4, <1>5, <2>1, SkipSearches
<1>6. ASSUME NEW i \in problem.heap, Solve(i) PROVE Searching'
  <2>1. UNCHANGED <<parms, slack, crashes>>
    BY <1>6 DEF Solve, Turn
  <2>. QED  BY <1>1, <1>4, <1>6, <2>1, SolveSearches
<1>7. ASSUME NEW i \in problem.heap, Branch(i) PROVE Searching'
  <2>1. UNCHANGED <<parms, slack, crashes>>
    BY <1>7 DEF Branch, Turn
  <2>. QED  BY <1>1, <1>4, <1>7, <2>1, BranchSearches
<1>8. CASE TimeLimit
  BY <1>3, <1>8 DEF TimeLimit
<1>9. CASE EmptyHeap
  BY <1>3, <1>9 DEF EmptyHeap
<1>10. CASE Crash
  <2>1. crashes' = crashes + 1 /\ parms' = parms
    BY <1>10 DEF Crash
  <2>. QED  BY <1>2, <2>1 DEF Searching
<1>11. CASE CrashUnreadable
  <2>1. crashes' = crashes + 1 /\ parms' = parms
    BY <1>11 DEF CrashUnreadable
  <2>. QED  BY <1>2, <2>1 DEF Searching
<1>12. ASSUME NEW i \in problem.heap, Break(i) PROVE Searching'
  <2>1. UNCHANGED <<parms, slack, crashes>> /\ Turn(i) /\ problem' = Taken(i) /\ pc' = "broken"
    BY <1>12 DEF Break, Turn
  <2>2. CASE crashes = 0 /\ slack = 0
    <3>1. Takes(problem, i, Taken(i)) /\ Right(Taken(i), problem.ub, None, chi, given)
      BY <1>1, <2>1, <2>2, TurnBegins
    <3>2. Right(problem', problem'.ub, None, chi, given)
      BY <2>1, <3>1 DEF Takes
    <3>3. chi' = chi
      BY <3>2 DEF Right, Rooted, chi, root
    <3>4. Right(problem', problem'.ub, None, chi', parms'.initial_upper_bound)
      BY <2>1, <3>2, <3>3 DEF given
    <3>. HIDE DEF chi
    <3>. QED  BY <1>2, <2>1, <3>4 DEF Searching
  <2>. QED  BY <1>1, <1>4, <2>1, <2>2
<1>13. CASE UNCHANGED vars
  BY <1>3, <1>13 DEF vars
<1>. QED  BY <1>1, <1>5, <1>6, <1>7, <1>8, <1>9, <1>10, <1>11, <1>12, <1>13 DEF Next

(* Lower bounds are right.  *)
LEMMA BoundsFollow == Searching => LowerBoundsAreValid
BY DEF Searching, Right, Valued, LowerBoundsAreValid

(* Meeting bounds at the root belong to an optimal colouring. *)
LEMMA AnswerFollows == Searching /\ crashes = 0 => AnswerIsExact
<1>1. SUFFICES ASSUME Searching, crashes = 0, slack = 0, root.lb = root.ub
               PROVE  root.best = chi \/ (chi >= given /\ root.best >= chi)
  BY DEF AnswerIsExact, OptColorsIsOptimal, Solved, given
<1>2. Valued(root, chi, problem.ub) /\ Rooted(root, chi, given)
  BY <1>1 DEF Searching, Right, root, given
<1>3. chi \in Nat /\ given \in Nat
  BY <1>1 DEF Searching, Right, given
<1>4. /\ root.best \in Nat /\ root.ub \in Nat /\ chi <= root.best /\ root.ub <= chi
      /\ root.best <= root.ub \/ given <= root.ub
  BY <1>1, <1>2 DEF Valued, Rooted
<1>. QED  BY <1>3, <1>4

(* The youngest node with the chromatic number of the root can still be    *)
(* branched on, unless the search has a bound that is as good. *)
LEMMA OptimumFollows == Searching /\ crashes = 0 => OptimumIsKept
<1>1. SUFFICES ASSUME Searching, crashes = 0, slack = 0, pc = "search", problem.ub > chi
               PROVE  \E i \in DOMAIN problem.nodes : problem.nodes[i].opt = chi /\ i \in problem.heap
  BY DEF OptimumIsKept
<1> DEFINE b == problem.ub
           c == chi
           nodes == problem.nodes
           S == {n \in DOMAIN nodes : nodes[n].opt = c}
           D == {problem.next - n : n \in S}
<1>2. /\ Accounts(problem, {}) /\ Right(problem, b, None, c, given)
  BY <1>1 DEF Searching, Waiting, given
<1>. HIDE DEF b, c
<1>3. /\ Tree(problem) /\ Open(problem) = problem.heap
      /\ problem.next \in Nat /\ DOMAIN nodes \subseteq 0 .. problem.next - 1
      /\ Root \in S /\ b \in Nat /\ c \in Nat /\ ~(b <= c)
  <2>1. Root \in S /\ b \in Nat /\ c \in Nat
    BY <1>2 DEF Right, Rooted
  <2>2. b > c
    BY <1>1 DEF b, c
  <2>. QED  BY <1>2, <2>1, <2>2 DEF Accounts, Tree
<1>4. D \in SUBSET Nat /\ D # {}
  BY <1>3
<1>5. PICK n \in S : \A k \in S : k <= n
  <2> DEFINE m == Min(D)
  <2>1. m \in D /\ \A x \in D : m <= x
    BY <1>4, MinIsLeast
  <2>. HIDE DEF m
  <2>2. PICK n \in S : m = problem.next - n
    BY <2>1
  <2>3. ASSUME NEW k \in S PROVE k <= n
    <3>1. problem.next - k \in D
      OBVIOUS
    <3>2. m <= problem.next - k
      BY <2>1, <3>1
    <3>3. k \in Nat /\ n \in Nat /\ problem.next \in Nat
      BY <1>3
    <3>. QED  BY <2>2, <3>2, <3>3
  <2>. QED  BY <2>3
<1>. HIDE DEF S, D
<1>6. n \in DOMAIN nodes /\ nodes[n].opt = c
  BY DEF S
<1>7. Valued(nodes[n], c, b) /\ Descends(nodes, n, b) /\ InPlace(nodes, n)
  BY <1>2, <1>3, <1>6 DEF Right, Tree
<1>8. ~(nodes[n].status >= finished) /\ nodes[n].status \in Int
  BY <1>3, <1>6, <1>7 DEF Valued, InPlace
<1>9. Kids(nodes[n]) = {}
  <2>1. SUFFICES ASSUME Kids(nodes[n]) # {} PROVE FALSE
    OBVIOUS
  <2>2. PICK k \in Kids(nodes[n]) : nodes[k].opt = c
    BY <1>3, <1>6, <1>7, <2>1 DEF Descends
  <2>3. k \in S /\ n < k
    BY <1>7, <2>2 DEF Descends, InPlace, S
  <2>4. k <= n /\ n \in Nat /\ k \in Nat
    BY <1>3, <1>5, <1>6, <2>3 DEF S
  <2>. QED  BY <2>3, <2>4
<1>10. n \in Open(problem)
  BY <1>6, <1>8, <1>9 DEF Open, finished
<1>. QED  BY <1>3, <1>6, <1>10 DEF c

(* Until a crash every node that is still to be branched on waits in the   *)
(* heap and, if the LPs converge, the values of the nodes are right.  This *)
(* is what the code relies on when it takes a node from the heap, raises   *)
(* the bounds of its ancestors and frees the children that are finished.   *)
THEOREM SearchInvariant == Spec => []Searching
BY InitSearches, NextSearches, PTL DEF Spec

(* If the LPs converge, no run raises a lower bound above a chromatic      *)
(* number before a crash: trigger_lb_changes may leave out the children    *)
(* that have been freed.                                                   *)
THEOREM LowerBoundsAreAlwaysValid == Spec => []LowerBoundsAreValid
BY SearchInvariant, BoundsFollow, PTL

(* If the LPs converge, before a crash the bounds of the root meet only at *)
(* an optimal colouring, or when the given bound was not above the         *)
(* chromatic number: what color prints as optimal is.                      *)
THEOREM AnswerIsExactBeforeCrash == Spec => [](crashes = 0 => AnswerIsExact)
BY SearchInvariant, AnswerFollows, PTL

(* If the LPs converge, then before a crash, as long as the search has no  *)
(* optimal bound, a node with the chromatic number of the root is stored   *)
(* or waits in the heap: skipping, collecting and freeing nodes never lose *)
(* the last of them.                                                       *)
THEOREM OptimumIsKeptBeforeCrash == Spec => [](crashes = 0 => OptimumIsKept)
BY SearchInvariant, OptimumFollows, PTL
=============================================================================
