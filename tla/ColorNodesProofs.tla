-------------------------- MODULE ColorNodesProofs --------------------------
(***************************************************************************)
(* Lemmas about the tree of colordata of exactcolors that the proofs about *)
(* both its searches rest on: what each operation does to the places and   *)
(* statuses of the nodes, and that the nodes that are still to be branched *)
(* on stay accounted for while bounds travel up, nodes are inserted and    *)
(* finished subtrees are freed.                                            *)
(***************************************************************************)
EXTENDS ColorNodes, FiniteSetTheorems, SequenceTheorems, TLAPS

-----------------------------------------------------------------------------
(* Problems and their nodes as records.                                    *)

IsColordata(r) ==
  r = [parent |-> r.parent, depth |-> r.depth, status |-> r.status, lb |-> r.lb,
       ub |-> r.ub, best |-> r.best, same |-> r.same, diff |-> r.diff,
       opt |-> r.opt, lp |-> r.lp, est |-> r.est,
       deepFirst |-> r.deepFirst, whole |-> r.whole]

IsProblem(p) ==
  /\ p = [nodes |-> p.nodes, heap |-> p.heap, ub |-> p.ub, next |-> p.next,
          strategy |-> p.strategy, files |-> p.files]
  /\ p.nodes = [n \in DOMAIN p.nodes |-> p.nodes[n]]
  /\ \A n \in DOMAIN p.nodes : IsColordata(p.nodes[n])

(* The places in the tree and the graphs are the same.                     *)
SamePlace(c, d) ==
  /\ d.parent = c.parent /\ d.depth = c.depth
  /\ d.same = c.same /\ d.diff = c.diff /\ d.opt = c.opt

(* The two problems have the same tree and heap: bounds may differ.        *)
SameTree(p, q) ==
  /\ IsProblem(q)
  /\ DOMAIN q.nodes = DOMAIN p.nodes /\ q.heap = p.heap /\ q.next = p.next /\ q.ub = p.ub
  /\ \A n \in DOMAIN p.nodes : /\ SamePlace(p.nodes[n], q.nodes[n])
                               /\ q.nodes[n].status = p.nodes[n].status

(* A colordata of which one field is overwritten. *)
LEMMA FieldWritten ==
  ASSUME NEW r, IsColordata(r), NEW x
  PROVE  /\ /\ IsColordata([r EXCEPT !.lb = x]) /\ SamePlace(r, [r EXCEPT !.lb = x])
            /\ [r EXCEPT !.lb = x].status = r.status
         /\ /\ IsColordata([r EXCEPT !.ub = x]) /\ SamePlace(r, [r EXCEPT !.ub = x])
            /\ [r EXCEPT !.ub = x].status = r.status
         /\ /\ IsColordata([r EXCEPT !.best = x]) /\ SamePlace(r, [r EXCEPT !.best = x])
            /\ [r EXCEPT !.best = x].status = r.status
         /\ /\ IsColordata([r EXCEPT !.deepFirst = x]) /\ SamePlace(r, [r EXCEPT !.deepFirst = x])
            /\ [r EXCEPT !.deepFirst = x].status = r.status
         /\ /\ IsColordata([r EXCEPT !.status = x]) /\ SamePlace(r, [r EXCEPT !.status = x])
            /\ [r EXCEPT !.status = x].status = x
BY DEF IsColordata, SamePlace

(* One field of a node, or the heap, is written.                           *)
WithLb(p, i, x)        == [p EXCEPT !.nodes[i].lb = x]
WithUb(p, i, x)        == [p EXCEPT !.nodes[i].ub = x]
WithBest(p, i, x)      == [p EXCEPT !.nodes[i].best = x]
WithDeepFirst(p, i, x) == [p EXCEPT !.nodes[i].deepFirst = x]
WithStatus(p, i, x)    == [p EXCEPT !.nodes[i].status = x]
WithHeap(p, heap)      == [p EXCEPT !.heap = heap]

(* The problem q is p with another heap and another status of node i;     *)
(* besides, bounds may differ.                                             *)
Changed(p, i, status, heap, q) ==
  /\ IsProblem(q)
  /\ DOMAIN q.nodes = DOMAIN p.nodes /\ q.next = p.next /\ q.ub = p.ub /\ q.heap = heap
  /\ \A n \in DOMAIN p.nodes :
       /\ SamePlace(p.nodes[n], q.nodes[n])
       /\ q.nodes[n].status = IF n = i THEN status ELSE p.nodes[n].status

(* A problem of which one node and the heap are overwritten. *)
LEMMA NodeWritten ==
  ASSUME NEW p, IsProblem(p), NEW i, NEW r,
         i \in DOMAIN p.nodes => IsColordata(r) /\ SamePlace(p.nodes[i], r),
         NEW heap, NEW strategy, NEW files, NEW status,
         i \in DOMAIN p.nodes => r.status = status
  PROVE  Changed(p, i, status, heap,
                 [nodes |-> [p.nodes EXCEPT ![i] = r], heap |-> heap, ub |-> p.ub,
                  next |-> p.next, strategy |-> strategy, files |-> files])
<1> DEFINE q == [nodes |-> [p.nodes EXCEPT ![i] = r], heap |-> heap, ub |-> p.ub,
                 next |-> p.next, strategy |-> strategy, files |-> files]
<1>1. /\ q.nodes = [p.nodes EXCEPT ![i] = r]
      /\ q.heap = heap /\ q.next = p.next /\ q.ub = p.ub
      /\ q = [nodes |-> q.nodes, heap |-> q.heap, ub |-> q.ub, next |-> q.next,
              strategy |-> q.strategy, files |-> q.files]
  OBVIOUS
<1>. HIDE DEF q
<1>2. /\ DOMAIN q.nodes = DOMAIN p.nodes
      /\ i \in DOMAIN p.nodes => q.nodes[i] = r
      /\ \A n \in DOMAIN p.nodes : n # i => q.nodes[n] = p.nodes[n]
      /\ q.nodes = [n \in DOMAIN q.nodes |-> q.nodes[n]]
  BY <1>1 DEF IsProblem
<1>3. \A n \in DOMAIN q.nodes : IsColordata(q.nodes[n])
  BY <1>2 DEF IsProblem
<1>4. IsProblem(q)
  BY <1>1, <1>2, <1>3 DEF IsProblem
<1>5. \A n \in DOMAIN p.nodes : SamePlace(p.nodes[n], q.nodes[n])
  BY <1>2 DEF SamePlace
<1>6. Changed(p, i, status, heap, q)
  BY <1>1, <1>2, <1>4, <1>5 DEF Changed
<1>. QED  BY <1>6 DEF q

(* The lower bound of a node is written. *)
LEMMA LbWritten ==
  ASSUME NEW p, IsProblem(p), NEW i, NEW x
  PROVE  Changed(p, i, p.nodes[i].status, p.heap, WithLb(p, i, x))
<1> DEFINE r == [p.nodes[i] EXCEPT !.lb = x]
           q == WithLb(p, i, x)
<1>1. q = [nodes |-> [p.nodes EXCEPT ![i] = r], heap |-> p.heap, ub |-> p.ub,
           next |-> p.next, strategy |-> p.strategy, files |-> p.files]
  BY DEF IsProblem, WithLb
<1>2. i \in DOMAIN p.nodes =>
        IsColordata(r) /\ SamePlace(p.nodes[i], r) /\ r.status = p.nodes[i].status
  BY FieldWritten DEF IsProblem
<1>. HIDE DEF r, q
<1>3. Changed(p, i, p.nodes[i].status, p.heap, q)
  BY <1>1, <1>2, NodeWritten
<1>. QED  BY <1>3 DEF q

(* The upper bound of a node is written. *)
LEMMA UbWritten ==
  ASSUME NEW p, IsProblem(p), NEW i, NEW x
  PROVE  Changed(p, i, p.nodes[i].status, p.heap, WithUb(p, i, x))
<1> DEFINE r == [p.nodes[i] EXCEPT !.ub = x]
           q == WithUb(p, i, x)
<1>1. q = [nodes |-> [p.nodes EXCEPT ![i] = r], heap |-> p.heap, ub |-> p.ub,
           next |-> p.next, strategy |-> p.strategy, files |-> p.files]
  BY DEF IsProblem, WithUb
<1>2. i \in DOMAIN p.nodes =>
        IsColordata(r) /\ SamePlace(p.nodes[i], r) /\ r.status = p.nodes[i].status
  BY FieldWritten DEF IsProblem
<1>. HIDE DEF r, q
<1>3. Changed(p, i, p.nodes[i].status, p.heap, q)
  BY <1>1, <1>2, NodeWritten
<1>. QED  BY <1>3 DEF q

(* The number of colours of a node is written. *)
LEMMA BestWritten ==
  ASSUME NEW p, IsProblem(p), NEW i, NEW x
  PROVE  Changed(p, i, p.nodes[i].status, p.heap, WithBest(p, i, x))
<1> DEFINE r == [p.nodes[i] EXCEPT !.best = x]
           q == WithBest(p, i, x)
<1>1. q = [nodes |-> [p.nodes EXCEPT ![i] = r], heap |-> p.heap, ub |-> p.ub,
           next |-> p.next, strategy |-> p.strategy, files |-> p.files]
  BY DEF IsProblem, WithBest
<1>2. i \in DOMAIN p.nodes =>
        IsColordata(r) /\ SamePlace(p.nodes[i], r) /\ r.status = p.nodes[i].status
  BY FieldWritten DEF IsProblem
<1>. HIDE DEF r, q
<1>3. Changed(p, i, p.nodes[i].status, p.heap, q)
  BY <1>1, <1>2, NodeWritten
<1>. QED  BY <1>3 DEF q

(* The order of a node in the heap is written. *)
LEMMA DeepFirstWritten ==
  ASSUME NEW p, IsProblem(p), NEW i, NEW x
  PROVE  Changed(p, i, p.nodes[i].status, p.heap, WithDeepFirst(p, i, x))
<1> DEFINE r == [p.nodes[i] EXCEPT !.deepFirst = x]
           q == WithDeepFirst(p, i, x)
<1>1. q = [nodes |-> [p.nodes EXCEPT ![i] = r], heap |-> p.heap, ub |-> p.ub,
           next |-> p.next, strategy |-> p.strategy, files |-> p.files]
  BY DEF IsProblem, WithDeepFirst
<1>2. i \in DOMAIN p.nodes =>
        IsColordata(r) /\ SamePlace(p.nodes[i], r) /\ r.status = p.nodes[i].status
  BY FieldWritten DEF IsProblem
<1>. HIDE DEF r, q
<1>3. Changed(p, i, p.nodes[i].status, p.heap, q)
  BY <1>1, <1>2, NodeWritten
<1>. QED  BY <1>3 DEF q

(* The status of a node is written. *)
LEMMA StatusWritten ==
  ASSUME NEW p, IsProblem(p), NEW i, NEW x
  PROVE  Changed(p, i, x, p.heap, WithStatus(p, i, x))
<1> DEFINE r == [p.nodes[i] EXCEPT !.status = x]
           q == WithStatus(p, i, x)
<1>1. q = [nodes |-> [p.nodes EXCEPT ![i] = r], heap |-> p.heap, ub |-> p.ub,
           next |-> p.next, strategy |-> p.strategy, files |-> p.files]
  BY DEF IsProblem, WithStatus
<1>2. i \in DOMAIN p.nodes =>
        IsColordata(r) /\ SamePlace(p.nodes[i], r) /\ r.status = x
  BY ZenonT(60), FieldWritten DEF IsProblem
<1>. HIDE DEF r, q
<1>3. Changed(p, i, x, p.heap, q)
  BY <1>1, <1>2, NodeWritten
<1>. QED  BY <1>3 DEF q

(* The heap is written. *)
LEMMA HeapWritten ==
  ASSUME NEW p, IsProblem(p), NEW i, NEW heap
  PROVE  Changed(p, i, p.nodes[i].status, heap, WithHeap(p, heap))
<1> DEFINE q == WithHeap(p, heap)
<1>1. q = [nodes |-> p.nodes, heap |-> heap, ub |-> p.ub, next |-> p.next,
           strategy |-> p.strategy, files |-> p.files]
  BY DEF IsProblem, WithHeap
<1>. HIDE DEF q
<1>2. IsProblem(q)
  BY <1>1 DEF IsProblem
<1>3. Changed(p, i, p.nodes[i].status, heap, q)
  BY <1>1, <1>2 DEF Changed, SamePlace
<1>. QED  BY <1>3 DEF q

(* Two changes of a node are one. *)
LEMMA ChangedTwice ==
  ASSUME NEW p, NEW i, NEW s, NEW g, NEW q, Changed(p, i, s, g, q)
  PROVE  /\ \A t, h, r : Changed(q, i, t, h, r) => Changed(p, i, t, h, r)
         /\ s = p.nodes[i].status /\ g = p.heap => SameTree(p, q)
         /\ \A r : SameTree(q, r) => Changed(p, i, s, g, r)
BY DEF Changed, SameTree, SamePlace

(* Writing a backup changes the list of files. *)
LEMMA BackedUp ==
  ASSUME NEW p, IsProblem(p), NEW i
  PROVE  LET q == backup_colordata(p, i)
         IN /\ IsProblem(q) /\ q.nodes = p.nodes /\ q.heap = p.heap
            /\ q.next = p.next /\ q.ub = p.ub /\ q.strategy = p.strategy
<1> DEFINE q == backup_colordata(p, i)
<1>1. PICK f : q = [p EXCEPT !.files = f]
  BY DEF backup_colordata
<1>2. q = [nodes |-> p.nodes, heap |-> p.heap, ub |-> p.ub, next |-> p.next,
           strategy |-> p.strategy, files |-> f]
  BY <1>1 DEF IsProblem
<1>. HIDE DEF q
<1>3. IsProblem(q)
  BY <1>2 DEF IsProblem
<1>. QED  BY <1>2, <1>3 DEF q

(* Nothing changes nothing, and two changes are one. *)
LEMMA SameTreeTwice ==
  ASSUME NEW p, IsProblem(p)
  PROVE  /\ SameTree(p, p)
         /\ \A q, r : SameTree(p, q) /\ SameTree(q, r) => SameTree(p, r)
BY DEF SameTree, SamePlace

-----------------------------------------------------------------------------
(* Bounds travel up.                                                       *)

(* One level of trigger_lb_changes. *)
LEMMA RaisedKeeps ==
  ASSUME NEW s, IsProblem(s.p)
  PROVE  SameTree(s.p, Raised(s).p)
<1>1. CASE s.at = None
  BY <1>1, SameTreeTwice DEF Raised
<1>2. CASE s.at # None
  <2> DEFINE i == s.at
             new == Min({s.lb} \cup {s.p.nodes[k].lb : k \in Kids(s.p.nodes[i])})
             q == WithLb(s.p, i, new)
  <2>1. Raised(s) = IF new > s.p.nodes[i].lb
                    THEN [p |-> backup_colordata(q, i), at |-> s.p.nodes[i].parent, lb |-> new]
                    ELSE [s EXCEPT !.at = None]
    BY <1>2 DEF Raised, RaisedBy, WithLb
  <2>. HIDE DEF new, i
  <2>2. SameTree(s.p, q)
    BY LbWritten, ChangedTwice
  <2>. HIDE DEF q
  <2>3. SameTree(q, backup_colordata(q, i))
    BY <2>2, BackedUp DEF SameTree, SamePlace
  <2>4. SameTree(s.p, backup_colordata(q, i))
    BY <2>2, <2>3, SameTreeTwice
  <2>5. [s EXCEPT !.at = None].p = s.p
    OBVIOUS
  <2>. QED  BY <2>1, <2>4, <2>5, SameTreeTwice
<1>. QED  BY <1>1, <1>2

-----------------------------------------------------------------------------
(* What is accounted for.                                                  *)

(* The nodes that are still to be branched on. *)
Open(p) == {i \in DOMAIN p.nodes :
              Kids(p.nodes[i]) = {} /\ p.nodes[i].status < finished}

(* A node in its place: children and parents know each other, the branches *)
(* have no child in common, and nothing is below a node that is finished.  *)
InPlace(nodes, i) ==
  /\ nodes[i].depth \in Nat /\ nodes[i].status \in Int
  /\ nodes[i].same \cap nodes[i].diff = {}
  /\ \A k \in Kids(nodes[i]) : k \in DOMAIN nodes /\ nodes[k].parent = i
  /\ nodes[i].status >= finished => Kids(nodes[i]) = {}
  /\ nodes[i].parent # None =>
       nodes[i].parent \in DOMAIN nodes /\ i \in Kids(nodes[nodes[i].parent])

(* The nodes form a tree whose ids ncolordata has counted.                 *)
Tree(p) ==
  /\ IsProblem(p)
  /\ p.next \in Nat /\ DOMAIN p.nodes \subseteq 0 .. p.next - 1
  /\ \A i \in DOMAIN p.nodes : InPlace(p.nodes, i)

(* The nodes out of the heap that are still to be branched on are those of out. *)
Accounts(p, out) ==
  /\ Tree(p)
  /\ p.heap \cap out = {}
  /\ Open(p) = p.heap \cup out

-----------------------------------------------------------------------------
(* The walks of the code, one step at a time.                              *)

(* A set with 0 and with every successor of its members holds every natural. *)
LEMMA SetInduction ==
  ASSUME NEW S \in SUBSET Nat, 0 \in S, \A k \in S : k + 1 \in S
  PROVE  S = Nat
<1>1. SUFFICES ASSUME NEW x \in Nat \ S PROVE FALSE
  OBVIOUS
<1>2. PICK m \in Nat \ S : \A y \in Nat \ S : ~(<<y, m>> \in OpToRel(<, Nat))
  BY <1>1, NatLessThanWellFounded, WFMin
<1>3. \A y \in Nat \ S : ~(y < m)
  BY <1>2 DEF OpToRel
<1>4. m # 0
  OBVIOUS
<1>5. m - 1 \in Nat /\ m - 1 < m /\ (m - 1) + 1 = m
  BY <1>4
<1>6. m - 1 \in S
  BY <1>3, <1>5
<1>. QED  BY <1>5, <1>6

(* Step k of a walk from v: trigger_lb_changes, remove_finished_subtree and *)
(* the insertion of kids, with or without backups.                         *)
StepOf(walk, kids, k, v) ==
  CASE walk = "raise"  -> Raised(v)
    [] walk = "clean"  -> Cleaned(v)
    [] walk = "insert" -> insert_into_branching_heap(v, kids[k])
    [] walk = "insert and back up" -> InsertAndBackup(v, kids[k])

Walks(h, walk, kids, first, n) ==
  h = [k \in 0 .. n |-> IF k = 0 THEN first ELSE StepOf(walk, kids, k, h[k - 1])]

(* Every walk that takes n steps exists. *)
LEMMA WalkExists ==
  ASSUME NEW walk, NEW kids, NEW first, NEW n \in Nat
  PROVE  \E h : Walks(h, walk, kids, first, n)
<1> DEFINE S == {m \in Nat : \E h : Walks(h, walk, kids, first, m)}
<1>1. 0 \in S
  <2>1. Walks([k \in 0 .. 0 |-> first], walk, kids, first, 0)
    BY DEF Walks
  <2>. QED  BY <2>1
<1>2. ASSUME NEW m \in S PROVE m + 1 \in S
  <2>1. m \in Nat
    OBVIOUS
  <2>2. PICK h : Walks(h, walk, kids, first, m)
    OBVIOUS
  <2> DEFINE body(g, k) == IF k = 0 THEN first ELSE StepOf(walk, kids, k, g[k - 1])
             longer == [k \in 0 .. m + 1 |-> body(h, k)]
  <2>3. \A k \in 0 .. m : longer[k] = h[k]
    BY <2>1, <2>2 DEF Walks
  <2>4. \A k \in 0 .. m + 1 : k # 0 => k - 1 \in 0 .. m
    BY <2>1
  <2>5. \A k \in 0 .. m + 1 : body(longer, k) = body(h, k)
    <3>. HIDE DEF longer
    <3>. QED  BY <2>3, <2>4
  <2>6. longer = [k \in 0 .. m + 1 |-> body(h, k)]
    OBVIOUS
  <2>. HIDE DEF longer, body
  <2>7. longer = [k \in 0 .. m + 1 |-> body(longer, k)]
    BY <2>5, <2>6
  <2>8. Walks(longer, walk, kids, first, m + 1)
    BY <2>7 DEF Walks, body
  <2>. QED  BY <2>1, <2>8
<1>3. S = Nat
  <2>. HIDE DEF S
  <2>. QED  BY <1>1, <1>2, SetInduction DEF S
<1>. QED  BY <1>3

(* What trigger_lb_changes returns is the end of such a walk. *)
LEMMA RaiseIsWalk ==
  ASSUME NEW p, NEW i, p.nodes[i].depth \in Nat
  PROVE  \E h : /\ Walks(h, "raise", <<>>, [p |-> p, at |-> p.nodes[i].parent, lb |-> p.nodes[i].lb],
                         p.nodes[i].depth)
                /\ trigger_lb_changes(p, i) = h[p.nodes[i].depth].p
<1> DEFINE first == [p |-> p, at |-> p.nodes[i].parent, lb |-> p.nodes[i].lb]
           n == p.nodes[i].depth
           Up(g) == g = [k \in 0 .. n |-> IF k = 0 THEN first ELSE Strictly(Raised, g[k - 1])]
<1>1. trigger_lb_changes(p, i) = (CHOOSE g : Up(g))[n].p
  BY DEF trigger_lb_changes, Strictly
<1>. HIDE DEF first, n
<1>2. \A g : Walks(g, "raise", <<>>, first, n) <=> Up(g)
  BY DEF Walks, StepOf, Strictly
<1>3. \E g : Up(g)
  BY <1>2, WalkExists DEF n
<1>. QED  BY <1>1, <1>2, <1>3 DEF first, n

(* The whole walk changes bounds only. *)
LEMMA TriggerKeeps ==
  ASSUME NEW p, IsProblem(p), NEW i, p.nodes[i].depth \in Nat
  PROVE  SameTree(p, trigger_lb_changes(p, i))
<1> DEFINE first == [p |-> p, at |-> p.nodes[i].parent, lb |-> p.nodes[i].lb]
           n == p.nodes[i].depth
<1>1. PICK h : Walks(h, "raise", <<>>, first, n) /\ trigger_lb_changes(p, i) = h[n].p
  BY RaiseIsWalk
<1>2. first.p = p
  OBVIOUS
<1>. HIDE DEF first, n
<1>3. n \in Nat
  BY DEF n
<1> DEFINE S == {k \in Nat : k <= n => SameTree(p, h[k].p)}
<1>4. 0 \in S
  BY <1>1, <1>2, <1>3, SameTreeTwice DEF Walks
<1>5. ASSUME NEW k \in S PROVE k + 1 \in S
  <2>1. SUFFICES ASSUME k + 1 <= n PROVE SameTree(p, h[k + 1].p)
    OBVIOUS
  <2>2. k \in Nat /\ SameTree(p, h[k].p)
    BY <1>3, <2>1
  <2>3. h[k + 1] = Raised(h[k])
    <3>1. k + 1 \in 0 .. n /\ k + 1 # 0 /\ (k + 1) - 1 = k
      BY <1>3, <2>1, <2>2
    <3>. QED  BY <1>1, <3>1 DEF Walks, StepOf
  <2>4. SameTree(h[k].p, h[k + 1].p)
    BY <2>2, <2>3, RaisedKeeps DEF SameTree
  <2>. QED  BY <2>2, <2>4, SameTreeTwice
<1>6. S = Nat
  <2>. HIDE DEF S
  <2>. QED  BY <1>4, <1>5, SetInduction DEF S
<1>7. SameTree(p, h[n].p)
  BY <1>3, <1>6
<1>. QED  BY <1>1, <1>7

(* The parent of a node is a node with children, or there is none. *)
LEMMA ParentClimbs ==
  ASSUME NEW p, Tree(p), NEW i \in DOMAIN p.nodes
  PROVE  LET m == p.nodes[i].parent
         IN  m = None \/ (m \in DOMAIN p.nodes /\ Kids(p.nodes[m]) # {})
<1>1. InPlace(p.nodes, i)
  BY DEF Tree
<1>. QED  BY <1>1 DEF InPlace

-----------------------------------------------------------------------------
(* Insertion.                                                              *)

(* A node is inserted: it enters the heap, or it is finished.              *)
Inserted(p, i, q) ==
  \/ Changed(p, i, p.nodes[i].status, p.heap \cup {i}, q)
  \/ Changed(p, i, finished, p.heap, q)

(* insert_into_branching_heap does that. *)
LEMMA InsertInserts ==
  ASSUME NEW p, IsProblem(p), NEW i \in DOMAIN p.nodes, p.nodes[i].depth \in Nat
  PROVE  Inserted(p, i, insert_into_branching_heap(p, i))
<1> DEFINE first == p.strategy # min_lb /\ i # Root
           heap == p.heap \cup {i}
           u == WithHeap(p, heap)
           q == WithDeepFirst(u, i, first)
           t == WithStatus(p, i, finished)
<1>1. \/ insert_into_branching_heap(p, i) = trigger_lb_changes(q, i)
      \/ insert_into_branching_heap(p, i) = trigger_lb_changes(t, i)
  BY DEF insert_into_branching_heap, Strictly, WithHeap, WithDeepFirst, WithStatus
<1>. HIDE DEF first, heap
<1>2. Changed(p, i, p.nodes[i].status, heap, u)
  BY HeapWritten
<1>3. Changed(p, i, finished, p.heap, t)
  BY StatusWritten
<1>. HIDE DEF u, t
<1>4. Changed(u, i, u.nodes[i].status, u.heap, q)
  BY <1>2, DeepFirstWritten DEF Changed
<1>. HIDE DEF q
<1>5. Changed(p, i, p.nodes[i].status, heap, q)
  <2>1. u.heap = heap /\ u.nodes[i].status = p.nodes[i].status
    BY <1>2 DEF Changed
  <2>. QED  BY <1>2, <1>4, <2>1, ChangedTwice
<1>6. SameTree(q, trigger_lb_changes(q, i)) /\ SameTree(t, trigger_lb_changes(t, i))
  BY <1>3, <1>5, TriggerKeeps DEF Changed, SamePlace
<1>7. /\ Changed(p, i, p.nodes[i].status, heap, trigger_lb_changes(q, i))
      /\ Changed(p, i, finished, p.heap, trigger_lb_changes(t, i))
  BY <1>3, <1>5, <1>6, ChangedTwice
<1>. QED  BY <1>1, <1>7 DEF Inserted, heap

(* The places of the nodes are kept, and the status of those not in S.     *)
Keeps(p, q, S) ==
  /\ DOMAIN q.nodes = DOMAIN p.nodes /\ q.next = p.next /\ q.ub = p.ub
  /\ \A n \in DOMAIN p.nodes :
       /\ SamePlace(p.nodes[n], q.nodes[n])
       /\ n \notin S => q.nodes[n].status = p.nodes[n].status

(* A change of the status of one node keeps the tree, unless it finishes a *)
(* node that has children; only that node's membership in Open can change. *)
LEMMA ChangeKeepsTree ==
  ASSUME NEW p, Tree(p), NEW i \in DOMAIN p.nodes, NEW status \in Int, NEW heap,
         status >= finished => Kids(p.nodes[i]) = {},
         NEW q, Changed(p, i, status, heap, q)
  PROVE  /\ Tree(q) /\ Keeps(p, q, {i})
         /\ \A n : n # i => (n \in Open(q) <=> n \in Open(p))
         /\ i \in Open(q) <=> Kids(p.nodes[i]) = {} /\ status < finished
<1>1. /\ IsProblem(q) /\ DOMAIN q.nodes = DOMAIN p.nodes /\ q.next = p.next /\ q.ub = p.ub
      /\ \A n \in DOMAIN p.nodes :
           /\ SamePlace(p.nodes[n], q.nodes[n])
           /\ n # i => q.nodes[n].status = p.nodes[n].status
      /\ q.nodes[i].status = status
  BY DEF Changed
<1>2. \A n \in DOMAIN p.nodes :
        /\ q.nodes[n].parent = p.nodes[n].parent /\ q.nodes[n].depth = p.nodes[n].depth
        /\ q.nodes[n].same = p.nodes[n].same /\ q.nodes[n].diff = p.nodes[n].diff
        /\ Kids(q.nodes[n]) = Kids(p.nodes[n])
  BY <1>1 DEF SamePlace, Kids
<1>3. ASSUME NEW n \in DOMAIN p.nodes
      PROVE  InPlace(q.nodes, n)
  <2>1. InPlace(p.nodes, n)
    BY DEF Tree
  <2>2. /\ q.nodes[n].depth \in Nat /\ q.nodes[n].status \in Int
        /\ q.nodes[n].same \cap q.nodes[n].diff = {}
        /\ q.nodes[n].status >= finished => Kids(q.nodes[n]) = {}
    BY <1>1, <1>2, <2>1 DEF InPlace
  <2>3. \A k \in Kids(q.nodes[n]) : k \in DOMAIN q.nodes /\ q.nodes[k].parent = n
    BY <1>1, <1>2, <2>1 DEF InPlace
  <2>4. q.nodes[n].parent # None =>
          q.nodes[n].parent \in DOMAIN q.nodes /\ n \in Kids(q.nodes[q.nodes[n].parent])
    BY <1>1, <1>2, <2>1 DEF InPlace
  <2>. QED  BY <2>2, <2>3, <2>4 DEF InPlace
<1>4. Tree(q)
  BY <1>1, <1>3 DEF Tree
<1>5. Keeps(p, q, {i})
  BY <1>1 DEF Keeps
<1>6. \A n : n # i => (n \in Open(q) <=> n \in Open(p))
  BY <1>1, <1>2 DEF Open
<1>7. i \in Open(q) <=> Kids(p.nodes[i]) = {} /\ status < finished
  BY <1>1, <1>2 DEF Open
<1>. QED  BY <1>4, <1>5, <1>6, <1>7

(* What is kept twice is kept. *)
LEMMA KeepsTwice ==
  ASSUME NEW p, NEW S
  PROVE  /\ Keeps(p, p, S)
         /\ \A q, r, T, U : Keeps(p, q, T) /\ Keeps(q, r, U) /\ T \subseteq S /\ U \subseteq S
                              => Keeps(p, r, S)
BY DEF Keeps, SamePlace

(* The tree and the heap alone decide what is accounted for. *)
LEMMA SameNodesAccount ==
  ASSUME NEW p, NEW out, Accounts(p, out), NEW q, IsProblem(q),
         q.nodes = p.nodes, q.heap = p.heap, q.next = p.next
  PROVE  Accounts(q, out)
<1>1. Tree(q)
  BY DEF Accounts, Tree
<1>2. Open(q) = Open(p)
  BY DEF Open
<1>. QED  BY <1>1, <1>2 DEF Accounts

(* Inserting a node that was out of the heap: it is accounted for. *)
LEMMA InsertAccounts ==
  ASSUME NEW p, NEW out, Accounts(p, out), NEW i \in out
  PROVE  /\ Accounts(insert_into_branching_heap(p, i), out \ {i})
         /\ Keeps(p, insert_into_branching_heap(p, i), {i})
<1> DEFINE q == insert_into_branching_heap(p, i)
<1>1. /\ Tree(p) /\ i \in Open(p) /\ p.heap \cap out = {} /\ Open(p) = p.heap \cup out
      /\ i \in DOMAIN p.nodes /\ Kids(p.nodes[i]) = {} /\ p.nodes[i].status < finished
  BY DEF Accounts, Open
<1>2. IsProblem(p) /\ p.nodes[i].depth \in Nat /\ p.nodes[i].status \in Int
  BY <1>1 DEF Tree, InPlace
<1>3. Inserted(p, i, q)
  BY <1>1, <1>2, InsertInserts
<1>. HIDE DEF q
<1>4. ASSUME Changed(p, i, p.nodes[i].status, p.heap \cup {i}, q)
      PROVE  Accounts(q, out \ {i}) /\ Keeps(p, q, {i})
  <2> DEFINE status == p.nodes[i].status
             heap == p.heap \cup {i}
  <2>0. /\ status \in Int /\ status < finished /\ (status >= finished => Kids(p.nodes[i]) = {})
        /\ Changed(p, i, status, heap, q) /\ finished \in Int
    BY <1>1, <1>2, <1>4 DEF finished
  <2>. HIDE DEF status, heap
  <2>1. /\ Tree(q) /\ Keeps(p, q, {i}) /\ i \in Open(q)
        /\ \A n : n # i => (n \in Open(q) <=> n \in Open(p))
    BY <1>1, <2>0, ChangeKeepsTree
  <2>2. q.heap = p.heap \cup {i}
    BY <2>0 DEF Changed, heap
  <2>3. Accounts(q, out \ {i})
    BY <1>1, <2>1, <2>2 DEF Accounts
  <2>. QED  BY <2>1, <2>3
<1>5. ASSUME Changed(p, i, finished, p.heap, q)
      PROVE  Accounts(q, out \ {i}) /\ Keeps(p, q, {i})
  <2>1. finished \in Int /\ ~(finished < finished)
    BY DEF finished
  <2>2. /\ Tree(q) /\ Keeps(p, q, {i}) /\ i \notin Open(q)
        /\ \A n : n # i => (n \in Open(q) <=> n \in Open(p))
    BY <1>1, <1>5, <2>1, ChangeKeepsTree
  <2>3. q.heap = p.heap
    BY <1>5 DEF Changed
  <2>4. Accounts(q, out \ {i})
    BY <1>1, <2>2, <2>3 DEF Accounts
  <2>. QED  BY <2>2, <2>4
<1>6. Accounts(q, out \ {i}) /\ Keeps(p, q, {i})
  BY <1>3, <1>4, <1>5 DEF Inserted
<1>. QED  BY <1>6 DEF q

-----------------------------------------------------------------------------
(* The children in the order in which they are inserted.                   *)

Ascends(s, T) ==
  /\ s \in [1 .. Cardinality(T) -> T]
  /\ \A j, k \in 1 .. Cardinality(T) : j < k => s[j] < s[k]

(* Every bounded set of ids can be listed in ascending order. *)
LEMMA AscendingExists ==
  ASSUME NEW N \in Nat, NEW T \in SUBSET (0 .. N - 1)
  PROVE  \E s : Ascends(s, T)
<1> DEFINE S == {n \in Nat : \A U \in SUBSET (0 .. n - 1) : \E s : Ascends(s, U)}
<1>1. 0 \in S
  <2>1. Cardinality({}) = 0 /\ 1 .. 0 = {} /\ 0 .. 0 - 1 = {}
    BY FS_EmptySet
  <2>2. Ascends([j \in {} |-> j], {})
    BY <2>1 DEF Ascends
  <2>. QED  BY <2>1, <2>2
<1>2. ASSUME NEW n \in S PROVE n + 1 \in S
  <2>1. n \in Nat /\ (n + 1) - 1 = n
    OBVIOUS
  <2>2. SUFFICES ASSUME NEW U \in SUBSET (0 .. n) PROVE \E s : Ascends(s, U)
    BY <2>1
  <2> DEFINE V == U \ {n}
             c == Cardinality(U)
  <2>3. V \in SUBSET (0 .. n - 1)
    BY <2>1
  <2>4. PICK s : Ascends(s, V)
    BY <2>3
  <2>5. CASE n \notin U
    BY <2>4, <2>5
  <2>6. CASE n \in U
    <3>1. IsFiniteSet(U) /\ c \in Nat \ {0} /\ Cardinality(V) = c - 1
      <4>1. IsFiniteSet(0 .. n)
        BY <2>1, FS_Interval
      <4>2. IsFiniteSet(U)
        BY <4>1, FS_Subset
      <4>. QED  BY <2>6, <4>2, FS_RemoveElement, FS_CardinalityType, FS_EmptySet
    <3> DEFINE r == [j \in 1 .. c |-> IF j = c THEN n ELSE s[j]]
    <3>. HIDE DEF c
    <3>2. ASSUME NEW j \in 1 .. c, j # c
          PROVE  j \in 1 .. c - 1 /\ s[j] \in V /\ r[j] = s[j] /\ s[j] < n
      <4>1. j \in 1 .. c - 1
        BY <3>1, <3>2
      <4>2. s[j] \in V
        BY <2>4, <3>1, <4>1 DEF Ascends
      <4>3. s[j] < n
        <5>1. s[j] \in 0 .. n - 1
          BY <2>3, <4>2
        <5>. QED  BY <2>1, <5>1
      <4>. QED  BY <3>2, <4>1, <4>2, <4>3
    <3>3. r[c] = n
      BY <3>1
    <3>4. r \in [1 .. c -> U]
      BY <2>6, <3>2
    <3>5. ASSUME NEW j \in 1 .. c, NEW k \in 1 .. c, j < k
          PROVE  r[j] < r[k]
      <4>1. j # c
        BY <3>1, <3>5
      <4>2. CASE k = c
        BY <3>2, <3>3, <4>1, <4>2
      <4>3. CASE k # c
        <5>1. s[j] < s[k]
          BY <2>4, <3>1, <3>2, <3>5, <4>1, <4>3 DEF Ascends
        <5>. QED  BY <3>2, <4>1, <4>3, <5>1
      <4>. QED  BY <4>2, <4>3
    <3>. HIDE DEF r
    <3>6. Ascends(r, U)
      BY <3>4, <3>5 DEF Ascends, c
    <3>. QED  BY <3>6
  <2>. QED  BY <2>5, <2>6
<1>3. S = Nat
  <2>. HIDE DEF S
  <2>. QED  BY <1>1, <1>2, SetInduction DEF S
<1>. QED  BY <1>3

(* Ascending lists every id once. *)
LEMMA AscendingLists ==
  ASSUME NEW N \in Nat, NEW T \in SUBSET (0 .. N - 1)
  PROVE  /\ Ascending(T) \in Seq(T) /\ Len(Ascending(T)) = Cardinality(T)
         /\ \A j, k \in 1 .. Cardinality(T) : j # k => Ascending(T)[j] # Ascending(T)[k]
         /\ \A t \in T : \E k \in 1 .. Cardinality(T) : Ascending(T)[k] = t
<1> DEFINE c == Cardinality(T)
           s == Ascending(T)
<1>1. IsFiniteSet(T) /\ c \in Nat
  <2>1. IsFiniteSet(0 .. N - 1)
    BY FS_Interval
  <2>. QED  BY <2>1, FS_Subset, FS_CardinalityType
<1>2. Ascends(s, T)
  BY AscendingExists DEF Ascending, Ascends
<1>. HIDE DEF s
<1>3. s \in [1 .. c -> T] /\ \A j, k \in 1 .. c : j < k => s[j] < s[k]
  BY <1>2 DEF Ascends
<1>. HIDE DEF c
<1>4. s \in Seq(T) /\ Len(s) = c
  BY <1>1, <1>3
<1>5. ASSUME NEW j \in 1 .. c, NEW k \in 1 .. c, j # k
      PROVE  s[j] # s[k]
  <2>1. s[j] \in Int /\ s[k] \in Int
    <3>1. s[j] \in 0 .. N - 1 /\ s[k] \in 0 .. N - 1
      BY <1>3
    <3>. QED  BY <3>1
  <2>2. j < k \/ k < j
    BY <1>1, <1>5
  <2>3. s[j] < s[k] \/ s[k] < s[j]
    BY <1>3, <2>2
  <2>. QED  BY <2>1, <2>3
<1>6. s \in Surjection(1 .. c, T)
  <2>1. s \in Injection(1 .. c, T)
    BY <1>3, <1>5 DEF Injection, IsInjective
  <2>2. Cardinality(1 .. c) = Cardinality(T) /\ IsFiniteSet(1 .. c)
    BY <1>1, FS_Interval DEF c
  <2>. QED  BY <1>1, <2>1, <2>2, FS_Injection
<1>7. \A t \in T : \E k \in 1 .. c : s[k] = t
  BY <1>6 DEF Surjection
<1>. QED  BY <1>4, <1>5, <1>7 DEF c, s

(* The sequence s lists the members of S, each of them once.               *)
Lists(s, S) ==
  /\ Len(s) \in Nat
  /\ S = {s[k] : k \in 1 .. Len(s)}
  /\ \A j, k \in 1 .. Len(s) : j # k => s[j] # s[k]

(* InOrder lists the children of a node. *)
LEMMA InOrderLists ==
  ASSUME NEW r, NEW N \in Nat, Kids(r) \subseteq 0 .. N - 1, r.same \cap r.diff = {}
  PROVE  Lists(InOrder(r), Kids(r))
<1> DEFINE a == Ascending(r.same)
           b == Ascending(r.diff)
           m == Cardinality(r.same)
           n == Cardinality(r.diff)
           s == a \o b
           D == 0 .. N - 1
<1>1. r.same \in SUBSET D /\ r.diff \in SUBSET D
  BY DEF Kids
<1>2. /\ a \in Seq(r.same) /\ Len(a) = m
      /\ \A j, k \in 1 .. m : j # k => a[j] # a[k]
      /\ \A t \in r.same : \E k \in 1 .. m : a[k] = t
  BY <1>1, AscendingLists
<1>3. /\ b \in Seq(r.diff) /\ Len(b) = n
      /\ \A j, k \in 1 .. n : j # k => b[j] # b[k]
      /\ \A t \in r.diff : \E k \in 1 .. n : b[k] = t
  BY ZenonT(60), <1>1, AscendingLists
<1>. HIDE DEF a, b, m, n
<1>4. m \in Nat /\ n \in Nat
  BY <1>2, <1>3, LenProperties
<1>5. a \in Seq(D) /\ b \in Seq(D)
  BY SMTT(60), <1>1, <1>2, <1>3
<1>6. /\ Len(s) = m + n
      /\ \A k \in 1 .. m + n : s[k] = IF k <= m THEN a[k] ELSE b[k - m]
  <2>. HIDE DEF D
  <2>1. /\ Len(s) = Len(a) + Len(b)
        /\ \A k \in 1 .. Len(a) + Len(b) : s[k] = IF k <= Len(a) THEN a[k] ELSE b[k - Len(a)]
    BY <1>5, ConcatProperties
  <2>. HIDE DEF s
  <2>. QED  BY <1>2, <1>3, <2>1
<1>. HIDE DEF s
<1>7. /\ \A k \in 1 .. m : k \in 1 .. m + n /\ s[k] = a[k] /\ a[k] \in r.same
      /\ \A k \in 1 .. n : m + k \in 1 .. m + n /\ s[m + k] = b[k] /\ b[k] \in r.diff
      /\ \A k \in 1 .. m + n : k \in 1 .. m \/ (k - m \in 1 .. n /\ m + (k - m) = k)
  <2>1. \A k \in 1 .. m : k \in 1 .. m + n /\ k <= m
    BY <1>4
  <2>2. \A k \in 1 .. n : m + k \in 1 .. m + n /\ ~(m + k <= m) /\ (m + k) - m = k
    BY <1>4
  <2>3. \A k \in 1 .. m + n : k \in 1 .. m \/ (k - m \in 1 .. n /\ m + (k - m) = k)
    BY <1>4
  <2>4. \A k \in 1 .. m : a[k] \in r.same
    BY <1>2
  <2>5. \A k \in 1 .. n : b[k] \in r.diff
    BY <1>3
  <2>. QED  BY <1>6, <2>1, <2>2, <2>3, <2>4, <2>5
<1>8. Kids(r) = {s[k] : k \in 1 .. m + n}
  <2>1. ASSUME NEW t \in Kids(r) PROVE \E k \in 1 .. m + n : s[k] = t
    <3>1. CASE t \in r.same
      BY <1>2, <1>7, <3>1
    <3>2. CASE t \in r.diff
      <4>1. PICK k \in 1 .. n : b[k] = t
        BY <1>3, <3>2
      <4>2. m + k \in 1 .. m + n /\ s[m + k] = t
        BY <1>7, <4>1
      <4>. QED  BY <4>2
    <3>. QED  BY <3>1, <3>2 DEF Kids
  <2>2. ASSUME NEW k \in 1 .. m + n PROVE s[k] \in Kids(r)
    <3>1. CASE k \in 1 .. m
      BY <1>7, <3>1 DEF Kids
    <3>2. CASE k - m \in 1 .. n /\ m + (k - m) = k
      <4>1. s[m + (k - m)] = b[k - m] /\ b[k - m] \in r.diff
        BY <1>7, <3>2
      <4>. QED  BY <3>2, <4>1 DEF Kids
    <3>. QED  BY <1>7, <3>1, <3>2
  <2>. QED  BY <2>1, <2>2
<1>9. ASSUME NEW j \in 1 .. m + n, NEW k \in 1 .. m + n, j # k
      PROVE  s[j] # s[k]
  <2> DEFINE Same(i) == i \in 1 .. m /\ s[i] = a[i] /\ a[i] \in r.same
             Diff(i) == i - m \in 1 .. n /\ s[i] = b[i - m] /\ b[i - m] \in r.diff
  <2>1. ASSUME NEW i \in 1 .. m + n PROVE Same(i) \/ Diff(i)
    <3>1. CASE i \in 1 .. m
      BY <1>7, <3>1
    <3>2. CASE i - m \in 1 .. n /\ m + (i - m) = i
      <4>1. s[m + (i - m)] = b[i - m] /\ b[i - m] \in r.diff
        BY <1>7, <3>2
      <4>. QED  BY <3>2, <4>1
    <3>. QED  BY <1>7, <3>1, <3>2
  <2>2. CASE Same(j) /\ Same(k)
    BY <1>2, <1>9, <2>2
  <2>3. CASE Diff(j) /\ Diff(k)
    <3>1. j - m # k - m
      BY <1>4, <1>9
    <3>. QED  BY <1>3, <2>3, <3>1
  <2>4. CASE Same(j) /\ Diff(k)
    BY <2>4
  <2>5. CASE Diff(j) /\ Same(k)
    BY <2>5
  <2>. HIDE DEF Same, Diff
  <2>. QED  BY <2>1, <2>2, <2>3, <2>4, <2>5
<1>10. Lists(s, Kids(r))
  BY <1>4, <1>6, <1>8, <1>9 DEF Lists
<1>. QED  BY <1>10 DEF InOrder, s, a, b

(* The insertion of a list of nodes is a walk. *)
LEMMA InsertIsWalk ==
  ASSUME NEW p, NEW kids, Len(kids) \in Nat
  PROVE  \E h : /\ Walks(h, "insert", kids, p, Len(kids))
                /\ InsertAll(p, kids) = h[Len(kids)]
<1> DEFINE n == Len(kids)
           After(g) == g = [k \in 0 .. n |->
              IF k = 0 THEN p
              ELSE Strictly(LAMBDA q : insert_into_branching_heap(q, kids[k]), g[k - 1])]
<1>1. InsertAll(p, kids) = (CHOOSE g : After(g))[n]
  BY DEF InsertAll, Strictly
<1>. HIDE DEF n
<1>2. \A g : Walks(g, "insert", kids, p, n) <=> After(g)
  BY DEF Walks, StepOf, Strictly
<1>3. \E g : After(g)
  BY <1>2, WalkExists DEF n
<1>. QED  BY <1>1, <1>2, <1>3 DEF n

(* So it is with backups. *)
LEMMA BackupIsWalk ==
  ASSUME NEW p, NEW kids, Len(kids) \in Nat
  PROVE  \E h : /\ Walks(h, "insert and back up", kids, p, Len(kids))
                /\ InsertAndBackupAll(p, kids) = h[Len(kids)]
<1> DEFINE n == Len(kids)
           After(g) == g = [k \in 0 .. n |->
              IF k = 0 THEN p
              ELSE Strictly(LAMBDA q : InsertAndBackup(q, kids[k]), g[k - 1])]
<1>1. InsertAndBackupAll(p, kids) = (CHOOSE g : After(g))[n]
  BY DEF InsertAndBackupAll, Strictly
<1>. HIDE DEF n
<1>2. \A g : Walks(g, "insert and back up", kids, p, n) <=> After(g)
  BY DEF Walks, StepOf, Strictly
<1>3. \E g : After(g)
  BY <1>2, WalkExists DEF n
<1>. QED  BY <1>1, <1>2, <1>3 DEF n

(* The walks that insert nodes. *)
Inserts(walk) == walk = "insert" \/ walk = "insert and back up"

(* A step of either inserts a node, and writes a backup at most. *)
LEMMA StepInserts ==
  ASSUME NEW walk, Inserts(walk), NEW kids, NEW k, NEW p,
         IsProblem(insert_into_branching_heap(p, kids[k]))
  PROVE  LET q == StepOf(walk, kids, k, p)
             r == insert_into_branching_heap(p, kids[k])
         IN  /\ IsProblem(q) /\ q.nodes = r.nodes /\ q.heap = r.heap
             /\ q.next = r.next /\ q.ub = r.ub
<1> DEFINE r == insert_into_branching_heap(p, kids[k])
<1>1. \/ StepOf(walk, kids, k, p) = r
      \/ StepOf(walk, kids, k, p) = backup_colordata(r, kids[k])
  BY DEF Inserts, StepOf, InsertAndBackup, Strictly
<1>. HIDE DEF r
<1>2. /\ IsProblem(backup_colordata(r, kids[k])) /\ backup_colordata(r, kids[k]).nodes = r.nodes
      /\ backup_colordata(r, kids[k]).heap = r.heap /\ backup_colordata(r, kids[k]).next = r.next
      /\ backup_colordata(r, kids[k]).ub = r.ub
  BY BackedUp DEF r
<1>3. IsProblem(r)
  BY DEF r
<1>. QED  BY <1>1, <1>2, <1>3 DEF r

(* Inserting nodes that were out of the heap, all of them. *)
LEMMA InsertsAccount ==
  ASSUME NEW p, NEW out, Accounts(p, out), NEW S, S \subseteq out,
         NEW kids, Lists(kids, S), NEW walk, Inserts(walk),
         NEW h, Walks(h, walk, kids, p, Len(kids))
  PROVE  /\ Accounts(h[Len(kids)], out \ S)
         /\ Keeps(p, h[Len(kids)], S)
<1> DEFINE n == Len(kids)
           Done(k) == {kids[j] : j \in 1 .. k}
<1>1. n \in Nat /\ S = Done(n) /\ \A j, k \in 1 .. n : j # k => kids[j] # kids[k]
  BY DEF Lists
<1>2. Walks(h, walk, kids, p, n)
  OBVIOUS
<1>. HIDE DEF n
<1> DEFINE T == {k \in Nat : k <= n => Accounts(h[k], out \ Done(k)) /\ Keeps(p, h[k], S)}
<1>3. 0 \in T
  <2>1. h[0] = p
    BY <1>1, <1>2 DEF Walks
  <2>2. out \ Done(0) = out
    OBVIOUS
  <2>. QED  BY <2>1, <2>2, KeepsTwice
<1>4. ASSUME NEW k \in T PROVE k + 1 \in T
  <2>1. SUFFICES ASSUME k + 1 <= n
                 PROVE  Accounts(h[k + 1], out \ Done(k + 1)) /\ Keeps(p, h[k + 1], S)
    OBVIOUS
  <2>2. k \in Nat /\ Accounts(h[k], out \ Done(k)) /\ Keeps(p, h[k], S)
    BY <1>1, <2>1
  <2>3. k + 1 \in 1 .. n /\ k + 1 \in 0 .. n /\ k + 1 # 0 /\ (k + 1) - 1 = k
    BY <1>1, <2>1, <2>2
  <2> DEFINE i == kids[k + 1]
  <2>4. h[k + 1] = StepOf(walk, kids, k + 1, h[k])
    BY <1>2, <2>3 DEF Walks
  <2>5. i \in S /\ i \notin Done(k)
    <3>1. \A j \in 1 .. k : j \in 1 .. n /\ j # k + 1
      BY <1>1, <2>1, <2>2
    <3>2. \A j \in 1 .. k : kids[j] # i
      BY <1>1, <2>3, <3>1
    <3>. QED  BY <1>1, <2>3, <3>2
  <2>6. (out \ Done(k)) \ {i} = out \ Done(k + 1)
    <3>1. \A j : j \in 1 .. k + 1 <=> j \in 1 .. k \/ j = k + 1
      BY <2>2
    <3>. QED  BY <3>1
  <2>. HIDE DEF i, Done
  <2>7. /\ Accounts(h[k + 1], (out \ Done(k)) \ {i})
        /\ Keeps(h[k], h[k + 1], {i})
    <3> DEFINE q == insert_into_branching_heap(h[k], i)
    <3>1. i \in out \ Done(k)
      BY <2>5
    <3>2. Accounts(q, (out \ Done(k)) \ {i}) /\ Keeps(h[k], q, {i})
      BY <2>2, <3>1, InsertAccounts
    <3>3. IsProblem(q)
      BY <3>2 DEF Accounts, Tree
    <3>4. /\ IsProblem(h[k + 1]) /\ h[k + 1].nodes = q.nodes
          /\ h[k + 1].heap = q.heap /\ h[k + 1].next = q.next /\ h[k + 1].ub = q.ub
      BY <2>4, <3>3, StepInserts DEF i
    <3>. HIDE DEF q
    <3>5. Keeps(h[k], h[k + 1], {i})
      BY <3>2, <3>4 DEF Keeps
    <3>. QED  BY <3>2, <3>4, <3>5, SameNodesAccount
  <2>8. Keeps(p, h[k + 1], S)
    <3>1. {i} \subseteq S /\ S \subseteq S
      BY <2>5
    <3>2. Keeps(p, h[k], S) /\ Keeps(h[k], h[k + 1], {i})
      BY <2>2, <2>7
    <3>. QED  BY ONLY SMTT(60), <3>1, <3>2, KeepsTwice
  <2>. QED  BY <2>6, <2>7, <2>8
<1>5. T = Nat
  <2>. HIDE DEF T
  <2>. QED  BY <1>3, <1>4, SetInduction DEF T
<1>6. Accounts(h[n], out \ Done(n)) /\ Keeps(p, h[n], S)
  <2>. HIDE DEF Done
  <2>1. n \in T
    BY <1>1, <1>5
  <2>. QED  BY <1>1, <2>1
<1>. QED  BY <1>1, <1>6 DEF n

(* With or without backups. *)
LEMMA InsertAllAccounts ==
  ASSUME NEW p, NEW out, Accounts(p, out), NEW S, S \subseteq out,
         NEW kids, Lists(kids, S)
  PROVE  /\ Accounts(InsertAll(p, kids), out \ S)
         /\ Keeps(p, InsertAll(p, kids), S)
         /\ Accounts(InsertAndBackupAll(p, kids), out \ S)
         /\ Keeps(p, InsertAndBackupAll(p, kids), S)
<1>1. Len(kids) \in Nat
  BY DEF Lists
<1>2. PICK h : /\ Walks(h, "insert", kids, p, Len(kids))
               /\ InsertAll(p, kids) = h[Len(kids)]
  BY <1>1, InsertIsWalk
<1>3. PICK g : /\ Walks(g, "insert and back up", kids, p, Len(kids))
               /\ InsertAndBackupAll(p, kids) = g[Len(kids)]
  BY <1>1, BackupIsWalk
<1>4. Accounts(h[Len(kids)], out \ S) /\ Keeps(p, h[Len(kids)], S)
  BY <1>2, InsertsAccount DEF Inserts
<1>5. Accounts(g[Len(kids)], out \ S) /\ Keeps(p, g[Len(kids)], S)
  BY <1>3, InsertsAccount DEF Inserts
<1>. QED  BY <1>2, <1>3, <1>4, <1>5

-----------------------------------------------------------------------------
(* Finished subtrees are collected.                                        *)

(* The colourings of children become the parent's: its bound changes. *)
LEMMA CollectedKeeps ==
  ASSUME NEW p, IsProblem(p), NEW i, NEW kids
  PROVE  SameTree(p, Collected(p, i, kids))
<1>1. PICK x : \/ Collected(p, i, kids) = p
               \/ Collected(p, i, kids) = WithUb(WithBest(p, i, x), i, x)
  BY DEF Collected, WithUb, WithBest
<1> DEFINE q == WithBest(p, i, x)
           r == WithUb(q, i, x)
<1>2. Changed(p, i, p.nodes[i].status, p.heap, q)
  BY BestWritten
<1>. HIDE DEF q
<1>3. Changed(q, i, q.nodes[i].status, q.heap, r)
  BY <1>2, UbWritten DEF Changed
<1>. HIDE DEF r
<1>4. SameTree(p, q) /\ SameTree(q, r)
  BY <1>2, <1>3, ChangedTwice
<1>5. SameTree(p, r)
  BY <1>4, SameTreeTwice
<1>. QED  BY SMTT(60), <1>1, <1>5, SameTreeTwice DEF q, r

(* In q the subtrees below i that were finished are gone.                  *)
Collects(p, i, q) ==
  /\ Tree(q) /\ q.heap = p.heap /\ q.next = p.next /\ q.ub = p.ub
  /\ i \in DOMAIN q.nodes
  /\ \A n \in DOMAIN p.nodes : n \notin Kids(p.nodes[i]) => n \in DOMAIN q.nodes
  /\ \A n \in DOMAIN q.nodes : /\ n \in DOMAIN p.nodes
                               /\ q.nodes[n].parent = p.nodes[n].parent
                               /\ q.nodes[n].opt = p.nodes[n].opt
                               /\ q.nodes[n].status = p.nodes[n].status
  /\ Kids(q.nodes[i]) \subseteq Kids(p.nodes[i])
  /\ \A n : n # i => (n \in Open(q) <=> n \in Open(p))

Without(r, kids) == [r EXCEPT !.same = @ \ kids, !.diff = @ \ kids]

(* A colordata that loses some of its children. *)
LEMMA WithoutIsWritten ==
  ASSUME NEW r, IsColordata(r), NEW kids
  PROVE  /\ IsColordata(Without(r, kids)) /\ Without(r, kids).parent = r.parent
         /\ Without(r, kids).depth = r.depth /\ Without(r, kids).status = r.status
         /\ Without(r, kids).same = r.same \ kids /\ Without(r, kids).diff = r.diff \ kids
         /\ Without(r, kids).opt = r.opt
<1> DEFINE u == [r EXCEPT !.same = r.same \ kids]
           q == [u EXCEPT !.diff = u.diff \ kids]
           same == r.same \ kids
           diff == r.diff \ kids
<1>1. Without(r, kids) = q
  BY DEF Without
<1>. HIDE DEF same
<1>2. u = [parent |-> r.parent, depth |-> r.depth, status |-> r.status, lb |-> r.lb,
           ub |-> r.ub, best |-> r.best, same |-> same, diff |-> r.diff,
           opt |-> r.opt, lp |-> r.lp, est |-> r.est,
           deepFirst |-> r.deepFirst, whole |-> r.whole]
  BY DEF IsColordata, same
<1>. HIDE DEF u
<1>3. q = [parent |-> r.parent, depth |-> r.depth, status |-> r.status, lb |-> r.lb,
           ub |-> r.ub, best |-> r.best, same |-> same, diff |-> diff,
           opt |-> r.opt, lp |-> r.lp, est |-> r.est,
           deepFirst |-> r.deepFirst, whole |-> r.whole]
  BY <1>2
<1>. HIDE DEF q, diff
<1>4. IsColordata(q)
  BY <1>3 DEF IsColordata
<1>5. /\ q.parent = r.parent /\ q.depth = r.depth /\ q.status = r.status
      /\ q.same = same /\ q.diff = diff /\ q.opt = r.opt
  BY <1>3
<1>. QED  BY <1>1, <1>4, <1>5 DEF same, diff

(* Freeing children that are finished.  They have no children themselves.  *)
LEMMA FreedCollects ==
  ASSUME NEW p, Tree(p), NEW i \in DOMAIN p.nodes, NEW kids, kids \subseteq Kids(p.nodes[i]),
         \A k \in kids : p.nodes[k].status >= finished
  PROVE  Collects(p, i, Freed(p, i, kids))
<1> DEFINE q == Freed(p, i, kids)
           cd_i == [p.nodes[i] EXCEPT !.same = @ \ kids, !.diff = @ \ kids]
           node(n) == IF n # i THEN p.nodes[n] ELSE cd_i
           left(S, n) == IF n = i THEN S \ kids ELSE S
<1>1. q = [nodes |-> [n \in DOMAIN p.nodes \ kids |-> node(n)], heap |-> p.heap,
           ub |-> p.ub, next |-> p.next, strategy |-> p.strategy, files |-> p.files]
  <2> DEFINE nodes == [n \in DOMAIN p.nodes \ kids |-> node(n)]
  <2>1. q = [p EXCEPT !.nodes = nodes]
    BY DEF Freed
  <2>2. IsProblem(p)
    BY DEF Tree
  <2>. HIDE DEF nodes, q
  <2>3. q = [nodes |-> nodes, heap |-> p.heap, ub |-> p.ub, next |-> p.next,
             strategy |-> p.strategy, files |-> p.files]
    BY <2>1, <2>2 DEF IsProblem
  <2>. QED  BY <2>3 DEF nodes
<1>2. ASSUME NEW n \in DOMAIN p.nodes
      PROVE  /\ IsColordata(node(n)) /\ node(n).parent = p.nodes[n].parent
             /\ node(n).depth = p.nodes[n].depth /\ node(n).status = p.nodes[n].status
             /\ node(n).opt = p.nodes[n].opt
             /\ node(n).same = left(p.nodes[n].same, n)
             /\ node(n).diff = left(p.nodes[n].diff, n)
  <2>1. IsColordata(p.nodes[n])
    BY DEF Tree, IsProblem
  <2>2. CASE n # i
    BY <2>1, <2>2
  <2>3. CASE n = i
    <3>1. cd_i = Without(p.nodes[i], kids)
      BY DEF Without
    <3>. HIDE DEF cd_i
    <3>. QED  BY <2>1, <2>3, <3>1, WithoutIsWritten
  <2>. QED  BY <2>2, <2>3
<1>. HIDE DEF node
<1>3. /\ q.heap = p.heap /\ q.next = p.next /\ q.ub = p.ub
      /\ DOMAIN q.nodes = DOMAIN p.nodes \ kids
      /\ \A n \in DOMAIN q.nodes : q.nodes[n] = node(n)
      /\ q = [nodes |-> q.nodes, heap |-> q.heap, ub |-> q.ub, next |-> q.next,
              strategy |-> q.strategy, files |-> q.files]
      /\ q.nodes = [n \in DOMAIN q.nodes |-> q.nodes[n]]
  BY <1>1
<1>. HIDE DEF q
<1>4. IsProblem(q)
  BY <1>2, <1>3 DEF IsProblem
<1>5. \A n \in DOMAIN p.nodes : InPlace(p.nodes, n)
  BY DEF Tree
<1>6. ASSUME NEW k \in kids
      PROVE  /\ k \in DOMAIN p.nodes /\ p.nodes[k].parent = i /\ Kids(p.nodes[k]) = {}
             /\ k # i /\ ~(p.nodes[k].status < finished)
  <2>1. k \in DOMAIN p.nodes /\ p.nodes[k].parent = i
    BY <1>5 DEF InPlace
  <2>2. p.nodes[k].status >= finished /\ p.nodes[k].status \in Int /\ Kids(p.nodes[k]) = {}
    BY <1>5, <2>1 DEF InPlace
  <2>3. ~(p.nodes[k].status < finished)
    BY <2>2 DEF finished
  <2>. QED  BY <2>1, <2>2, <2>3
<1>7. \A n \in DOMAIN q.nodes :
        /\ n \in DOMAIN p.nodes
        /\ q.nodes[n].parent = p.nodes[n].parent /\ q.nodes[n].depth = p.nodes[n].depth
        /\ q.nodes[n].status = p.nodes[n].status /\ q.nodes[n].opt = p.nodes[n].opt
        /\ q.nodes[n].same = left(p.nodes[n].same, n)
        /\ q.nodes[n].diff = left(p.nodes[n].diff, n)
        /\ Kids(q.nodes[n]) = left(Kids(p.nodes[n]), n)
  BY ZenonT(60), <1>2, <1>3 DEF Kids
<1>8. ASSUME NEW n \in DOMAIN q.nodes
      PROVE  InPlace(q.nodes, n)
  <2>1. n \in DOMAIN p.nodes /\ InPlace(p.nodes, n)
    BY <1>3, <1>5
  <2>2. /\ q.nodes[n].depth \in Nat /\ q.nodes[n].status \in Int
        /\ q.nodes[n].same \cap q.nodes[n].diff = {}
        /\ q.nodes[n].status >= finished => Kids(q.nodes[n]) = {}
    BY <1>7, <2>1 DEF InPlace
  <2>3. ASSUME NEW k \in Kids(q.nodes[n]) PROVE k \in DOMAIN q.nodes /\ q.nodes[k].parent = n
    <3>1. k \in Kids(p.nodes[n])
      BY <1>7
    <3>2. k \in DOMAIN p.nodes /\ p.nodes[k].parent = n
      BY <2>1, <3>1 DEF InPlace
    <3>3. k \notin kids
      BY ZenonT(60), <1>6, <1>7, <3>2
    <3>. QED  BY <1>3, <1>7, <3>2, <3>3
  <2>4. ASSUME q.nodes[n].parent # None
        PROVE  q.nodes[n].parent \in DOMAIN q.nodes /\ n \in Kids(q.nodes[q.nodes[n].parent])
    <3> DEFINE m == q.nodes[n].parent
    <3>1. m = p.nodes[n].parent
      BY <1>7
    <3>. HIDE DEF m
    <3>2. m \in DOMAIN p.nodes /\ n \in Kids(p.nodes[m])
      BY <2>1, <2>4, <3>1 DEF InPlace, m
    <3>3. m \notin kids /\ n \notin kids
      BY <1>3, <1>6, <3>2
    <3>4. m \in DOMAIN q.nodes
      BY <1>3, <3>2, <3>3
    <3>5. n \in Kids(q.nodes[m])
      BY <1>7, <3>2, <3>3, <3>4
    <3>. QED  BY <3>4, <3>5 DEF m
  <2>. QED  BY <2>2, <2>3, <2>4 DEF InPlace
<1>9. Tree(q)
  BY <1>3, <1>4, <1>8 DEF Tree
<1>10. ASSUME NEW n, n # i PROVE n \in Open(q) <=> n \in Open(p)
  BY <1>3, <1>6, <1>7, <1>10 DEF Open
<1>11. Collects(p, i, q)
  BY <1>3, <1>6, <1>7, <1>9, <1>10 DEF Collects
<1>. QED  BY <1>11 DEF q

(* A colordata that loses children keeps its values. *)
LEMMA WithoutKeepsValues ==
  ASSUME NEW r, IsColordata(r), NEW kids
  PROVE  LET s == Without(r, kids)
         IN  /\ s.lp = r.lp /\ s.lb = r.lb /\ s.ub = r.ub /\ s.best = r.best
<1> DEFINE u == [r EXCEPT !.same = r.same \ kids]
           q == [u EXCEPT !.diff = u.diff \ kids]
           same == r.same \ kids
           diff == r.diff \ kids
<1>1. Without(r, kids) = q
  BY DEF Without
<1>. HIDE DEF same
<1>2. u = [parent |-> r.parent, depth |-> r.depth, status |-> r.status, lb |-> r.lb,
           ub |-> r.ub, best |-> r.best, same |-> same, diff |-> r.diff,
           opt |-> r.opt, lp |-> r.lp, est |-> r.est,
           deepFirst |-> r.deepFirst, whole |-> r.whole]
  BY DEF IsColordata, same
<1>. HIDE DEF u
<1>3. q = [parent |-> r.parent, depth |-> r.depth, status |-> r.status, lb |-> r.lb,
           ub |-> r.ub, best |-> r.best, same |-> same, diff |-> diff,
           opt |-> r.opt, lp |-> r.lp, est |-> r.est,
           deepFirst |-> r.deepFirst, whole |-> r.whole]
  BY <1>2
<1>. HIDE DEF q, diff
<1>. QED  BY <1>1, <1>3

(* In q some subtrees below i are gone: the other nodes are as they were.  *)
Collapses(p, i, q) ==
  /\ DOMAIN q.nodes \subseteq DOMAIN p.nodes /\ i \in DOMAIN q.nodes /\ q.ub = p.ub /\ q.next = p.next
  /\ \A n \in DOMAIN q.nodes : n # i => q.nodes[n] = p.nodes[n]
  /\ LET r == p.nodes[i]
         s == q.nodes[i]
     IN  s.parent = r.parent /\ s.depth = r.depth /\ s.opt = r.opt /\ s.status = r.status

(* Freeing finished children, with what the other nodes and the values of  *)
(* the parent have to do with it. *)
LEMMA FreedCollapses ==
  ASSUME NEW p, Tree(p), NEW i \in DOMAIN p.nodes, NEW kids, kids \subseteq Kids(p.nodes[i]),
         \A k \in kids : p.nodes[k].status >= finished
  PROVE  LET q == Freed(p, i, kids)
             r == p.nodes[i]
             s == q.nodes[i]
         IN  /\ Tree(q) /\ Collapses(p, i, q) /\ DOMAIN q.nodes = DOMAIN p.nodes \ kids
             /\ s.same = r.same \ kids /\ s.diff = r.diff \ kids
             /\ s.lp = r.lp /\ s.lb = r.lb /\ s.ub = r.ub /\ s.best = r.best
<1> DEFINE q == Freed(p, i, kids)
           r == p.nodes[i]
           s == Without(r, kids)
           node(n) == IF n # i THEN p.nodes[n] ELSE s
<1>1. Collects(p, i, q)
  BY FreedCollects
<1>2. q = [p EXCEPT !.nodes = [n \in DOMAIN p.nodes \ kids |-> node(n)]]
  BY DEF Freed, Without
<1>. HIDE DEF s
<1>3. IsProblem(p) /\ IsColordata(r)
  BY DEF Tree, IsProblem
<1>4. /\ DOMAIN q.nodes = DOMAIN p.nodes \ kids /\ q.ub = p.ub /\ q.next = p.next
      /\ \A n \in DOMAIN q.nodes : q.nodes[n] = node(n)
  <2> DEFINE nodes == [n \in DOMAIN p.nodes \ kids |-> node(n)]
  <2>1. q = [p EXCEPT !.nodes = nodes]
    BY <1>2
  <2>. HIDE DEF nodes, q
  <2>2. q = [nodes |-> nodes, heap |-> p.heap, ub |-> p.ub, next |-> p.next,
             strategy |-> p.strategy, files |-> p.files]
    BY <1>3, <2>1 DEF IsProblem
  <2>3. q.nodes = nodes /\ q.ub = p.ub /\ q.next = p.next
    BY <2>2
  <2>. HIDE DEF node
  <2>. QED  BY <2>3 DEF nodes
<1>5. /\ s.parent = r.parent /\ s.depth = r.depth /\ s.status = r.status
      /\ s.same = r.same \ kids /\ s.diff = r.diff \ kids
      /\ s.opt = r.opt /\ s.lp = r.lp /\ s.lb = r.lb /\ s.ub = r.ub /\ s.best = r.best
  BY <1>3, WithoutIsWritten, WithoutKeepsValues DEF s
<1>6. Tree(q) /\ i \in DOMAIN q.nodes
  BY <1>1 DEF Collects
<1>. HIDE DEF q
<1>7. /\ q.nodes[i] = s
      /\ \A n \in DOMAIN q.nodes : n # i => q.nodes[n] = p.nodes[n]
  BY <1>4, <1>6
<1>. HIDE DEF node, r
<1>8. Collapses(p, i, q)
  BY <1>4, <1>5, <1>6, <1>7 DEF Collapses, r
<1>. QED  BY <1>4, <1>5, <1>6, <1>7, <1>8 DEF q, r

(* The same places and statuses make the same tree. *)
LEMMA SameTreeCollects ==
  ASSUME NEW p, Tree(p), NEW i \in DOMAIN p.nodes, NEW q, SameTree(p, q)
  PROVE  /\ Collects(p, i, q) /\ \A n : Kids(p.nodes[n]) = Kids(q.nodes[n]) \/ n \notin DOMAIN p.nodes
         /\ \A n \in DOMAIN p.nodes : q.nodes[n].same = p.nodes[n].same
                                      /\ q.nodes[n].diff = p.nodes[n].diff
<1> DEFINE status == p.nodes[i].status
<1>1. status \in Int /\ (status >= finished => Kids(p.nodes[i]) = {})
  BY DEF Tree, InPlace
<1>2. Changed(p, i, status, p.heap, q)
  BY DEF SameTree, Changed
<1>. HIDE DEF status
<1>3. Tree(q) /\ \A n : n # i => (n \in Open(q) <=> n \in Open(p))
  BY <1>1, <1>2, ChangeKeepsTree
<1>4. /\ DOMAIN q.nodes = DOMAIN p.nodes /\ q.heap = p.heap /\ q.next = p.next /\ q.ub = p.ub
      /\ \A n \in DOMAIN p.nodes :
           /\ q.nodes[n].parent = p.nodes[n].parent /\ q.nodes[n].opt = p.nodes[n].opt
           /\ q.nodes[n].status = p.nodes[n].status
           /\ q.nodes[n].same = p.nodes[n].same
           /\ q.nodes[n].diff = p.nodes[n].diff
           /\ Kids(q.nodes[n]) = Kids(p.nodes[n])
  BY DEF SameTree, SamePlace, Kids
<1>. QED  BY <1>3, <1>4 DEF Collects

(* Two collections at a node are one. *)
LEMMA CollectsTwice ==
  ASSUME NEW p, NEW i, NEW q, Collects(p, i, q), NEW r, Collects(q, i, r)
  PROVE  Collects(p, i, r)
BY DEF Collects

(* One branch of a node is collected, when all of it is finished. *)
LEMMA BranchCollects ==
  ASSUME NEW p, Tree(p), NEW i \in DOMAIN p.nodes, NEW kids, kids \subseteq Kids(p.nodes[i])
  PROVE  Collects(p, i, CollectBranch(p, i, kids))
<1> DEFINE q == Collected(p, i, kids)
<1>1. SameTree(p, p) /\ SameTree(p, q)
  BY SameTreeTwice, CollectedKeeps DEF Tree
<1>2. Collects(p, i, p) /\ Collects(p, i, q)
  BY <1>1, SameTreeCollects
<1>3. ASSUME AllFinished(p, kids)
      PROVE  Collects(p, i, Freed(q, i, kids))
  <2>. HIDE DEF q
  <2>1. Tree(q) /\ i \in DOMAIN q.nodes
    BY <1>2 DEF Collects
  <2>2. kids \subseteq Kids(q.nodes[i])
    BY <1>1, SameTreeCollects
  <2>3. \A k \in kids : k \in DOMAIN p.nodes /\ q.nodes[k].status = p.nodes[k].status
    <3>1. InPlace(p.nodes, i)
      BY DEF Tree
    <3>2. \A k \in kids : k \in DOMAIN p.nodes
      BY <3>1 DEF InPlace
    <3>. QED  BY <1>1, <3>2 DEF SameTree
  <2>4. \A k \in kids : q.nodes[k].status >= finished
    BY <1>3, <2>3 DEF AllFinished
  <2>5. Collects(q, i, Freed(q, i, kids))
    BY <2>1, <2>2, <2>4, FreedCollects
  <2>. QED  BY <1>2, <2>5, CollectsTwice
<1>. QED  BY <1>2, <1>3 DEF CollectBranch

(* Both branches are. *)
LEMMA BranchesCollect ==
  ASSUME NEW p, Tree(p), NEW i \in DOMAIN p.nodes
  PROVE  Collects(p, i, CollectBranches(p, i))
<1> DEFINE q == CollectBranch(p, i, p.nodes[i].same)
           r == CollectBranch(q, i, q.nodes[i].diff)
<1>1. CollectBranches(p, i) = r
  BY DEF CollectBranches, Strictly
<1>2. Collects(p, i, q)
  BY BranchCollects DEF Kids
<1>. HIDE DEF q
<1>3. Collects(q, i, r)
  BY <1>2, BranchCollects DEF Kids, Collects
<1>. QED  BY <1>1, <1>2, <1>3, CollectsTwice

(* All but the node at is accounted for.                                   *)
Nearly(p, out, at) ==
  /\ Tree(p)
  /\ p.heap \cap out = {} /\ at \notin p.heap \cup out
  /\ at # None => at \in DOMAIN p.nodes
  /\ \A n : n # at => (n \in Open(p) <=> n \in p.heap \cup out)

(* The nodes of q were in p with the same graphs, and the root stays.      *)
Graphs(p, q) ==
  /\ DOMAIN q.nodes \subseteq DOMAIN p.nodes /\ q.ub = p.ub /\ q.next = p.next
  /\ \A n \in DOMAIN q.nodes : /\ q.nodes[n].opt = p.nodes[n].opt
                               /\ q.nodes[n].parent = p.nodes[n].parent
  /\ Root \in DOMAIN p.nodes /\ p.nodes[Root].parent = None => Root \in DOMAIN q.nodes

(* Graphs that are kept twice are kept. *)
LEMMA GraphsTwice ==
  ASSUME NEW p, NEW q, NEW r
  PROVE  /\ Graphs(p, p)
         /\ Graphs(p, q) /\ Graphs(q, r) => Graphs(p, r)
BY DEF Graphs

(* Collecting and keeping the places keep the graphs. *)
LEMMA CollectsGraphs ==
  ASSUME NEW p, Tree(p), NEW i \in DOMAIN p.nodes, NEW q
  PROVE  /\ Collects(p, i, q) => Graphs(p, q)
         /\ \A S : Keeps(p, q, S) => Graphs(p, q)
<1>1. ASSUME Collects(p, i, q) PROVE Graphs(p, q)
  <2>1. InPlace(p.nodes, i) /\ i # None
    BY DEF Tree, None
  <2>2. Root \in Kids(p.nodes[i]) => p.nodes[Root].parent # None
    BY <2>1 DEF InPlace
  <2>. QED  BY <1>1, <2>2 DEF Collects, Graphs
<1>2. ASSUME NEW S, Keeps(p, q, S) PROVE Graphs(p, q)
  BY <1>2 DEF Keeps, SamePlace, Graphs
<1>. QED  BY <1>1, <1>2

(* The heap is the same, and the nodes of S are there with their status.   *)
Spares(p, q, S) ==
  /\ q.heap = p.heap /\ Graphs(p, q)
  /\ \A n \in S : n \in DOMAIN q.nodes /\ q.nodes[n].status = p.nodes[n].status

(* One step of remove_finished_subtree up: all is accounted for behind it. *)
LEMMA CleanedAccounts ==
  ASSUME NEW s, NEW out, Nearly(s.p, out, s.at)
  PROVE  /\ Accounts(Cleaned(s).p, out) /\ Nearly(Cleaned(s).p, out, Cleaned(s).at)
         /\ Spares(s.p, Cleaned(s).p, out)
<1> DEFINE p == s.p
           i == s.at
           q == CollectBranches(p, i)
           r == backup_colordata(WithStatus(q, i, finished), i)
<1>1. ASSUME i = None
      PROVE  Accounts(p, out) /\ Spares(p, p, out)
  <2>1. None \notin Open(p)
    BY DEF Nearly, Open, Tree, None
  <2>2. Open(p) = p.heap \cup out
    BY <1>1, <2>1 DEF Nearly
  <2>3. Accounts(p, out)
    BY <2>2 DEF Nearly, Accounts
  <2>. QED  BY <2>2, <2>3, GraphsTwice DEF Spares, Open
<1>2. ASSUME i # None
      PROVE  /\ Tree(q) /\ i \in DOMAIN q.nodes /\ q.heap = p.heap
             /\ q.heap \cap out = {} /\ i \notin q.heap \cup out
             /\ \A n : n # i => (n \in Open(q) <=> n \in q.heap \cup out)
             /\ Spares(p, q, out)
  <2>1. Collects(p, i, q)
    BY <1>2, BranchesCollect DEF Nearly
  <2>0. Graphs(p, q)
    BY <1>2, <2>1, CollectsGraphs DEF Nearly
  <2>. HIDE DEF p, i, q
  <2>2. /\ Tree(q) /\ i \in DOMAIN q.nodes /\ q.heap = p.heap
        /\ \A n : n # i => (n \in Open(q) <=> n \in Open(p))
        /\ \A n \in DOMAIN q.nodes : q.nodes[n].status = p.nodes[n].status
    BY <2>1 DEF Collects
  <2>3. /\ q.heap \cap out = {} /\ i \notin q.heap \cup out
        /\ \A n : n # i => (n \in Open(q) <=> n \in q.heap \cup out)
    BY <2>2 DEF Nearly, p, i
  <2>4. \A n \in out : n \in DOMAIN q.nodes
    BY <2>3 DEF Open
  <2>. QED  BY <2>0, <2>2, <2>3, <2>4 DEF Spares
<1>3. ASSUME i # None, Kids(q.nodes[i]) # {}
      PROVE  Accounts(q, out) /\ Nearly(q, out, None)
  <2>. HIDE DEF p, i, q
  <2>1. i \notin Open(q)
    BY <1>3 DEF Open
  <2>2. Open(q) = q.heap \cup out
    BY <1>2, <1>3, <2>1
  <2>3. Accounts(q, out)
    BY <1>2, <1>3, <2>2 DEF Accounts
  <2>4. None \notin Open(q)
    BY <1>2, <1>3 DEF Tree, Open, None
  <2>5. Nearly(q, out, None)
    BY <1>2, <1>3, <2>2, <2>4 DEF Nearly
  <2>. QED  BY <2>3, <2>5
<1>4. ASSUME i # None, Kids(q.nodes[i]) = {}
      PROVE  Accounts(r, out) /\ Nearly(r, out, q.nodes[i].parent) /\ Spares(p, r, out)
  <2> DEFINE t == WithStatus(q, i, finished)
  <2>. HIDE DEF p, i, q
  <2>1. IsProblem(q)
    BY <1>2, <1>4 DEF Tree
  <2>2. Changed(q, i, finished, q.heap, t)
    BY <2>1, StatusWritten
  <2>. HIDE DEF t
  <2>3. SameTree(t, r)
    <3>1. IsProblem(t)
      BY <2>2 DEF Changed
    <3>. QED  BY <3>1, BackedUp DEF SameTree, SamePlace, t
  <2>4. Changed(q, i, finished, q.heap, r)
    BY <2>2, <2>3, ChangedTwice
  <2>. HIDE DEF r
  <2>5. finished \in Int /\ ~(finished < finished)
    BY DEF finished
  <2>6. /\ Tree(r) /\ Keeps(q, r, {i}) /\ i \notin Open(r)
        /\ \A n : n # i => (n \in Open(r) <=> n \in Open(q))
    BY <1>2, <1>4, <2>4, <2>5, ChangeKeepsTree
  <2>7. r.heap = q.heap
    BY <2>4 DEF Changed
  <2>8. Open(r) = r.heap \cup out
    BY <1>2, <1>4, <2>6, <2>7
  <2>9. Accounts(r, out)
    BY <1>2, <1>4, <2>6, <2>7, <2>8 DEF Accounts
  <2>10. Spares(p, r, out)
    <3>1. Graphs(q, r)
      BY <1>2, <1>4, <2>6, CollectsGraphs
    <3>. QED  BY <1>2, <1>4, <2>6, <2>7, <3>1, GraphsTwice DEF Spares, Keeps
  <2> DEFINE m == q.nodes[i].parent
  <2>11. m # None => m \in DOMAIN r.nodes /\ Kids(r.nodes[m]) # {}
    <3>1. InPlace(r.nodes, i) /\ r.nodes[i].parent = m
      BY <1>2, <1>4, <2>6 DEF Tree, Keeps, SamePlace
    <3>. QED  BY <3>1 DEF InPlace
  <2>12. m \notin Open(r)
    <3>1. None \notin Open(r)
      BY <2>6 DEF Tree, Open, None
    <3>. QED  BY SMTT(60), <2>11, <3>1 DEF Open
  <2>. HIDE DEF m
  <2>13. Nearly(r, out, m)
    BY <1>2, <1>4, <2>6, <2>7, <2>8, <2>11, <2>12 DEF Nearly
  <2>. QED  BY <2>9, <2>10, <2>13 DEF m
<1>5. Cleaned(s) = IF i = None THEN s
                   ELSE IF Kids(q.nodes[i]) # {} THEN [p |-> q, at |-> None]
                   ELSE [p |-> r, at |-> q.nodes[i].parent]
  BY DEF Cleaned, Strictly, FinishedOrLeft, Finished, WithStatus
<1>. HIDE DEF q, r
<1>6. CASE i = None
  BY <1>1, <1>5, <1>6
<1>7. CASE i # None /\ Kids(q.nodes[i]) # {}
  <2>1. Cleaned(s).p = q /\ Cleaned(s).at = None
    BY <1>5, <1>7
  <2>. QED  BY <1>2, <1>3, <1>7, <2>1
<1>8. CASE i # None /\ Kids(q.nodes[i]) = {}
  <2>1. Cleaned(s).p = r /\ Cleaned(s).at = q.nodes[i].parent
    BY SMTT(60), <1>5, <1>8
  <2>. QED  BY <1>4, <1>8, <2>1
<1>. QED  BY <1>6, <1>7, <1>8

(* A place of a walk up the parents.                                       *)
Stands(s) == s.at = None \/ s.at \in DOMAIN s.p.nodes

(* What remove_finished_subtree returns is the end of a walk. *)
LEMMA CleanIsWalk ==
  ASSUME NEW p, NEW i, p.nodes[i].depth \in Nat
  PROVE  \E h : /\ Walks(h, "clean", <<>>, [p |-> p, at |-> i], p.nodes[i].depth + 1)
                /\ remove_finished_subtree(p, i) = h[p.nodes[i].depth + 1].p
<1> DEFINE first == [p |-> p, at |-> i]
           n == p.nodes[i].depth + 1
           Up(g) == g = [k \in 0 .. n |-> IF k = 0 THEN first ELSE Strictly(Cleaned, g[k - 1])]
<1>1. remove_finished_subtree(p, i) = (CHOOSE g : Up(g))[n].p
  BY DEF remove_finished_subtree, Strictly
<1>2. n \in Nat
  OBVIOUS
<1>. HIDE DEF first, n
<1>3. \A g : Walks(g, "clean", <<>>, first, n) <=> Up(g)
  BY DEF Walks, StepOf, Strictly
<1>4. \E g : Up(g)
  BY <1>2, <1>3, WalkExists
<1>. QED  BY <1>1, <1>3, <1>4 DEF first, n

(* From a node that alone may be unaccounted for, all is accounted for. *)
LEMMA RemoveAccounts ==
  ASSUME NEW p, NEW out, NEW i \in DOMAIN p.nodes, Nearly(p, out, i)
  PROVE  /\ Accounts(remove_finished_subtree(p, i), out)
         /\ Spares(p, remove_finished_subtree(p, i), out)
<1> DEFINE n == p.nodes[i].depth + 1
           first == [p |-> p, at |-> i]
<1>1. p.nodes[i].depth \in Nat
  BY DEF Nearly, Tree, InPlace
<1>2. PICK h : Walks(h, "clean", <<>>, first, n) /\ remove_finished_subtree(p, i) = h[n].p
  BY <1>1, CleanIsWalk
<1>3. first.p = p /\ first.at = i /\ n \in Nat /\ n # 0
  BY <1>1
<1>. HIDE DEF first, n
<1> DEFINE T == {k \in Nat : k <= n => /\ Nearly(h[k].p, out, h[k].at)
                                       /\ k # 0 => Accounts(h[k].p, out)
                                       /\ Spares(p, h[k].p, out)}
<1>4. 0 \in T
  <2>1. h[0] = first
    BY <1>2, <1>3 DEF Walks
  <2>2. \A m \in out : m \in DOMAIN p.nodes
    BY DEF Nearly, Open
  <2>. QED  BY <1>3, <2>1, <2>2, GraphsTwice DEF Spares
<1>5. ASSUME NEW k \in T PROVE k + 1 \in T
  <2>1. SUFFICES ASSUME k + 1 <= n
                 PROVE  /\ Nearly(h[k + 1].p, out, h[k + 1].at)
                        /\ Accounts(h[k + 1].p, out)
                        /\ Spares(p, h[k + 1].p, out)
    OBVIOUS
  <2>2. k \in Nat /\ Nearly(h[k].p, out, h[k].at) /\ Spares(p, h[k].p, out)
    BY <1>3, <2>1
  <2>3. h[k + 1] = Cleaned(h[k])
    <3>1. k + 1 \in 0 .. n /\ k + 1 # 0 /\ (k + 1) - 1 = k
      BY <1>3, <2>1, <2>2
    <3>2. h[k + 1] = StepOf("clean", <<>>, k + 1, h[k])
      BY <1>2, <3>1 DEF Walks
    <3>. QED  BY <3>2 DEF StepOf
  <2>4. /\ Accounts(h[k + 1].p, out) /\ Nearly(h[k + 1].p, out, h[k + 1].at)
        /\ Spares(h[k].p, h[k + 1].p, out)
    BY <2>2, <2>3, CleanedAccounts
  <2>5. Spares(p, h[k + 1].p, out)
    BY <2>2, <2>4, GraphsTwice DEF Spares
  <2>. QED  BY <2>4, <2>5
<1>6. T = Nat
  <2>. HIDE DEF T
  <2>. QED  BY <1>4, <1>5, SetInduction DEF T
<1>7. Accounts(h[n].p, out) /\ Spares(p, h[n].p, out)
  <2>1. n \in T
    BY <1>3, <1>6
  <2>. QED  BY <1>3, <2>1
<1>. QED  BY <1>2, <1>7

-----------------------------------------------------------------------------
(* A node branches, and the global bound changes.                          *)

WithKids(r, same, diff) == [r EXCEPT !.same = same, !.diff = diff]

(* A colordata that gets children. *)
LEMMA ChildrenWritten ==
  ASSUME NEW r, IsColordata(r), NEW same, NEW diff, NEW q, q = WithKids(r, same, diff)
  PROVE  /\ IsColordata(q) /\ q.parent = r.parent /\ q.depth = r.depth
         /\ q.status = r.status /\ q.same = same /\ q.diff = diff
<1> DEFINE u == [r EXCEPT !.same = same]
<1>1. q = [u EXCEPT !.diff = diff]
  BY DEF WithKids
<1>2. u = [parent |-> r.parent, depth |-> r.depth, status |-> r.status, lb |-> r.lb,
           ub |-> r.ub, best |-> r.best, same |-> same, diff |-> r.diff,
           opt |-> r.opt, lp |-> r.lp, est |-> r.est,
           deepFirst |-> r.deepFirst, whole |-> r.whole]
  BY DEF IsColordata
<1>. HIDE DEF u
<1>3. q = [parent |-> r.parent, depth |-> r.depth, status |-> r.status, lb |-> r.lb,
           ub |-> r.ub, best |-> r.best, same |-> same, diff |-> diff,
           opt |-> r.opt, lp |-> r.lp, est |-> r.est,
           deepFirst |-> r.deepFirst, whole |-> r.whole]
  BY <1>1, <1>2
<1>4. IsColordata(q)
  BY <1>3 DEF IsColordata
<1>. QED  BY <1>3, <1>4

(* Adapting the global bound leaves the nodes alone. *)
LEMMA AdaptKeeps ==
  ASSUME NEW p, IsProblem(p), NEW x
  PROVE  LET q == adapt_global_upper_bound(p, x)
         IN  /\ IsProblem(q) /\ q.nodes = p.nodes /\ q.heap = p.heap /\ q.next = p.next
             /\ q.ub = IF p.ub <= x THEN p.ub ELSE x
<1> DEFINE q == adapt_global_upper_bound(p, x)
           y == IF p.strategy = hybrid /\ x - p.nodes[Root].lb <= 1 THEN min_lb ELSE p.strategy
<1>1. CASE p.ub <= x
  BY <1>1 DEF adapt_global_upper_bound
<1>2. CASE ~(p.ub <= x)
  <2>1. q = [p EXCEPT !.ub = x, !.strategy = y]
    BY <1>2 DEF adapt_global_upper_bound
  <2>. HIDE DEF y, q
  <2>2. q = [nodes |-> p.nodes, heap |-> p.heap, ub |-> x, next |-> p.next,
             strategy |-> y, files |-> p.files]
    BY <2>1 DEF IsProblem
  <2>3. IsProblem(q)
    BY <2>2 DEF IsProblem
  <2>4. IsProblem(q) /\ q.nodes = p.nodes /\ q.heap = p.heap /\ q.next = p.next /\ q.ub = x
    BY <2>2, <2>3
  <2>. QED  BY <1>2, <2>4 DEF q
<1>. QED  BY <1>1, <1>2

-----------------------------------------------------------------------------
(* The search starts.                                                      *)

(* The root as the search starts with it: its LP has been solved, and its  *)
(* colouring is DSATUR's, with best colours.                               *)
Starting(p, opt, ub, best) ==
  /\ IsProblem(p) /\ DOMAIN p.nodes = {Root}
  /\ p.heap = {} /\ p.next = 1 /\ p.ub = ub
  /\ LET r == p.nodes[Root]
     IN  /\ r.parent = None /\ r.depth = 0
         /\ r.status \in {LP_bound_estimated, LP_bound_computed}
         /\ r.same = {} /\ r.diff = {} /\ r.opt = opt /\ r.lp \in Nat /\ r.lp <= opt
         /\ r.lb = r.lp /\ r.ub = ub /\ r.best = best

(* The root is in its place, with nothing below it. *)
LEMMA StartingTree ==
  ASSUME NEW p, NEW opt, NEW ub, NEW best, Starting(p, opt, ub, best)
  PROVE  Tree(p) /\ Kids(p.nodes[Root]) = {} /\ Accounts(p, {Root})
<1>1. Kids(p.nodes[Root]) = {}
  BY DEF Starting, Kids
<1>2. InPlace(p.nodes, Root)
  BY <1>1 DEF Starting, InPlace, LP_bound_estimated, LP_bound_computed
<1>3. Tree(p)
  BY <1>2 DEF Starting, Tree, Root
<1>4. Open(p) = {Root}
  BY <1>1 DEF Starting, Open, LP_bound_estimated, LP_bound_computed, finished
<1>. QED  BY <1>1, <1>3, <1>4 DEF Starting, Accounts

(* What the LP may be worth at the root. *)
LEMMA FirstRelaxation ==
  ASSUME NEW opt \in Nat, NEW lp \in Max({3, opt - MaxDepth}) .. opt
  PROVE  lp \in Nat /\ lp <= opt
<1> DEFINE S == {3, opt - MaxDepth}
           m == IF 3 >= opt - MaxDepth THEN 3 ELSE opt - MaxDepth
<1>1. MaxDepth \in Nat /\ opt \in Int
  BY ColorNodesAssumption
<1>2. m \in S /\ \A x \in S : m >= x
  BY <1>1
<1>3. Max(S) \in S /\ \A x \in S : Max(S) >= x
  <2>. HIDE DEF S, m
  <2>. QED  BY <1>2 DEF Max
<1>4. Max(S) \in Int /\ Max(S) >= 3
  BY <1>1, <1>3
<1>5. lp \in Max(S) .. opt
  OBVIOUS
<1>. HIDE DEF S
<1>. QED  BY <1>1, <1>4, <1>5

(* What compute_lower_bound makes of a graph whose LP converges. *)
LEMMA Converged ==
  ASSUME NEW opt, NEW lp \in Int, NEW depth, NEW only, NEW b \in Relaxed(opt, lp, depth, 0, only)
  PROVE  /\ b.opt = opt /\ b.lp = lp /\ b.est = lp
         /\ b.status \in {LP_bound_estimated, LP_bound_computed}
<1>1. b \in [opt : {opt}, lp : {lp}, est : lp .. lp + 0,
             status : {LP_bound_estimated} \cup (IF only THEN {LP_bound_computed} ELSE {})]
  BY DEF Relaxed
<1>2. b.opt = opt /\ b.lp = lp /\ b.est \in lp .. lp + 0
  BY <1>1
<1>3. b.status \in {LP_bound_estimated, LP_bound_computed}
  BY <1>1
<1>. QED  BY <1>2, <1>3

(* The problem of which that is true. *)
LEMMA RootStarts ==
  ASSUME NEW opt \in Nat, NEW lp \in Nat, lp <= opt, NEW ub, NEW best, NEW strategy, NEW p,
         NEW only, NEW b \in Relaxed(opt, lp, 0, 0, only),
         p = [nodes |-> [n \in {Root} |-> [Colordata(None, 0, b, ub) EXCEPT !.best = best]],
              heap |-> {}, ub |-> ub, next |-> 1, strategy |-> strategy, files |-> <<>>]
  PROVE  Starting(p, opt, ub, best)
<1> DEFINE c == Colordata(None, 0, b, ub)
           r == [c EXCEPT !.best = best]
<1>0. /\ b.opt = opt /\ b.lp = lp /\ b.est = lp
      /\ b.status \in {LP_bound_estimated, LP_bound_computed}
  BY Converged
<1>1. /\ IsColordata(r) /\ r.parent = None /\ r.depth = 0
      /\ r.status \in {LP_bound_estimated, LP_bound_computed}
      /\ r.same = {} /\ r.diff = {} /\ r.opt = opt /\ r.lp = lp /\ r.lb = lp
      /\ r.ub = ub /\ r.best = best
  <2>1. c = [parent |-> None, depth |-> 0, status |-> b.status, lb |-> b.est,
             ub |-> ub, best |-> 0, same |-> {}, diff |-> {}, opt |-> b.opt, lp |-> b.lp,
             est |-> b.est, deepFirst |-> FALSE, whole |-> TRUE]
    BY DEF Colordata
  <2>. HIDE DEF c
  <2>2. r = [parent |-> None, depth |-> 0, status |-> b.status, lb |-> b.est,
             ub |-> ub, best |-> best, same |-> {}, diff |-> {}, opt |-> b.opt, lp |-> b.lp,
             est |-> b.est, deepFirst |-> FALSE, whole |-> TRUE]
    <3>1. r = [c EXCEPT !.best = best]
      OBVIOUS
    <3>. HIDE DEF r
    <3>. QED  BY <2>1, <3>1
  <2>. HIDE DEF r
  <2>. QED  BY <1>0, <2>2 DEF IsColordata
<1>2. p = [nodes |-> [n \in {Root} |-> r], heap |-> {}, ub |-> ub, next |-> 1,
           strategy |-> strategy, files |-> <<>>]
  OBVIOUS
<1>. HIDE DEF r
<1>3. /\ p.nodes = [n \in {Root} |-> r] /\ p.heap = {} /\ p.next = 1 /\ p.ub = ub
      /\ p = [nodes |-> p.nodes, heap |-> p.heap, ub |-> p.ub, next |-> p.next,
              strategy |-> p.strategy, files |-> p.files]
  BY <1>2
<1>4. /\ DOMAIN p.nodes = {Root} /\ p.nodes[Root] = r
      /\ p.nodes = [n \in DOMAIN p.nodes |-> p.nodes[n]]
  BY <1>3
<1>5. IsProblem(p)
  BY <1>1, <1>3, <1>4 DEF IsProblem
<1>. QED  BY <1>1, <1>3, <1>4, <1>5 DEF Starting

-----------------------------------------------------------------------------
(* What the operations do to the values of a node.                         *)

(* The colordata s is r with other bounds, another colouring and status.   *)
Writes(r, s, lb, ub, best, status) ==
  /\ SamePlace(r, s) /\ s.opt = r.opt /\ s.lp = r.lp
  /\ s.lb = lb /\ s.ub = ub /\ s.best = best /\ s.status = status

(* One field of a colordata is overwritten. *)
LEMMA ValueWritten ==
  ASSUME NEW r, IsColordata(r), NEW x
  PROVE  /\ Writes(r, [r EXCEPT !.lb = x], x, r.ub, r.best, r.status)
         /\ Writes(r, [r EXCEPT !.ub = x], r.lb, x, r.best, r.status)
         /\ Writes(r, [r EXCEPT !.best = x], r.lb, r.ub, x, r.status)
         /\ Writes(r, [r EXCEPT !.status = x], r.lb, r.ub, r.best, x)
         /\ Writes(r, [r EXCEPT !.deepFirst = x], r.lb, r.ub, r.best, r.status)
BY DEF IsColordata, SamePlace, Writes

(* The problem q is p with such a change of its node i; the heap is open. *)
Rewritten(p, i, q, lb, ub, best, status) ==
  /\ DOMAIN q.nodes = DOMAIN p.nodes /\ q.ub = p.ub /\ q.next = p.next
  /\ \A n \in DOMAIN p.nodes : n # i => q.nodes[n] = p.nodes[n]
  /\ i \in DOMAIN p.nodes => Writes(p.nodes[i], q.nodes[i], lb, ub, best, status)

(* One node of a problem is overwritten. *)
LEMMA NodeRewritten ==
  ASSUME NEW p, IsProblem(p), NEW i, NEW r, NEW q, NEW lb, NEW ub, NEW best, NEW status,
         q = [p EXCEPT !.nodes[i] = r],
         i \in DOMAIN p.nodes => Writes(p.nodes[i], r, lb, ub, best, status)
  PROVE  Rewritten(p, i, q, lb, ub, best, status)
<1>1. q = [nodes |-> [p.nodes EXCEPT ![i] = r], heap |-> p.heap, ub |-> p.ub,
           next |-> p.next, strategy |-> p.strategy, files |-> p.files]
  BY DEF IsProblem
<1>2. q.nodes = [p.nodes EXCEPT ![i] = r] /\ q.ub = p.ub /\ q.next = p.next
  BY <1>1
<1>3. /\ DOMAIN q.nodes = DOMAIN p.nodes
      /\ \A n \in DOMAIN p.nodes : n # i => q.nodes[n] = p.nodes[n]
      /\ i \in DOMAIN p.nodes => q.nodes[i] = r
  BY SMTT(60), <1>2 DEF IsProblem
<1>. QED  BY <1>2, <1>3 DEF Rewritten

(* The writes of the code are such changes. *)
LEMMA FieldRewritten ==
  ASSUME NEW p, IsProblem(p), NEW i, NEW x
  PROVE  LET r == p.nodes[i]
         IN  /\ Rewritten(p, i, WithLb(p, i, x), x, r.ub, r.best, r.status)
             /\ Rewritten(p, i, WithUb(p, i, x), r.lb, x, r.best, r.status)
             /\ Rewritten(p, i, WithBest(p, i, x), r.lb, r.ub, x, r.status)
             /\ Rewritten(p, i, WithStatus(p, i, x), r.lb, r.ub, r.best, x)
             /\ Rewritten(p, i, WithDeepFirst(p, i, x), r.lb, r.ub, r.best, r.status)
             /\ Rewritten(p, i, WithHeap(p, x), r.lb, r.ub, r.best, r.status)
             /\ Rewritten(p, i, backup_colordata(p, i), r.lb, r.ub, r.best, r.status)
<1> DEFINE r == p.nodes[i]
<1>1. ASSUME i \in DOMAIN p.nodes
      PROVE  /\ IsColordata(r)
             /\ Writes(r, [r EXCEPT !.lb = x], x, r.ub, r.best, r.status)
             /\ Writes(r, [r EXCEPT !.ub = x], r.lb, x, r.best, r.status)
             /\ Writes(r, [r EXCEPT !.best = x], r.lb, r.ub, x, r.status)
             /\ Writes(r, [r EXCEPT !.status = x], r.lb, r.ub, r.best, x)
             /\ Writes(r, [r EXCEPT !.deepFirst = x], r.lb, r.ub, r.best, r.status)
  <2>1. IsColordata(r)
    BY <1>1 DEF IsProblem
  <2>. HIDE DEF r
  <2>. QED  BY <2>1, ValueWritten
<1>2. Rewritten(p, i, WithLb(p, i, x), x, r.ub, r.best, r.status)
  <2>1. WithLb(p, i, x) = [p EXCEPT !.nodes[i] = [r EXCEPT !.lb = x]]
    BY DEF WithLb
  <2>. QED  BY <1>1, <2>1, NodeRewritten
<1>3. Rewritten(p, i, WithUb(p, i, x), r.lb, x, r.best, r.status)
  <2>1. WithUb(p, i, x) = [p EXCEPT !.nodes[i] = [r EXCEPT !.ub = x]]
    BY DEF WithUb
  <2>. QED  BY <1>1, <2>1, NodeRewritten
<1>4. Rewritten(p, i, WithBest(p, i, x), r.lb, r.ub, x, r.status)
  <2>1. WithBest(p, i, x) = [p EXCEPT !.nodes[i] = [r EXCEPT !.best = x]]
    BY DEF WithBest
  <2>. QED  BY <1>1, <2>1, NodeRewritten
<1>5. Rewritten(p, i, WithStatus(p, i, x), r.lb, r.ub, r.best, x)
  <2>1. WithStatus(p, i, x) = [p EXCEPT !.nodes[i] = [r EXCEPT !.status = x]]
    BY DEF WithStatus
  <2>. QED  BY <1>1, <2>1, NodeRewritten
<1>6. Rewritten(p, i, WithDeepFirst(p, i, x), r.lb, r.ub, r.best, r.status)
  <2>1. WithDeepFirst(p, i, x) = [p EXCEPT !.nodes[i] = [r EXCEPT !.deepFirst = x]]
    BY DEF WithDeepFirst
  <2>. QED  BY <1>1, <2>1, NodeRewritten
<1>7. Rewritten(p, i, WithHeap(p, x), r.lb, r.ub, r.best, r.status)
  <2> DEFINE q == WithHeap(p, x)
  <2>1. q = [nodes |-> p.nodes, heap |-> x, ub |-> p.ub, next |-> p.next,
             strategy |-> p.strategy, files |-> p.files]
    BY DEF IsProblem, WithHeap
  <2>. HIDE DEF q
  <2>2. q.nodes = p.nodes /\ q.ub = p.ub /\ q.next = p.next
    BY <2>1
  <2>3. Rewritten(p, i, q, r.lb, r.ub, r.best, r.status)
    BY <2>2 DEF Rewritten, Writes, SamePlace
  <2>. QED  BY <2>3 DEF q
<1>8. Rewritten(p, i, backup_colordata(p, i), r.lb, r.ub, r.best, r.status)
  <2> DEFINE q == backup_colordata(p, i)
  <2>1. q.nodes = p.nodes /\ q.ub = p.ub /\ q.next = p.next
    BY BackedUp
  <2>. HIDE DEF q
  <2>2. Rewritten(p, i, q, r.lb, r.ub, r.best, r.status)
    BY <2>1 DEF Rewritten, Writes, SamePlace
  <2>. QED  BY <2>2 DEF q
<1>. HIDE DEF r
<1>9. /\ Rewritten(p, i, WithLb(p, i, x), x, r.ub, r.best, r.status)
      /\ Rewritten(p, i, WithUb(p, i, x), r.lb, x, r.best, r.status)
      /\ Rewritten(p, i, WithBest(p, i, x), r.lb, r.ub, x, r.status)
      /\ Rewritten(p, i, WithStatus(p, i, x), r.lb, r.ub, r.best, x)
      /\ Rewritten(p, i, WithDeepFirst(p, i, x), r.lb, r.ub, r.best, r.status)
      /\ Rewritten(p, i, WithHeap(p, x), r.lb, r.ub, r.best, r.status)
      /\ Rewritten(p, i, backup_colordata(p, i), r.lb, r.ub, r.best, r.status)
  BY <1>2, <1>3, <1>4, <1>5, <1>6, <1>7, <1>8
<1>. QED  BY <1>9 DEF r

(* Two changes of one node are one. *)
LEMMA RewrittenTwice ==
  ASSUME NEW p, NEW i, NEW q, NEW r, NEW lb, NEW ub, NEW best, NEW status,
         NEW lb2, NEW ub2, NEW best2, NEW status2,
         Rewritten(p, i, q, lb, ub, best, status), Rewritten(q, i, r, lb2, ub2, best2, status2)
  PROVE  Rewritten(p, i, r, lb2, ub2, best2, status2)
BY DEF Rewritten, Writes, SamePlace

(* The smallest of some natural numbers. *)
LEMMA MinIsLeast ==
  ASSUME NEW S \in SUBSET Nat, S # {}
  PROVE  Min(S) \in S /\ \A x \in S : Min(S) <= x
<1>1. PICK m \in S : \A y \in S : ~(<<y, m>> \in OpToRel(<, Nat))
  BY NatLessThanWellFounded, WFMin
<1>2. \A y \in S : ~(y < m)
  BY <1>1 DEF OpToRel
<1>3. \A y \in S : m <= y
  BY <1>2
<1>. QED  BY <1>3 DEF Min
=============================================================================
