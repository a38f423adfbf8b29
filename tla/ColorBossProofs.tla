-------------------------- MODULE ColorBossProofs ---------------------------
(***************************************************************************)
(* Proofs about the boss of exactcolors.                                   *)
(*                                                                         *)
(* First, however the tree of colordata changes between two requests,      *)
(* every node that is still to be branched on is in the heap, given out or *)
(* lost, and only one of them (BossInv).  Then, what the bounds in that    *)
(* tree are worth: whatever arrives, none of them is that of a colouring   *)
(* that does not exist (Modest), and as long as no result breaks off they  *)
(* are those of the subtrees (Sound, Valued).  From both (Solving) it      *)
(* follows that the boss is an exact solver and that it ends with an       *)
(* optimal colouring.                                                      *)
(***************************************************************************)
EXTENDS ColorBoss, ColorNodesProofs

-----------------------------------------------------------------------------
(* The first invariant.                                                    *)

(* A worker's copy: a node that was sent, without children.                *)
IsJob(j) ==
  /\ IsColordata(j.cd)
  /\ j.cd.depth \in Nat /\ j.cd.same = {} /\ j.cd.diff = {}
  /\ j.cd.status = submitted_for_branching

BossInv ==
  /\ Accounts(problem, joblist \cup lost)
  /\ joblist \cap lost = {}
  /\ IsFiniteSet(joblist) /\ npending = Cardinality(joblist)
  /\ \A i \in joblist : problem.nodes[i].status = submitted_for_branching
  /\ DOMAIN worker = Workers
  /\ \A w \in Workers : worker[w] = "busy" => w \in DOMAIN job /\ IsJob(job[w])

-----------------------------------------------------------------------------
(* The boss looks for a job.                                               *)

(* The problems after one more useless node of one of those in S is dropped. *)
SkippedFrom(S) == UNION {{Skipped(q, i) : i \in Useless(q)} : q \in S}

Skips(h, p, n) ==
  h = [k \in 0 .. n |-> IF k = 0 THEN {p} ELSE SkippedFrom(h[k - 1])]

(* Dropping n useless nodes, one after the other, is a walk that exists. *)
LEMMA SkipsExist ==
  ASSUME NEW p, NEW n \in Nat
  PROVE  \E h : Skips(h, p, n)
<1> DEFINE S == {m \in Nat : \E h : Skips(h, p, m)}
<1>1. 0 \in S
  <2>1. Skips([k \in 0 .. 0 |-> {p}], p, 0)
    BY DEF Skips
  <2>. QED  BY <2>1
<1>2. ASSUME NEW m \in S PROVE m + 1 \in S
  <2>1. m \in Nat
    OBVIOUS
  <2>2. PICK h : Skips(h, p, m)
    OBVIOUS
  <2>4. \A k \in 0 .. m + 1 : k # 0 => k - 1 \in 0 .. m
    BY <2>1
  <2> DEFINE body(g, k) == IF k = 0 THEN {p} ELSE SkippedFrom(g[k - 1])
             longer == [k \in 0 .. m + 1 |-> body(h, k)]
  <2>3. \A k \in 0 .. m : longer[k] = h[k]
    <3>. HIDE DEF S
    <3>1. h = [k \in 0 .. m |-> body(h, k)]
      BY <2>2 DEF Skips
    <3>2. \A k \in 0 .. m : k \in 0 .. m + 1
      BY <2>1
    <3>. HIDE DEF body
    <3>. QED  BY <3>1, <3>2
  <2>5. \A k \in 0 .. m + 1 : body(longer, k) = body(h, k)
    <3>. HIDE DEF longer
    <3>. QED  BY <2>3, <2>4
  <2>6. longer = [k \in 0 .. m + 1 |-> body(h, k)]
    OBVIOUS
  <2>. HIDE DEF longer, body
  <2>7. longer = [k \in 0 .. m + 1 |-> body(longer, k)]
    BY <2>5, <2>6
  <2>8. Skips(longer, p, m + 1)
    BY <2>7 DEF Skips, body
  <2>. QED  BY <2>1, <2>8
<1>3. S = Nat
  <2>. HIDE DEF S
  <2>. QED  BY <1>1, <1>2, SetInduction DEF S
<1>. QED  BY <1>3

(* Every problem in which the next node is not useless is on such a walk. *)
LEMMA PrunedIsSkipped ==
  ASSUME NEW p, NEW out, Accounts(p, out), NEW q \in Pruned(p)
  PROVE  \E n, h : n \in Nat /\ Skips(h, p, n) /\ q \in UNION {h[k] : k \in 0 .. n}
<1> DEFINE n == Cardinality(p.heap)
           Walk(g) == g = [k \in 0 .. n |->
              IF k = 0 THEN {p}
              ELSE UNION {{Skipped(r, i) : i \in Useless(r)} : r \in g[k - 1]}]
<1>1. q \in UNION {(CHOOSE g : Walk(g))[k] : k \in 0 .. n}
  BY DEF Pruned
<1>2. n \in Nat
  <2>1. p.heap \in SUBSET (0 .. p.next - 1) /\ p.next \in Nat
    BY DEF Accounts, Open, Tree
  <2>2. IsFiniteSet(0 .. p.next - 1)
    BY <2>1, FS_Interval
  <2>. QED  BY <2>1, <2>2, FS_Subset, FS_CardinalityType
<1>. HIDE DEF n
<1>3. \A g : Skips(g, p, n) <=> Walk(g)
  BY DEF Skips, SkippedFrom
<1>4. \E g : Walk(g)
  BY <1>2, <1>3, SkipsExist
<1>. QED  BY SMTT(60), <1>1, <1>2, <1>3, <1>4

(* The statuses of the nodes of S are kept.                                *)
StatusKept(p, q, S) == \A n \in S : q.nodes[n].status = p.nodes[n].status

(* A node that is useless leaves the heap, finished. *)
LEMMA SkippedAccounts ==
  ASSUME NEW p, NEW out, Accounts(p, out), NEW i \in p.heap
  PROVE  /\ Accounts(Skipped(p, i), out) /\ StatusKept(p, Skipped(p, i), out)
         /\ Graphs(p, Skipped(p, i))
<1> DEFINE heap == p.heap \ {i}
           u == WithHeap(p, heap)
           q == WithStatus(u, i, finished)
<1>1. Skipped(p, i) = remove_finished_subtree(q, i)
  BY DEF Skipped, WithHeap, WithStatus
<1>2. /\ Tree(p) /\ IsProblem(p) /\ i \in DOMAIN p.nodes /\ Kids(p.nodes[i]) = {}
      /\ Open(p) = p.heap \cup out /\ p.heap \cap out = {}
  BY DEF Accounts, Open, Tree
<1>3. heap \cap out = {} /\ i \notin heap \cup out
      /\ \A n : n # i => (n \in Open(p) <=> n \in heap \cup out)
  BY <1>2
<1>. HIDE DEF heap
<1>4. Changed(p, i, p.nodes[i].status, heap, u)
  BY <1>2, HeapWritten
<1>. HIDE DEF u
<1>5. Changed(u, i, finished, heap, q)
  BY <1>4, StatusWritten DEF Changed
<1>. HIDE DEF q
<1>6. Changed(p, i, finished, heap, q)
  BY <1>4, <1>5, ChangedTwice
<1>7. finished \in Int
  BY DEF finished
<1>8. /\ Tree(q) /\ Keeps(p, q, {i}) /\ \A n : n # i => (n \in Open(q) <=> n \in Open(p))
  BY <1>2, <1>6, <1>7, ChangeKeepsTree
<1>9. q.heap = heap /\ i \in DOMAIN q.nodes
  BY <1>2, <1>6 DEF Changed
<1>10. Nearly(q, out, i)
  BY <1>3, <1>8, <1>9 DEF Nearly
<1>11. /\ Accounts(remove_finished_subtree(q, i), out)
       /\ Spares(q, remove_finished_subtree(q, i), out)
  BY <1>9, <1>10, RemoveAccounts
<1>12. \A n \in out : n \in DOMAIN p.nodes /\ n # i
  BY <1>2, <1>3 DEF Open
<1>13. StatusKept(p, remove_finished_subtree(q, i), out)
  BY <1>8, <1>11, <1>12 DEF StatusKept, Spares, Keeps
<1>14. Graphs(p, remove_finished_subtree(q, i))
  <2>1. Graphs(p, q)
    BY <1>2, <1>8, CollectsGraphs
  <2>2. Graphs(q, remove_finished_subtree(q, i))
    BY <1>11 DEF Spares
  <2>. QED  BY <2>1, <2>2, GraphsTwice
<1>. QED  BY <1>1, <1>11, <1>13, <1>14

(* However many useless nodes are dropped. *)
LEMMA PrunedAccounts ==
  ASSUME NEW p, NEW out, Accounts(p, out), NEW q \in Pruned(p)
  PROVE  Accounts(q, out) /\ StatusKept(p, q, out) /\ Graphs(p, q)
<1>1. PICK n, h : n \in Nat /\ Skips(h, p, n) /\ q \in UNION {h[k] : k \in 0 .. n}
  BY PrunedIsSkipped
<1>2. n \in Nat
  BY <1>1
<1>5. h = [k \in 0 .. n |-> IF k = 0 THEN {p} ELSE SkippedFrom(h[k - 1])]
      /\ q \in UNION {h[k] : k \in 0 .. n}
  BY <1>1 DEF Skips
<1> DEFINE Good(S) == \A r \in S : Accounts(r, out) /\ StatusKept(p, r, out) /\ Graphs(p, r)
           T == {k \in Nat : k <= n => Good(h[k])}
<1>6. 0 \in T
  <2>1. h[0] = {p}
    BY <1>2, <1>5
  <2>. QED  BY <2>1, GraphsTwice DEF StatusKept
<1>7. ASSUME NEW k \in T PROVE k + 1 \in T
  <2>1. SUFFICES ASSUME k + 1 <= n, NEW t \in h[k + 1]
                 PROVE  Accounts(t, out) /\ StatusKept(p, t, out) /\ Graphs(p, t)
    OBVIOUS
  <2>2. k \in Nat /\ Good(h[k])
    BY <1>2, <2>1
  <2>3. k + 1 \in 0 .. n /\ k + 1 # 0 /\ (k + 1) - 1 = k
    BY <1>2, <2>1, <2>2
  <2>4. t \in UNION {{Skipped(r, i) : i \in Useless(r)} : r \in h[k]}
    BY <1>5, <2>1, <2>3 DEF SkippedFrom
  <2>5. PICK r \in h[k] : t \in {Skipped(r, i) : i \in Useless(r)}
    BY <2>4
  <2>6. Accounts(r, out) /\ StatusKept(p, r, out) /\ Graphs(p, r)
    BY <2>2
  <2>7. PICK i \in r.heap : t = Skipped(r, i)
    BY <2>5 DEF Useless, COLORNWTheap_min, Deepest, Lowest
  <2>8. Accounts(t, out) /\ StatusKept(r, t, out) /\ Graphs(r, t)
    BY <2>6, <2>7, SkippedAccounts
  <2>9. Graphs(p, t)
    BY <2>6, <2>8, GraphsTwice
  <2>. QED  BY <2>6, <2>8, <2>9 DEF StatusKept
<1>8. T = Nat
  <2>. HIDE DEF T
  <2>. QED  BY <1>6, <1>7, SetInduction DEF T
<1>9. PICK k \in 0 .. n : q \in h[k]
  BY <1>5
<1>10. Good(h[k])
  <2>1. k \in T /\ k <= n
    BY <1>2, <1>8
  <2>. QED  BY <2>1
<1>. QED  BY <1>9, <1>10

-----------------------------------------------------------------------------
(* A worker reports.                                                       *)

(* What a worker has made of the node i when next ids are in use: it has   *)
(* new children, or it has none.                                           *)
IsResult(result, i, next) ==
  /\ result.next \in Nat /\ result.next >= next
  /\ DOMAIN result.nodes = {i} \cup next .. result.next - 1
  /\ LET r == result.nodes[i]
     IN  /\ IsColordata(r) /\ r.depth \in Nat /\ r.status \in Int
         /\ r.same \cap r.diff = {} /\ Kids(r) = next .. result.next - 1
         /\ r.status >= finished => Kids(r) = {}
  /\ \A k \in next .. result.next - 1 :
       LET c == result.nodes[k]
       IN  /\ IsColordata(c) /\ c.parent = i /\ c.depth \in Nat
           /\ c.same = {} /\ c.diff = {} /\ c.status \in Int /\ c.status < finished

(* The worker's problem: one node, which has no children, and the number   *)
(* of ids in use.                                                          *)
Alone(c, i, next, status) ==
  /\ c = [nodes |-> [n \in {i} |-> c.nodes[i]], next |-> next]
  /\ IsColordata(c.nodes[i]) /\ c.nodes[i].depth \in Nat
  /\ c.nodes[i].same = {} /\ c.nodes[i].diff = {} /\ c.nodes[i].status = status

(* Another colordata in its place. *)
LEMMA AloneWith ==
  ASSUME NEW c, NEW i, NEW next, NEW status, Alone(c, i, next, status),
         NEW r, NEW other, IsColordata(r), SamePlace(c.nodes[i], r), r.status = other,
         NEW d, d = [nodes |-> [n \in {i} |-> r], next |-> next]
  PROVE  Alone(d, i, next, other)
<1>1. d.nodes[i] = r
  OBVIOUS
<1>. QED  BY <1>1 DEF Alone, SamePlace

(* One field of the worker's node is written. *)
LEMMA AloneWritten ==
  ASSUME NEW c, NEW i, NEW next, NEW status, Alone(c, i, next, status), NEW x
  PROVE  /\ Alone(WithBest(c, i, x), i, next, status)
         /\ Alone(WithUb(c, i, x), i, next, status)
         /\ Alone(WithStatus(c, i, x), i, next, x)
<1>0. /\ c = [nodes |-> [n \in {i} |-> c.nodes[i]], next |-> next]
      /\ IsColordata(c.nodes[i]) /\ c.nodes[i].status = status
  BY DEF Alone
<1>1. Alone(WithBest(c, i, x), i, next, status)
  <2> DEFINE r == [c.nodes[i] EXCEPT !.best = x]
             d == WithBest(c, i, x)
  <2>1. d = [nodes |-> [n \in {i} |-> r], next |-> next]
    BY <1>0 DEF WithBest
  <2>2. IsColordata(r) /\ SamePlace(c.nodes[i], r) /\ r.status = status
    BY <1>0, FieldWritten
  <2>. HIDE DEF r, d
  <2>. QED  BY <2>1, <2>2, AloneWith DEF d
<1>2. Alone(WithUb(c, i, x), i, next, status)
  <2> DEFINE r == [c.nodes[i] EXCEPT !.ub = x]
             d == WithUb(c, i, x)
  <2>1. d = [nodes |-> [n \in {i} |-> r], next |-> next]
    BY <1>0 DEF WithUb
  <2>2. IsColordata(r) /\ SamePlace(c.nodes[i], r) /\ r.status = status
    BY <1>0, FieldWritten
  <2>. HIDE DEF r, d
  <2>. QED  BY <2>1, <2>2, AloneWith DEF d
<1>3. Alone(WithStatus(c, i, x), i, next, x)
  <2> DEFINE r == [c.nodes[i] EXCEPT !.status = x]
             d == WithStatus(c, i, x)
  <2>1. d = [nodes |-> [n \in {i} |-> r], next |-> next]
    BY <1>0 DEF WithStatus
  <2>2. IsColordata(r) /\ SamePlace(c.nodes[i], r) /\ r.status = x
    BY ZenonT(60), <1>0, FieldWritten
  <2>. HIDE DEF r, d
  <2>. QED  BY <2>1, <2>2, AloneWith DEF d
<1>. QED  BY <1>1, <1>2, <1>3

(* The node itself when the worker has found an integral solution. *)
LEMMA GrabIsResult ==
  ASSUME NEW copy, NEW i, NEW next \in Nat, Alone(copy, i, next, submitted_for_branching)
  PROVE  IsResult(grab_integral_solution(copy, i), i, next)
<1> DEFINE cd_i == copy.nodes[i]
           ub == Min({cd_i.ub, cd_i.opt})
           t == WithUb(WithBest(copy, i, cd_i.opt), i, ub)
           status == IF ub = cd_i.lb THEN finished ELSE cd_i.status
           result == grab_integral_solution(copy, i)
<1>1. result = WithStatus(t, i, status)
  BY DEF grab_integral_solution, WithStatus, WithUb, WithBest
<1>2. cd_i.status = submitted_for_branching
  BY DEF Alone
<1>. HIDE DEF cd_i, ub
<1>3. Alone(t, i, next, submitted_for_branching)
  BY AloneWritten
<1>. HIDE DEF t
<1>4. status \in Int
  BY <1>2 DEF finished, submitted_for_branching
<1>. HIDE DEF status
<1>5. Alone(WithStatus(t, i, status), i, next, status)
  BY <1>3, AloneWritten
<1>. HIDE DEF result
<1>6. /\ result = [nodes |-> [n \in {i} |-> result.nodes[i]], next |-> next]
      /\ IsColordata(result.nodes[i]) /\ result.nodes[i].depth \in Nat
      /\ result.nodes[i].same = {} /\ result.nodes[i].diff = {}
      /\ result.nodes[i].status \in Int
  BY <1>1, <1>4, <1>5 DEF Alone
<1>7. result.next = next /\ DOMAIN result.nodes = {i}
  BY <1>6
<1>8. next .. next - 1 = {}
  OBVIOUS
<1>9. IsResult(result, i, next)
  BY <1>6, <1>7, <1>8 DEF IsResult, Kids
<1>. QED  BY <1>9 DEF result

(* A node of the worker with its new children. *)
LEMMA ChildrenAreResult ==
  ASSUME NEW copy, NEW i \in Nat, NEW next \in Nat, i < next,
         Alone(copy, i, next, submitted_for_branching),
         NEW kids, kids.same \in Nat, Len(kids.bounds) \in Nat, kids.same <= Len(kids.bounds),
         \A k \in 1 .. Len(kids.bounds) :
           kids.bounds[k].status \in {LP_bound_estimated, LP_bound_computed}
  PROVE  IsResult(WithChildren(copy, i, kids), i, next)
<1> DEFINE r == copy.nodes[i]
           m == next + Len(kids.bounds)
           ids == next .. m - 1
           same == next .. next + kids.same - 1
           diff == ids \ same
           child(b) == Colordata(i, r.depth + 1, b, r.ub)
           d == [r EXCEPT !.same = same, !.diff = diff]
           node(n) == IF n \in ids THEN child(kids.bounds[n - next + 1])
                      ELSE IF n = i THEN d ELSE copy.nodes[n]
           nodes == [n \in {i} \cup ids |-> node(n)]
           result == WithChildren(copy, i, kids)
<1>1. /\ DOMAIN copy.nodes = {i} /\ copy.next = next
      /\ copy = [nodes |-> copy.nodes, next |-> copy.next]
      /\ IsColordata(r) /\ r.depth \in Nat /\ r.status = submitted_for_branching
  BY DEF Alone
<1>2. result = [copy EXCEPT !.nodes = nodes, !.next = m]
  BY <1>1 DEF WithChildren
<1>. HIDE DEF nodes, m, r
<1>3. result = [nodes |-> nodes, next |-> m]
  BY <1>1, <1>2
<1>. HIDE DEF result
<1>4. m \in Nat /\ m >= next /\ i \notin ids /\ same \subseteq ids
  BY SMTT(60) DEF m
<1>. HIDE DEF same, ids, d
<1>5. \A n \in ids : nodes[n] = child(kids.bounds[n - next + 1])
  BY DEF nodes
<1>6. nodes[i] = d /\ DOMAIN nodes = {i} \cup ids
  BY <1>4 DEF nodes
<1>7. /\ IsColordata(d) /\ d.depth = r.depth /\ d.status = submitted_for_branching
      /\ d.same = same /\ d.diff = diff
  <2>. HIDE DEF diff
  <2>1. d = WithKids(r, same, diff)
    BY DEF d, WithKids
  <2>. QED  BY <1>1, <2>1, ChildrenWritten
<1>8. /\ d.same \cap d.diff = {} /\ Kids(d) = ids
      /\ d.status \in Int /\ ~(d.status >= finished)
  BY <1>4, <1>7 DEF Kids, submitted_for_branching, finished
<1>9. ASSUME NEW k \in ids
      PROVE  /\ IsColordata(nodes[k]) /\ nodes[k].parent = i /\ nodes[k].depth \in Nat
             /\ nodes[k].same = {} /\ nodes[k].diff = {}
             /\ nodes[k].status \in Int /\ nodes[k].status < finished
  <2> DEFINE c == nodes[k]
             depth == r.depth + 1
             b == kids.bounds[k - next + 1]
             ub == r.ub
  <2>1. c = Colordata(i, depth, b, ub)
    BY <1>5
  <2>2. depth \in Nat
    BY <1>1
  <2>4. b.status \in {LP_bound_estimated, LP_bound_computed}
    <3>1. k - next + 1 \in 1 .. Len(kids.bounds)
      BY DEF ids, m
    <3>. QED  BY <3>1
  <2>. HIDE DEF c, depth, b, ub, child, node, diff
  <2>3. /\ IsColordata(c) /\ c.parent = i /\ c.depth \in Nat
        /\ c.same = {} /\ c.diff = {} /\ c.status = b.status
    BY <2>1, <2>2 DEF Colordata, IsColordata
  <2>. QED  BY <2>3, <2>4 DEF c, LP_bound_estimated, LP_bound_computed, finished
<1>10. result.next = m /\ result.nodes = nodes
  BY <1>3
<1>11. IsResult(result, i, next)
  <2>1. ids = next .. result.next - 1
    BY <1>10 DEF ids
  <2>. HIDE DEF ids, child, diff, node
  <2>. QED  BY <1>1, <1>4, <1>6, <1>7, <1>8, <1>9, <1>10, <2>1 DEF IsResult
<1>. QED  BY <1>11 DEF result

(* A worker's answer is such a result. *)
LEMMA ResultsAre ==
  ASSUME NEW j, IsJob(j), NEW i \in Nat, j.id = i,
         NEW next \in Nat, problem.next = next, i < next,
         NEW result \in Results(j)
  PROVE  IsResult(result, i, next)
<1> DEFINE r == [j.cd EXCEPT !.best = 0]
           copy == [nodes |-> [n \in {i} |-> r], next |-> next]
<1>1. /\ IsColordata(r) /\ r.depth \in Nat /\ r.same = {} /\ r.diff = {}
      /\ r.status = submitted_for_branching
  <2> DEFINE c == j.cd
  <2>1. /\ IsColordata(c) /\ c.depth \in Nat /\ c.same = {} /\ c.diff = {}
        /\ c.status = submitted_for_branching
    BY DEF IsJob
  <2>. HIDE DEF c
  <2>2. IsColordata([c EXCEPT !.best = 0])
    BY <2>1, FieldWritten
  <2>3. /\ [c EXCEPT !.best = 0].depth = c.depth /\ [c EXCEPT !.best = 0].same = c.same
        /\ [c EXCEPT !.best = 0].diff = c.diff /\ [c EXCEPT !.best = 0].status = c.status
    BY <2>1 DEF IsColordata
  <2>. QED  BY <2>1, <2>2, <2>3 DEF c
<1>2. \/ result = grab_integral_solution(copy, i)
      \/ \E kids \in Branchings(j.cd, FALSE, 0, FALSE) : result = WithChildren(copy, i, kids)
  <2> DEFINE given == [nodes |-> [n \in {j.id} |-> [j.cd EXCEPT !.best = 0]],
                       next |-> problem.next]
  <2>1. given = copy
    OBVIOUS
  <2>2. \/ result \in {grab_integral_solution(given, j.id)}
        \/ result \in {WithChildren(given, j.id, kids) : kids \in Branchings(j.cd, FALSE, 0, FALSE)}
    BY ZenonT(30) DEF Results
  <2>. HIDE DEF given, copy
  <2>. QED  BY <2>1, <2>2
<1>. HIDE DEF r
<1>3. Alone(copy, i, next, submitted_for_branching)
  BY <1>1 DEF Alone
<1>4. ASSUME NEW kids \in Branchings(j.cd, FALSE, 0, FALSE)
      PROVE  /\ kids.same \in Nat /\ Len(kids.bounds) \in Nat /\ kids.same <= Len(kids.bounds)
             /\ \A k \in 1 .. Len(kids.bounds) :
                  kids.bounds[k].status \in {LP_bound_estimated, LP_bound_computed}
  <2> DEFINE B == ChildBounds(j.cd, 0, FALSE)
  <2>5. \A b \in B : b.status \in {LP_bound_estimated, LP_bound_computed}
    BY DEF ChildBounds, Relaxed
  <2>. HIDE DEF B
  <2>1. PICK n \in {<<1, 1>>} : kids \in [same : {n[1]}, bounds : [1 .. n[1] + n[2] -> B]]
    BY DEF Branchings, ChildCounts, B
  <2>2. n[1] = 1 /\ n[1] + n[2] = 2
    OBVIOUS
  <2>3. kids.same = 1 /\ kids.bounds \in [1 .. 2 -> B]
    BY <2>1, <2>2
  <2>4. Len(kids.bounds) = 2
    BY <2>3
  <2>. QED  BY <2>3, <2>4, <2>5
<1>. HIDE DEF copy
<1>. QED  BY <1>2, <1>3, <1>4, GrabIsResult, ChildrenAreResult

Adopted(r, parent, best) == [r EXCEPT !.parent = parent, !.best = best]

(* The colordata that the boss adopts from a worker. *)
LEMMA AdoptedWritten ==
  ASSUME NEW r, IsColordata(r), NEW parent, NEW best, NEW q, q = Adopted(r, parent, best)
  PROVE  /\ IsColordata(q) /\ q.parent = parent /\ q.depth = r.depth
         /\ q.status = r.status /\ q.same = r.same /\ q.diff = r.diff
<1> DEFINE u == [r EXCEPT !.parent = parent]
<1>1. q = [u EXCEPT !.best = best]
  BY DEF Adopted
<1>2. u = [parent |-> parent, depth |-> r.depth, status |-> r.status, lb |-> r.lb,
           ub |-> r.ub, best |-> r.best, same |-> r.same, diff |-> r.diff,
           opt |-> r.opt, lp |-> r.lp, est |-> r.est,
           deepFirst |-> r.deepFirst, whole |-> r.whole]
  BY DEF IsColordata
<1>. HIDE DEF u
<1>3. q = [parent |-> parent, depth |-> r.depth, status |-> r.status, lb |-> r.lb,
           ub |-> r.ub, best |-> best, same |-> r.same, diff |-> r.diff,
           opt |-> r.opt, lp |-> r.lp, est |-> r.est,
           deepFirst |-> r.deepFirst, whole |-> r.whole]
  BY <1>1, <1>2
<1>. QED  BY <1>3 DEF IsColordata

(* A node of the tree takes a worker's place in it, with new children below. *)
Grown(p, i, result, q) ==
  /\ q.heap = p.heap /\ q.next = result.next /\ i \in DOMAIN q.nodes
  /\ Kids(q.nodes[i]) = p.next .. q.next - 1
  /\ \A n : n # i /\ n \notin Kids(q.nodes[i]) => (n \in Open(q) <=> n \in Open(p))
  /\ Kids(q.nodes[i]) \subseteq Open(q)
  /\ \A n \in DOMAIN p.nodes : n # i => q.nodes[n].status = p.nodes[n].status

(* receive_colordata grows the tree. *)
LEMMA ReceiveGrows ==
  ASSUME NEW p, Tree(p), NEW i \in Open(p), NEW result, IsResult(result, i, p.next)
  PROVE  /\ Tree(receive_colordata(p, i, result))
         /\ Grown(p, i, result, receive_colordata(p, i, result))
<1> DEFINE q == receive_colordata(p, i, result)
           r == result.nodes[i]
           parent == p.nodes[i].parent
           best == IF r.best # 0 THEN r.best ELSE p.nodes[i].best
           adopted == Adopted(r, parent, best)
           node(n) == IF n = i THEN adopted
                      ELSE IF n \in DOMAIN result.nodes THEN result.nodes[n] ELSE p.nodes[n]
           nodes == [n \in DOMAIN p.nodes \cup DOMAIN result.nodes |-> node(n)]
           next == result.next
           ids == p.next .. next - 1
<1>1. q = [p EXCEPT !.nodes = nodes, !.next = next]
  BY DEF receive_colordata, Adopted
<1>. HIDE DEF nodes, next, q
<1>2. q = [nodes |-> nodes, heap |-> p.heap, ub |-> p.ub, next |-> next,
           strategy |-> p.strategy, files |-> p.files]
  BY <1>1 DEF Tree, IsProblem
<1>3. /\ i \in DOMAIN p.nodes /\ Kids(p.nodes[i]) = {} /\ IsProblem(p)
      /\ p.next \in Nat /\ DOMAIN p.nodes \subseteq 0 .. p.next - 1
      /\ \A n \in DOMAIN p.nodes : InPlace(p.nodes, n)
  BY DEF Open, Tree
<1>4. /\ next \in Nat /\ next >= p.next /\ DOMAIN result.nodes = {i} \cup ids
      /\ IsColordata(r) /\ r.depth \in Nat /\ r.status \in Int
      /\ r.same \cap r.diff = {} /\ Kids(r) = ids /\ (r.status >= finished => ids = {})
      /\ \A k \in ids : /\ IsColordata(result.nodes[k]) /\ result.nodes[k].parent = i
                        /\ result.nodes[k].depth \in Nat
                        /\ result.nodes[k].same = {} /\ result.nodes[k].diff = {}
                        /\ result.nodes[k].status \in Int /\ result.nodes[k].status < finished
  BY DEF IsResult, next
<1>. HIDE DEF r, best, parent
<1>5. /\ IsColordata(adopted) /\ adopted.parent = parent /\ adopted.depth = r.depth
      /\ adopted.status = r.status /\ adopted.same = r.same /\ adopted.diff = r.diff
  BY <1>4, AdoptedWritten
<1>. HIDE DEF adopted
<1>6. i \notin ids /\ \A n \in DOMAIN p.nodes : n \notin ids
  BY <1>3, <1>4
<1>7. /\ DOMAIN nodes = DOMAIN p.nodes \cup ids /\ nodes[i] = adopted
      /\ \A k \in ids : nodes[k] = result.nodes[k]
      /\ \A n \in DOMAIN p.nodes : n # i => nodes[n] = p.nodes[n]
      /\ nodes = [n \in DOMAIN nodes |-> nodes[n]]
  BY <1>3, <1>4, <1>6 DEF nodes
<1>8. DOMAIN nodes \subseteq 0 .. next - 1
  BY <1>3, <1>4, <1>7
<1>. HIDE DEF ids, node
<1>9. \A n \in DOMAIN nodes : n = i \/ n \in ids \/ (n \in DOMAIN p.nodes /\ n # i)
  BY <1>7
<1>10. Kids(nodes[i]) = ids
  BY <1>4, <1>5, <1>7 DEF Kids
<1>11. ASSUME NEW k \in ids
       PROVE  /\ IsColordata(nodes[k]) /\ nodes[k].parent = i /\ nodes[k].depth \in Nat
              /\ nodes[k].same = {} /\ nodes[k].diff = {} /\ Kids(nodes[k]) = {}
              /\ nodes[k].status \in Int /\ nodes[k].status < finished
              /\ ~(nodes[k].status >= finished)
  BY <1>4, <1>7 DEF Kids, finished
<1>12. IsProblem(q)
  <2>1. \A n \in DOMAIN nodes : IsColordata(nodes[n])
    BY <1>3, <1>5, <1>7, <1>9, <1>11 DEF IsProblem
  <2>. QED  BY <1>2, <1>7, <2>1 DEF IsProblem
<1>13. InPlace(nodes, i)
  <2>1. nodes[i].status >= finished => Kids(nodes[i]) = {}
    BY <1>4, <1>5, <1>7, <1>10
  <2>2. parent # None => parent \in DOMAIN nodes /\ i \in Kids(nodes[parent])
    BY <1>3, <1>7 DEF InPlace, parent
  <2>3. \A k \in Kids(nodes[i]) : k \in DOMAIN nodes /\ nodes[k].parent = i
    BY <1>7, <1>10, <1>11
  <2>. QED  BY <1>4, <1>5, <1>7, <2>1, <2>2, <2>3 DEF InPlace
<1>14. ASSUME NEW k \in ids
       PROVE  InPlace(nodes, k)
  <2>1. nodes[k].status \in Int /\ i \in DOMAIN nodes
    BY <1>3, <1>7, <1>11
  <2>. QED  BY <1>10, <1>11, <2>1 DEF InPlace
<1>15. ASSUME NEW n \in DOMAIN p.nodes, n # i
       PROVE  InPlace(nodes, n)
  <2>1. InPlace(p.nodes, n) /\ nodes[n] = p.nodes[n]
    BY <1>3, <1>7, <1>15
  <2>2. \A k \in Kids(nodes[n]) : k \in DOMAIN nodes /\ nodes[k].parent = n
    <3>1. ASSUME NEW k \in Kids(nodes[n]) PROVE k \in DOMAIN nodes /\ nodes[k].parent = n
      <4>1. k \in DOMAIN p.nodes /\ p.nodes[k].parent = n
        BY <2>1 DEF InPlace
      <4>. QED  BY <1>5, <1>7, <4>1 DEF parent
    <3>. QED  BY <3>1
  <2>3. nodes[n].parent # None =>
          nodes[n].parent \in DOMAIN nodes /\ n \in Kids(nodes[nodes[n].parent])
    BY <1>3, <1>7, <2>1 DEF InPlace
  <2>. QED  BY <2>1, <2>2, <2>3 DEF InPlace
<1>16. q.nodes = nodes /\ q.heap = p.heap /\ q.next = next
  BY <1>2
<1>17. Tree(q)
  BY <1>4, <1>8, <1>9, <1>12, <1>13, <1>14, <1>15, <1>16 DEF Tree
<1>18. ids \subseteq Open(q)
  BY <1>7, <1>11, <1>16 DEF Open
<1>19. ASSUME NEW n, n # i, n \notin ids
       PROVE  n \in Open(q) <=> n \in Open(p)
  <2>1. n \in DOMAIN nodes <=> n \in DOMAIN p.nodes
    BY <1>7, <1>19
  <2>2. n \in DOMAIN p.nodes => nodes[n] = p.nodes[n]
    BY <1>7, <1>19
  <2>. QED  BY <1>16, <2>1, <2>2 DEF Open
<1>20. Kids(q.nodes[i]) = ids /\ i \in DOMAIN q.nodes
  BY <1>3, <1>7, <1>10, <1>16
<1>21. Grown(p, i, result, q)
  <2>1. ids = p.next .. q.next - 1
    BY <1>16 DEF ids
  <2>2. q.next = result.next
    BY <1>16 DEF next
  <2>. QED  BY <1>7, <1>16, <1>18, <1>19, <1>20, <2>1, <2>2 DEF Grown
<1>. QED  BY <1>17, <1>21 DEF q

(* The boss forgets the backups. *)
LEMMA ForgettingKeeps ==
  ASSUME NEW p, NEW out, Accounts(p, out)
  PROVE  /\ Accounts(Forgetting(p), out) /\ StatusKept(p, Forgetting(p), out)
         /\ Forgetting(p).nodes = p.nodes
<1> DEFINE q == Forgetting(p)
<1>1. q = [nodes |-> p.nodes, heap |-> p.heap, ub |-> p.ub, next |-> p.next,
           strategy |-> p.strategy, files |-> <<>>]
  BY DEF Forgetting, Accounts, Tree, IsProblem
<1>. HIDE DEF q
<1>2. IsProblem(q)
  BY <1>1 DEF Accounts, Tree, IsProblem
<1>3. q.nodes = p.nodes /\ q.heap = p.heap /\ q.next = p.next
  BY <1>1
<1>4. Accounts(q, out) /\ StatusKept(p, q, out) /\ q.nodes = p.nodes
  BY <1>2, <1>3, SameNodesAccount DEF StatusKept
<1>. QED  BY <1>4 DEF q

(* When a result is received, its node and the children are accounted for. *)
LEMMA ReceiveAccounts ==
  ASSUME NEW p, NEW out, Accounts(p, out), NEW i \in out,
         NEW result, IsResult(result, i, p.next)
  PROVE  LET q == receive_colordata(p, i, result)
             u == InsertAll(q, InOrder(q.nodes[i]))
             w == Received(q, i)
         IN  /\ Accounts(w, out \ {i}) /\ StatusKept(p, w, out \ {i})
             /\ Graphs(adapt_global_upper_bound(u, u.nodes[i].ub), w)
<1> DEFINE q == receive_colordata(p, i, result)
           S == Kids(q.nodes[i])
           big == (out \ {i}) \cup S \cup ({i} \cap Open(q))
           kids == InOrder(q.nodes[i])
           u == InsertAll(q, kids)
           v == adapt_global_upper_bound(u, u.nodes[i].ub)
           w == remove_finished_subtree(v, i)
           rest == out \ {i}
<1>1. Received(q, i) = w
  BY DEF Received, Strictly
<1>. HIDE DEF w
<1>2. /\ Tree(p) /\ i \in Open(p) /\ p.heap \cap out = {} /\ Open(p) = p.heap \cup out
      /\ i \notin p.heap /\ Open(p) \subseteq 0 .. p.next - 1 /\ p.next \in Nat
      /\ Open(p) \subseteq DOMAIN p.nodes
  BY DEF Accounts, Open, Tree
<1>3. Tree(q) /\ Grown(p, i, result, q)
  BY <1>2, ReceiveGrows
<1>. HIDE DEF q, u, v
<1>4. /\ q.heap = p.heap /\ i \in DOMAIN q.nodes /\ S = p.next .. q.next - 1
      /\ \A n : n # i /\ n \notin S => (n \in Open(q) <=> n \in Open(p))
      /\ S \subseteq Open(q)
      /\ \A n \in DOMAIN p.nodes : n # i => q.nodes[n].status = p.nodes[n].status
  BY <1>3 DEF Grown
<1>5. S \cap Open(p) = {} /\ i \notin S /\ S \subseteq 0 .. q.next - 1 /\ q.next \in Nat
  <2>1. q.next \in Nat
    BY <1>3 DEF Tree
  <2>. HIDE DEF S
  <2>. QED  BY <1>2, <1>4, <2>1
<1>6. Lists(kids, S)
  <2>1. q.nodes[i].same \cap q.nodes[i].diff = {}
    BY <1>3, <1>4 DEF Tree, InPlace
  <2>. QED  BY <1>5, <2>1, InOrderLists
<1>. HIDE DEF S, kids
<1>7. Accounts(q, big)
  <2>1. p.heap \cap big = {}
    BY <1>2, <1>5
  <2>2. \A n : n \in Open(q) <=> n \in p.heap \cup big
    BY <1>2, <1>4, <1>5
  <2>. HIDE DEF big
  <2>3. Open(q) = p.heap \cup big
    BY <2>2
  <2>. QED  BY <1>3, <1>4, <2>1, <2>3 DEF Accounts
<1>8. Accounts(u, big \ S) /\ Keeps(q, u, S)
  <2>1. S \subseteq big
    OBVIOUS
  <2>. HIDE DEF big
  <2>. QED  BY <1>6, <1>7, <2>1, InsertAllAccounts DEF u
<1>9. i \notin u.heap /\ i \in DOMAIN u.nodes
  <2>1. i \in DOMAIN u.nodes /\ (i \in Open(u) <=> i \in Open(q))
    BY <1>4, <1>5, <1>8 DEF Keeps, SamePlace, Open, Kids
  <2>2. i \in Open(u) => i \in big \ S
    BY <1>5, <2>1
  <2>3. u.heap \cap (big \ S) = {} /\ u.heap \subseteq Open(u)
    <3>. HIDE DEF big
    <3>. QED  BY <1>8 DEF Accounts
  <2>. QED  BY <2>1, <2>2, <2>3
<1>10. \A n : n # i => (n \in big \ S <=> n \in rest)
  BY <1>2, <1>5
<1>11. /\ Accounts(v, big \ S)
       /\ v.nodes = u.nodes /\ v.heap = u.heap
  <2>. HIDE DEF big
  <2>1. IsProblem(v) /\ v.nodes = u.nodes /\ v.heap = u.heap /\ v.next = u.next
    BY <1>8, AdaptKeeps DEF Accounts, Tree, v
  <2>. QED  BY <1>8, <2>1, SameNodesAccount
<1>12. i # None
  BY <1>2 DEF None
<1>13. Nearly(v, rest, i) /\ i \in DOMAIN v.nodes
  <2> DEFINE left == big \ S
  <2>1. Accounts(v, left) /\ \A n : n # i => (n \in left <=> n \in rest)
    BY <1>10, <1>11
  <2>2. i \notin v.heap /\ i \in DOMAIN v.nodes /\ i \notin rest
    BY <1>9, <1>11
  <2>. HIDE DEF left, rest
  <2>3. Tree(v) /\ v.heap \cap rest = {} /\ i \notin v.heap \cup rest
    BY <2>1, <2>2 DEF Accounts
  <2>4. \A n : n # i => (n \in Open(v) <=> n \in v.heap \cup rest)
    BY <2>1 DEF Accounts
  <2>. QED  BY <1>12, <2>2, <2>3, <2>4 DEF Nearly
<1>14. Accounts(w, rest) /\ Spares(v, w, rest)
  <2>. HIDE DEF rest
  <2>. QED  BY <1>13, RemoveAccounts DEF w
<1>15. StatusKept(p, w, rest)
  <2>1. ASSUME NEW n \in rest PROVE w.nodes[n].status = p.nodes[n].status
    <3>1. w.nodes[n].status = v.nodes[n].status
      BY <1>14 DEF Spares
    <3>2. n \in DOMAIN p.nodes /\ n # i /\ n \in Open(p)
      BY <1>2
    <3>3. n \notin S /\ n \in DOMAIN q.nodes /\ q.nodes[n].status = p.nodes[n].status
      BY <1>4, <1>5, <3>2 DEF Open
    <3>4. u.nodes[n].status = q.nodes[n].status
      BY <1>8, <3>3 DEF Keeps
    <3>. QED  BY <1>11, <3>1, <3>3, <3>4
  <2>. QED  BY <2>1 DEF StatusKept
<1>16. /\ Accounts(Received(q, i), out \ {i}) /\ StatusKept(p, Received(q, i), out \ {i})
       /\ Graphs(v, Received(q, i))
  BY <1>1, <1>14, <1>15 DEF Spares
<1>. QED  BY <1>16 DEF q, u, v, kids

-----------------------------------------------------------------------------
(* Every step of the boss.                                                 *)

(* A node is given out. *)
LEMMA SubmittedAccounts ==
  ASSUME NEW p, NEW out, Accounts(p, out), NEW i \in p.heap
  PROVE  LET q == Submitted(p, i)
         IN  /\ Accounts(q, out \cup {i}) /\ StatusKept(p, q, out) /\ Graphs(p, q)
             /\ IsColordata(q.nodes[i]) /\ q.nodes[i].depth \in Nat
             /\ q.nodes[i].same = {} /\ q.nodes[i].diff = {}
             /\ q.nodes[i].status = submitted_for_branching
<1> DEFINE heap == p.heap \ {i}
           u == WithHeap(p, heap)
           v == WithUb(u, i, p.ub)
           q == Submitted(p, i)
           ub == p.ub
<1>1. q = WithStatus(v, i, submitted_for_branching)
  BY DEF Submitted, WithHeap, WithUb, WithStatus
<1>2. /\ Tree(p) /\ IsProblem(p) /\ p.heap \cap out = {} /\ Open(p) = p.heap \cup out
      /\ i \in DOMAIN p.nodes /\ Kids(p.nodes[i]) = {} /\ i \notin out
      /\ p.nodes[i].depth \in Nat
  BY DEF Accounts, Open, Tree, InPlace
<1>. HIDE DEF heap, q
<1>3. Changed(p, i, p.nodes[i].status, heap, u)
  BY <1>2, HeapWritten
<1>. HIDE DEF u
<1>4. Changed(u, i, u.nodes[i].status, u.heap, v)
  BY <1>3, UbWritten DEF Changed
<1>. HIDE DEF v
<1>5. Changed(p, i, p.nodes[i].status, heap, v)
  <2>1. u.heap = heap /\ u.nodes[i].status = p.nodes[i].status
    BY <1>2, <1>3 DEF Changed
  <2>. QED  BY <1>3, <1>4, <2>1, ChangedTwice
<1>6. Changed(v, i, submitted_for_branching, v.heap, q)
  BY <1>1, <1>5, StatusWritten DEF Changed
<1>7. Changed(p, i, submitted_for_branching, heap, q)
  <2>1. v.heap = heap
    BY <1>5 DEF Changed
  <2>. QED  BY <1>5, <1>6, <2>1, ChangedTwice
<1>8. /\ submitted_for_branching \in Int /\ submitted_for_branching < finished
      /\ ~(submitted_for_branching >= finished)
  BY DEF submitted_for_branching, finished
<1>9. /\ Tree(q) /\ Keeps(p, q, {i}) /\ i \in Open(q)
      /\ \A n : n # i => (n \in Open(q) <=> n \in Open(p))
  BY <1>2, <1>7, <1>8, ChangeKeepsTree
<1>10. /\ q.heap = heap /\ i \in DOMAIN q.nodes /\ SamePlace(p.nodes[i], q.nodes[i])
       /\ q.nodes[i].status = submitted_for_branching
  BY <1>2, <1>7 DEF Changed
<1>11. Accounts(q, out \cup {i})
  <2>1. q.heap \cap (out \cup {i}) = {}
    BY <1>2, <1>10 DEF heap
  <2>2. \A n : n \in Open(q) <=> n \in q.heap \cup (out \cup {i})
    BY <1>2, <1>9, <1>10 DEF heap
  <2>3. Open(q) = q.heap \cup (out \cup {i})
    BY <2>2
  <2>. QED  BY <1>9, <2>1, <2>3 DEF Accounts
<1>12. StatusKept(p, q, out)
  <2>1. out \subseteq DOMAIN p.nodes
    BY <1>2 DEF Open
  <2>. QED  BY <1>2, <1>9, <2>1 DEF Keeps, StatusKept
<1>13. IsColordata(q.nodes[i])
  BY <1>9, <1>10 DEF Tree, IsProblem
<1>14. /\ q.nodes[i].depth \in Nat /\ q.nodes[i].same = {} /\ q.nodes[i].diff = {}
  <2>1. p.nodes[i].same = {} /\ p.nodes[i].diff = {}
    BY <1>2 DEF Kids
  <2>. QED  BY <1>2, <1>10, <2>1 DEF SamePlace
<1>15. Graphs(p, q)
  BY <1>2, <1>9, CollectsGraphs
<1>. QED  BY <1>10, <1>11, <1>12, <1>13, <1>14, <1>15 DEF q

(* The search starts with it. *)
LEMMA InitialRoot ==
  ASSUME Init
  PROVE  \E opt \in 3 .. MaxOpt, excess \in 0 .. DsaturExcess : \E p :
           Starting(p, opt, opt + excess, opt + excess) /\ problem = insert_into_branching_heap(p, Root)
<1> DEFINE First(opt, excess, strategy, b) ==
             [nodes |-> [n \in {Root} |-> [Colordata(None, 0, b, opt + excess)
                                             EXCEPT !.best = opt + excess]],
              heap |-> {}, ub |-> opt + excess, next |-> 1, strategy |-> strategy,
              files |-> <<>>]
<1>2. PICK opt \in 3 .. MaxOpt, excess \in 0 .. DsaturExcess, strategy \in Strategies :
        \E lp \in Max({3, opt - MaxDepth}) .. opt : \E b \in Relaxed(opt, lp, 0, 0, FALSE) :
          problem = insert_into_branching_heap(First(opt, excess, strategy, b), Root)
  BY DEF Init
<1>. HIDE DEF First
<1>3. PICK lp \in Max({3, opt - MaxDepth}) .. opt : \E b \in Relaxed(opt, lp, 0, 0, FALSE) :
        problem = insert_into_branching_heap(First(opt, excess, strategy, b), Root)
  BY <1>2
<1>4. PICK b \in Relaxed(opt, lp, 0, 0, FALSE) :
        problem = insert_into_branching_heap(First(opt, excess, strategy, b), Root)
  BY <1>3
<1> DEFINE ub == opt + excess
           p == First(opt, excess, strategy, b)
<1>5. lp \in Nat /\ lp <= opt
  BY FirstRelaxation
<1>6. Starting(p, opt, ub, ub)
  <2>1. p = [nodes |-> [n \in {Root} |-> [Colordata(None, 0, b, ub) EXCEPT !.best = ub]],
             heap |-> {}, ub |-> ub, next |-> 1, strategy |-> strategy, files |-> <<>>]
    BY DEF First
  <2> DEFINE only == FALSE
  <2>2. b \in Relaxed(opt, lp, 0, 0, only)
    BY Zenon
  <2>. HIDE DEF ub, p, only
  <2>3. opt \in Nat
    OBVIOUS
  <2>. QED  BY <1>5, <2>1, <2>2, <2>3, RootStarts
<1>. QED  BY <1>4, <1>6

(* The root enters the heap, or the search ends at once. *)
LEMMA InitAccounts == Init => BossInv
<1>. SUFFICES ASSUME Init PROVE BossInv
  OBVIOUS
<1>1. PICK opt \in 3 .. MaxOpt, excess \in 0 .. DsaturExcess :
        \E p : /\ Starting(p, opt, opt + excess, opt + excess)
               /\ problem = insert_into_branching_heap(p, Root)
  BY InitialRoot
<1>2. PICK p : Starting(p, opt, opt + excess, opt + excess) /\ problem = insert_into_branching_heap(p, Root)
  BY <1>1
<1>3. Accounts(p, {Root})
  BY <1>2, StartingTree
<1>4. Accounts(problem, {Root} \ {Root})
  BY <1>2, <1>3, InsertAccounts
<1>5. /\ joblist = {} /\ lost = {} /\ npending = 0
      /\ \A w \in Workers : worker[w] = "idle"
      /\ DOMAIN worker = Workers
  BY DEF Init
<1>6. joblist \cup lost = {Root} \ {Root} /\ joblist \cap lost = {}
  BY <1>5
<1>7. IsFiniteSet(joblist) /\ npending = Cardinality(joblist)
  BY <1>5, FS_EmptySet
<1>8. \A w \in Workers : worker[w] # "busy"
  BY <1>5
<1>. QED  BY <1>4, <1>5, <1>6, <1>7, <1>8 DEF BossInv

(* The boss sends the next node of the heap. *)
LEMMA SendAccounts ==
  ASSUME BossInv, NEW w \in Workers, SendJob(w)
  PROVE  BossInv'
<1> DEFINE out == joblist \cup lost
           answer(v, i, q) == IF v = w THEN [id |-> i, cd |-> q.nodes[i]] ELSE job[v]
           jobs(i, q) == [v \in DOMAIN job \cup {w} |-> answer(v, i, q)]
<1>1. PICK p \in Pruned(problem) : \E i \in COLORNWTheap_min(p) :
        /\ problem' = Forgetting(Submitted(p, i))
        /\ joblist' = joblist \cup {i}
        /\ job' = jobs(i, Submitted(p, i))
  BY DEF SendJob
<1>2. PICK i \in COLORNWTheap_min(p) :
        /\ problem' = Forgetting(Submitted(p, i))
        /\ joblist' = joblist \cup {i}
        /\ job' = jobs(i, Submitted(p, i))
  BY <1>1
<1>3. i \in p.heap
  BY DEF COLORNWTheap_min, Deepest, Lowest
<1> DEFINE q == Submitted(p, i)
           r == Forgetting(q)
<1>4. problem' = r /\ joblist' = joblist \cup {i} /\ job' = jobs(i, q)
  BY <1>2
<1>5. worker' = [worker EXCEPT ![w] = "busy"] /\ npending' = npending + 1 /\ lost' = lost
  BY DEF SendJob
<1>6. /\ Accounts(problem, out) /\ joblist \cap lost = {}
      /\ IsFiniteSet(joblist) /\ npending = Cardinality(joblist)
      /\ \A n \in joblist : problem.nodes[n].status = submitted_for_branching
      /\ DOMAIN worker = Workers
      /\ \A v \in Workers : worker[v] = "busy" => v \in DOMAIN job /\ IsJob(job[v])
  BY DEF BossInv
<1>. HIDE DEF q, r, out
<1>7. Accounts(p, out) /\ StatusKept(problem, p, out)
  BY <1>6, PrunedAccounts
<1>8. /\ Accounts(q, out \cup {i}) /\ StatusKept(p, q, out)
      /\ IsColordata(q.nodes[i]) /\ q.nodes[i].depth \in Nat
      /\ q.nodes[i].same = {} /\ q.nodes[i].diff = {}
      /\ q.nodes[i].status = submitted_for_branching
  BY <1>3, <1>7, SubmittedAccounts DEF q
<1>9. Accounts(r, out \cup {i}) /\ r.nodes = q.nodes
  BY <1>8, ForgettingKeeps DEF r
<1>10. i \notin out
  BY <1>3, <1>7 DEF Accounts
<1>11. Accounts(problem', joblist' \cup lost') /\ joblist' \cap lost' = {}
  <2>1. joblist' \cup lost' = out \cup {i}
    BY <1>4, <1>5 DEF out
  <2>2. joblist' \cap lost' = {}
    BY <1>4, <1>5, <1>6, <1>10 DEF out
  <2>. QED  BY <1>4, <1>9, <2>1, <2>2
<1>12. IsFiniteSet(joblist') /\ npending' = Cardinality(joblist')
  BY <1>4, <1>5, <1>6, <1>10, FS_AddElement DEF out
<1>13. \A n \in joblist' : problem'.nodes[n].status = submitted_for_branching
  BY <1>4, <1>6, <1>7, <1>8, <1>9 DEF StatusKept, out
<1>14. ASSUME NEW v \in Workers, worker'[v] = "busy"
       PROVE  v \in DOMAIN job' /\ IsJob(job'[v])
  <2>1. v \in DOMAIN job' /\ job'[v] = answer(v, i, q)
    <3>1. v = w \/ v \in DOMAIN job
      BY <1>5, <1>6, <1>14
    <3>. HIDE DEF answer
    <3>. QED  BY <1>4, <3>1
  <2>2. CASE v = w
    <3>1. job'[v].cd = q.nodes[i]
      BY <2>1, <2>2
    <3>. QED  BY <1>8, <2>1, <3>1 DEF IsJob
  <2>3. CASE v # w
    <3>1. job'[v] = job[v] /\ worker[v] = "busy"
      BY <1>5, <1>14, <2>1, <2>3
    <3>. QED  BY <1>6, <2>1, <3>1
  <2>. QED  BY <2>2, <2>3
<1>15. DOMAIN worker' = Workers
  BY <1>5, <1>6
<1>. QED  BY <1>11, <1>12, <1>13, <1>14, <1>15 DEF BossInv

(* The requests and answers of workers and the faults: a worker that is not *)
(* busy has no job any more.                                               *)
LEMMA BecomesKeepsJobs ==
  ASSUME BossInv, NEW w, NEW state, state # "busy", Becomes(w, state)
  PROVE  /\ DOMAIN worker' = Workers
         /\ \A v \in Workers : worker'[v] = "busy" => v \in DOMAIN job' /\ IsJob(job'[v])
<1>1. /\ worker' = [worker EXCEPT ![w] = state]
      /\ job' = [v \in DOMAIN job \ {w} |-> job[v]]
  BY DEF Becomes
<1>2. /\ DOMAIN worker = Workers
      /\ \A v \in Workers : worker[v] = "busy" => v \in DOMAIN job /\ IsJob(job[v])
  BY DEF BossInv
<1>3. ASSUME NEW v \in Workers, worker'[v] = "busy"
      PROVE  v \in DOMAIN job' /\ IsJob(job'[v])
  <2>1. v # w /\ worker[v] = "busy"
    BY <1>1, <1>2, <1>3
  <2>2. v \in DOMAIN job' /\ job'[v] = job[v]
    BY <1>1, <1>2, <2>1
  <2>. QED  BY <1>2, <2>1, <2>2
<1>. QED  BY <1>1, <1>2, <1>3

(* A job is located when a worker reports it: it leaves the list. *)
LEMMA LocatedCounts ==
  ASSUME BossInv, NEW i \in joblist, joblist' = joblist \ {i}, npending' = npending - 1
  PROVE  IsFiniteSet(joblist') /\ npending' = Cardinality(joblist')
BY FS_RemoveElement DEF BossInv

(* A worker reports a node and its children. *)
LEMMA ReceiveKeeps ==
  ASSUME BossInv, NEW w \in Workers, Receive(w)
  PROVE  BossInv'
<1> DEFINE out == joblist \cup lost
           j == job[w]
           i == j.id
           next == problem.next
<1>1. /\ worker[w] = "busy" /\ i \in joblist
      /\ joblist' = joblist \ {i} /\ npending' = npending - 1 /\ lost' = lost
      /\ Becomes(w, "idle")
  BY DEF Receive, Located, Reports
<1>2. PICK result \in Results(j) :
        problem' = Forgetting(Received(receive_colordata(problem, i, result), i))
  BY DEF Receive
<1> DEFINE q == receive_colordata(problem, i, result)
           r == Received(q, i)
<1>3. problem' = Forgetting(r)
  BY <1>2
<1>4. /\ Accounts(problem, out) /\ joblist \cap lost = {} /\ IsJob(j)
      /\ \A n \in joblist : problem.nodes[n].status = submitted_for_branching
  BY <1>1 DEF BossInv
<1>. HIDE DEF j, q, r
<1>5. i \in out /\ problem.next \in Nat /\ i \in Nat /\ i < problem.next
  <2>1. i \in Open(problem) /\ Open(problem) \subseteq 0 .. problem.next - 1 /\ problem.next \in Nat
    BY <1>1, <1>4 DEF Accounts, Open, Tree
  <2>. QED  BY <1>1, <2>1
<1>. HIDE DEF i, out, next
<1>6. IsResult(result, i, next)
  <2>1. j.id = i /\ next \in Nat /\ i \in Nat /\ i < next /\ problem.next = next
    BY <1>5 DEF i, next
  <2>. QED  BY <1>4, <2>1, ResultsAre
<1>7. Accounts(r, out \ {i}) /\ StatusKept(problem, r, out \ {i})
  BY <1>4, <1>5, <1>6, ReceiveAccounts DEF q, r, next
<1>8. Accounts(problem', out \ {i}) /\ problem'.nodes = r.nodes
  BY <1>3, <1>7, ForgettingKeeps
<1>9. joblist' \cup lost' = out \ {i} /\ joblist' \cap lost' = {} /\ joblist' \subseteq out \ {i}
  BY <1>1, <1>4 DEF out
<1>10. \A n \in joblist' : problem'.nodes[n].status = submitted_for_branching
  BY <1>1, <1>4, <1>7, <1>8, <1>9 DEF StatusKept
<1>11. IsFiniteSet(joblist') /\ npending' = Cardinality(joblist')
  BY <1>1, LocatedCounts
<1>12. /\ DOMAIN worker' = Workers
       /\ \A v \in Workers : worker'[v] = "busy" => v \in DOMAIN job' /\ IsJob(job'[v])
  BY <1>1, BecomesKeepsJobs
<1>. QED  BY <1>8, <1>9, <1>10, <1>11, <1>12 DEF BossInv

(* The values of a colordata that has been overwritten in part. *)
LEMMA OverwrittenWritten ==
  ASSUME NEW old, IsColordata(old), NEW new, NEW r \in Overwritten(old, new)
  PROVE  /\ IsColordata(r) /\ r.parent = old.parent /\ r.same = old.same /\ r.diff = old.diff
         /\ r.opt = old.opt
         /\ r.depth \in {old.depth, new.depth} /\ r.status \in {old.status, new.status}
         /\ r.ub \in {old.ub, new.ub}
<1> DEFINE D == [old EXCEPT !.depth = new.depth]
           S == [D EXCEPT !.status = new.status]
           L == [S EXCEPT !.lb = new.lb]
           U == [L EXCEPT !.ub = new.ub]
           B == [U EXCEPT !.best = new.best]
           Same(c) == /\ IsColordata(c) /\ c.parent = old.parent
                      /\ c.same = old.same /\ c.diff = old.diff /\ c.opt = old.opt
<1>0. Same(old)
  OBVIOUS
<1>1. Same(D) /\ D.depth = new.depth /\ D.status = old.status /\ D.ub = old.ub
  BY DEF IsColordata
<1>. HIDE DEF D
<1>2. Same(S) /\ S.depth = new.depth /\ S.status = new.status /\ S.ub = old.ub
  BY <1>1 DEF IsColordata
<1>. HIDE DEF S
<1>3. Same(L) /\ L.depth = new.depth /\ L.status = new.status /\ L.ub = old.ub
  BY <1>2 DEF IsColordata
<1>. HIDE DEF L
<1>4. Same(U) /\ U.depth = new.depth /\ U.status = new.status /\ U.ub = new.ub
  BY <1>3 DEF IsColordata
<1>. HIDE DEF U
<1>5. Same(B) /\ B.depth = new.depth /\ B.status = new.status /\ B.ub = new.ub
  BY <1>4 DEF IsColordata
<1>6. r \in {old, D, S, L, U, B}
  BY DEF Overwritten, D, S, L, U
<1>. HIDE DEF B, Same
<1>7. Same(r) /\ r.depth \in {old.depth, new.depth} /\ r.status \in {old.status, new.status}
      /\ r.ub \in {old.ub, new.ub}
  BY <1>0, <1>1, <1>2, <1>3, <1>4, <1>5, <1>6
<1>. QED  BY <1>7 DEF Same

(* A child before its fields are read. *)
LEMMA ChildInitialized ==
  ASSUME NEW new, IsColordata(new)
  PROVE  LET c == init_unique_colordata(new)
         IN  /\ IsColordata(c) /\ c.parent = new.parent /\ c.same = new.same /\ c.diff = new.diff
             /\ c.opt = new.opt /\ c.depth = 0 /\ c.status = initialized /\ c.ub = COLORNWT_MAX
<1> DEFINE D == [new EXCEPT !.depth = 0]
           S == [D EXCEPT !.status = initialized]
           L == [S EXCEPT !.lb = 1]
           U == [L EXCEPT !.ub = COLORNWT_MAX]
           Same(c) == /\ IsColordata(c) /\ c.parent = new.parent
                      /\ c.same = new.same /\ c.diff = new.diff /\ c.opt = new.opt
<1>1. Same(D) /\ D.depth = 0
  BY DEF IsColordata
<1>. HIDE DEF D
<1>2. Same(S) /\ S.depth = 0 /\ S.status = initialized
  BY <1>1 DEF IsColordata
<1>. HIDE DEF S
<1>3. Same(L) /\ L.depth = 0 /\ L.status = initialized
  BY <1>2 DEF IsColordata
<1>. HIDE DEF L
<1>4. Same(U) /\ U.depth = 0 /\ U.status = initialized /\ U.ub = COLORNWT_MAX
  BY <1>3 DEF IsColordata
<1> DEFINE c == init_unique_colordata(new)
<1>5. c = U
  BY DEF init_unique_colordata, D, S, L
<1>. HIDE DEF U, c
<1>6. /\ IsColordata(c) /\ c.parent = new.parent /\ c.same = new.same /\ c.diff = new.diff
      /\ c.opt = new.opt /\ c.depth = 0 /\ c.status = initialized /\ c.ub = COLORNWT_MAX
  BY <1>4, <1>5
<1>. QED  BY <1>6 DEF c

(* The part of a result that has arrived: part of the node new, or the node *)
(* and its children up to a last one, of which child has arrived.          *)
ArrivedNode(part, old, new, i, next) ==
  \E r \in Overwritten(old, new) : part = [nodes |-> [n \in {i} |-> r], next |-> next]

ArrivedChildren(part, result, new, i, next) ==
  \E last \in Kids(new) :
  \E child \in Overwritten(init_unique_colordata(result.nodes[last]), result.nodes[last]) :
     part = [nodes |-> [n \in {i} \cup next .. last |->
                IF n = i THEN WithKids(new, new.same \cap next .. last,
                                            new.diff \cap next .. last)
                ELSE IF n = last THEN child
                ELSE result.nodes[n]],
             next |-> last + 1]

LEMMA PartArrived ==
  ASSUME NEW old, NEW result, NEW i, NEW next, NEW part \in Arrived(old, result, i, next)
  PROVE  \/ ArrivedNode(part, old, result.nodes[i], i, next)
         \/ ArrivedChildren(part, result, result.nodes[i], i, next)
BY DEF Arrived, WithKids, ArrivedNode, ArrivedChildren

(* It is a result as well. *)
LEMMA ArrivedIsResult ==
  ASSUME NEW i \in Nat, NEW next \in Nat, i < next,
         NEW old, IsColordata(old), old.depth \in Nat, old.same = {}, old.diff = {},
         old.status \in Int,
         NEW result, IsResult(result, i, next),
         NEW part \in Arrived(old, result, i, next)
  PROVE  IsResult(part, i, next)
<1> DEFINE new == result.nodes[i]
<1>1. /\ result.next \in Nat /\ result.next >= next
      /\ IsColordata(new) /\ new.depth \in Nat /\ new.status \in Int
      /\ new.same \cap new.diff = {} /\ Kids(new) = next .. result.next - 1
      /\ new.status >= finished => Kids(new) = {}
      /\ \A k \in next .. result.next - 1 :
           LET c == result.nodes[k]
           IN  /\ IsColordata(c) /\ c.parent = i /\ c.depth \in Nat
               /\ c.same = {} /\ c.diff = {} /\ c.status \in Int /\ c.status < finished
  BY DEF IsResult
<1>. HIDE DEF new
<1>2. ASSUME NEW r \in Overwritten(old, new),
             part = [nodes |-> [n \in {i} |-> r], next |-> next]
      PROVE  IsResult(part, i, next)
  <2>1. /\ IsColordata(r) /\ r.same = {} /\ r.diff = {}
        /\ r.depth \in Nat /\ r.status \in Int
    BY <1>1, OverwrittenWritten
  <2>2. /\ part.next = next /\ DOMAIN part.nodes = {i} /\ part.nodes[i] = r
        /\ next .. next - 1 = {} /\ Kids(r) = {}
    BY <1>2, <2>1 DEF Kids
  <2>. QED  BY <2>1, <2>2 DEF IsResult
<1>3. ASSUME NEW last \in Kids(new),
             NEW child \in Overwritten(init_unique_colordata(result.nodes[last]),
                                       result.nodes[last]),
             part = [nodes |-> [n \in {i} \cup next .. last |->
                        IF n = i THEN WithKids(new, new.same \cap next .. last,
                                                    new.diff \cap next .. last)
                        ELSE IF n = last THEN child
                        ELSE result.nodes[n]],
                     next |-> last + 1]
      PROVE  IsResult(part, i, next)
  <2> DEFINE ids == next .. last
             r == WithKids(new, new.same \cap ids, new.diff \cap ids)
             node(n) == IF n = i THEN r ELSE IF n = last THEN child ELSE result.nodes[n]
             nodes == [n \in {i} \cup ids |-> node(n)]
             c == result.nodes[last]
             blank == init_unique_colordata(c)
  <2>1. /\ last \in next .. result.next - 1 /\ last \in Nat /\ last >= next
        /\ ids \subseteq next .. result.next - 1 /\ i \notin ids /\ last \in ids
        /\ next .. (last + 1) - 1 = ids
    BY <1>1
  <2>2. part = [nodes |-> nodes, next |-> last + 1]
    BY <1>3
  <2>3. /\ IsColordata(r) /\ r.depth = new.depth /\ r.status = new.status
        /\ r.same = new.same \cap ids /\ r.diff = new.diff \cap ids
    <3>. HIDE DEF ids
    <3>. QED  BY <1>1, ChildrenWritten
  <2>4. ~(new.status >= finished)
    BY <1>1
  <2>5. /\ IsColordata(c) /\ c.parent = i /\ c.depth \in Nat
        /\ c.same = {} /\ c.diff = {} /\ c.status \in Int /\ c.status < finished
    BY <1>1, <2>1
  <2>. HIDE DEF c, r, nodes
  <2>6. /\ IsColordata(blank) /\ blank.parent = i /\ blank.depth = 0
        /\ blank.same = {} /\ blank.diff = {} /\ blank.status = initialized
    BY <2>5, ChildInitialized
  <2>. HIDE DEF blank
  <2>7. /\ IsColordata(child) /\ child.parent = i /\ child.depth \in Nat
        /\ child.same = {} /\ child.diff = {} /\ child.status \in Int /\ child.status < finished
    <3>1. child \in Overwritten(blank, c)
      BY DEF blank, c
    <3>2. /\ IsColordata(child) /\ child.parent = blank.parent /\ child.same = blank.same
          /\ child.diff = blank.diff
          /\ child.depth \in {blank.depth, c.depth} /\ child.status \in {blank.status, c.status}
      BY <2>6, <3>1, OverwrittenWritten
    <3>3. initialized \in Int /\ initialized < finished
      BY DEF initialized, finished
    <3>. QED  BY <2>5, <2>6, <3>2, <3>3
  <2>8. part.next = last + 1 /\ part.nodes = nodes
    BY <2>2
  <2>9. /\ DOMAIN nodes = {i} \cup ids /\ nodes[i] = r /\ nodes[last] = child
        /\ \A k \in ids : k # last => nodes[k] = result.nodes[k]
    BY <2>1 DEF nodes
  <2>10. r.same \cap r.diff = {} /\ Kids(r) = ids
    BY <1>1, <2>1, <2>3 DEF Kids
  <2>. HIDE DEF ids, node
  <2>11. ASSUME NEW k \in ids
         PROVE  /\ IsColordata(nodes[k]) /\ nodes[k].parent = i /\ nodes[k].depth \in Nat
                /\ nodes[k].same = {} /\ nodes[k].diff = {}
                /\ nodes[k].status \in Int /\ nodes[k].status < finished
    <3>1. CASE k = last
      BY <2>7, <2>9, <3>1
    <3>2. CASE k # last
      <4>1. nodes[k] = result.nodes[k] /\ k \in next .. result.next - 1
        BY <2>1, <2>9, <3>2
      <4>. QED  BY <1>1, <4>1
    <3>. QED  BY <3>1, <3>2
  <2>12. part.next \in Nat /\ part.next >= next /\ ids = next .. part.next - 1
    BY <2>1, <2>8
  <2>. QED  BY <1>1, <2>3, <2>4, <2>8, <2>9, <2>10, <2>11, <2>12 DEF IsResult
<1>4. ArrivedNode(part, old, new, i, next) \/ ArrivedChildren(part, result, new, i, next)
  BY PartArrived DEF new
<1>5. CASE ArrivedNode(part, old, new, i, next)
  BY <1>2, <1>5 DEF ArrivedNode
<1>6. CASE ArrivedChildren(part, result, new, i, next)
  <2>1. PICK last \in Kids(new) :
         \E child \in Overwritten(init_unique_colordata(result.nodes[last]), result.nodes[last]) :
          part = [nodes |-> [n \in {i} \cup next .. last |->
                     IF n = i THEN WithKids(new, new.same \cap next .. last,
                                                 new.diff \cap next .. last)
                     ELSE IF n = last THEN child
                     ELSE result.nodes[n]],
                  next |-> last + 1]
    BY <1>6 DEF ArrivedChildren
  <2>2. PICK child \in Overwritten(init_unique_colordata(result.nodes[last]), result.nodes[last]) :
          part = [nodes |-> [n \in {i} \cup next .. last |->
                     IF n = i THEN WithKids(new, new.same \cap next .. last,
                                                 new.diff \cap next .. last)
                     ELSE IF n = last THEN child
                     ELSE result.nodes[n]],
                  next |-> last + 1]
    BY <2>1
  <2>. QED  BY <1>3, <2>2
<1>. QED  BY <1>4, <1>5, <1>6

(* The graphs that have arrived are those of the node and of the result.   *)
LEMMA ArrivedGraphs ==
  ASSUME NEW i \in Nat, NEW next \in Nat, i < next,
         NEW old, IsColordata(old),
         NEW result, IsResult(result, i, next),
         NEW part \in Arrived(old, result, i, next)
  PROVE  /\ part.nodes[i].opt \in {old.opt, result.nodes[i].opt}
         /\ \A k \in next .. part.next - 1 : /\ k \in next .. result.next - 1
                                             /\ part.nodes[k].opt = result.nodes[k].opt
<1> DEFINE new == result.nodes[i]
<1>1. /\ IsColordata(new) /\ Kids(new) = next .. result.next - 1
      /\ \A k \in next .. result.next - 1 : IsColordata(result.nodes[k])
  BY DEF IsResult
<1>. HIDE DEF new
<1>2. CASE ArrivedNode(part, old, new, i, next)
  <2>1. PICK r \in Overwritten(old, new) : part = [nodes |-> [n \in {i} |-> r], next |-> next]
    BY <1>2 DEF ArrivedNode
  <2>2. r.opt = old.opt
    BY OverwrittenWritten
  <2>3. part.nodes[i] = r /\ part.next = next
    BY <2>1
  <2>. QED  BY <2>2, <2>3
<1>3. CASE ArrivedChildren(part, result, new, i, next)
  <2> DEFINE shape(last, child) ==
               [nodes |-> [n \in {i} \cup next .. last |->
                  IF n = i THEN WithKids(new, new.same \cap next .. last,
                                              new.diff \cap next .. last)
                  ELSE IF n = last THEN child
                  ELSE result.nodes[n]],
                next |-> last + 1]
  <2>1. PICK last \in Kids(new) :
         \E child \in Overwritten(init_unique_colordata(result.nodes[last]), result.nodes[last]) :
           part = shape(last, child)
    BY <1>3 DEF ArrivedChildren
  <2>2. PICK child \in Overwritten(init_unique_colordata(result.nodes[last]), result.nodes[last]) :
           part = shape(last, child)
    BY <2>1
  <2>3. last \in next .. result.next - 1 /\ last \in Nat /\ result.next \in Int /\ i \notin next .. last
    BY <1>1 DEF IsResult
  <2> DEFINE c == result.nodes[last]
             blank == init_unique_colordata(c)
             r == WithKids(new, new.same \cap next .. last, new.diff \cap next .. last)
  <2>4. IsColordata(c)
    BY <1>1, <2>3
  <2>5. r.opt = new.opt
    BY <1>1 DEF WithKids, IsColordata
  <2>. HIDE DEF c, r
  <2>6. IsColordata(blank) /\ blank.opt = c.opt
    BY <2>4, ChildInitialized
  <2>. HIDE DEF blank
  <2>7. child.opt = c.opt
    <3>1. child \in Overwritten(blank, c)
      BY DEF blank, c
    <3>. QED  BY <2>6, <3>1, OverwrittenWritten
  <2>8. /\ part.next = last + 1 /\ part.nodes[i] = r
        /\ \A k \in next .. last : part.nodes[k] = IF k = last THEN child ELSE result.nodes[k]
    BY <2>2, <2>3 DEF r
  <2>9. \A k \in next .. last : k \in next .. result.next - 1
    BY <2>3
  <2>10. next .. part.next - 1 = next .. last
    BY <2>3, <2>8
  <2>. QED  BY <2>5, <2>7, <2>8, <2>9, <2>10 DEF c, new
<1>. QED  BY <1>2, <1>3, PartArrived DEF new

(* The connection breaks after the id: what has arrived of the node and of *)
(* its children and is still to be branched on is lost.                    *)
LEMMA ReceiveFailsKeeps ==
  ASSUME BossInv, NEW w \in Workers, ReceiveFails(w)
  PROVE  BossInv'
<1> DEFINE j == job[w]
           i == j.id
           p == problem
           next == p.next
           old == p.nodes[i]
<1>1. /\ worker[w] = "busy" /\ i \in joblist
      /\ joblist' = joblist \ {i} /\ npending' = npending - 1 /\ Becomes(w, "dead")
  BY DEF ReceiveFails, Located, Reports
<1>2. PICK result \in Results(j) : \E part \in Arrived(old, result, i, next) :
        /\ problem' = receive_colordata(p, i, part)
        /\ lost' = lost \cup (DOMAIN part.nodes \cap Unfinished(problem'))
  BY DEF ReceiveFails
<1>3. PICK part \in Arrived(old, result, i, next) :
        /\ problem' = receive_colordata(p, i, part)
        /\ lost' = lost \cup (DOMAIN part.nodes \cap Unfinished(problem'))
  BY <1>2
<1> DEFINE q == receive_colordata(p, i, part)
           ids == next .. q.next - 1
<1>4. /\ Accounts(p, joblist \cup lost) /\ joblist \cap lost = {} /\ IsJob(j)
      /\ \A n \in joblist : p.nodes[n].status = submitted_for_branching
  BY <1>1 DEF BossInv
<1>. HIDE DEF j, q
<1>5. /\ Tree(p) /\ i \in Open(p) /\ next \in Nat /\ i \in Nat /\ i < next
      /\ Open(p) \subseteq DOMAIN p.nodes /\ DOMAIN p.nodes \subseteq 0 .. next - 1
  <2>1. i \in Open(p) /\ Open(p) \subseteq 0 .. next - 1 /\ next \in Nat /\ Tree(p)
    BY <1>1, <1>4 DEF Accounts, Open, Tree
  <2>. QED  BY <2>1 DEF Open, Tree
<1>6. /\ IsColordata(old) /\ old.depth \in Nat /\ old.same = {} /\ old.diff = {}
      /\ old.status \in Int
  BY <1>5 DEF Open, Tree, IsProblem, InPlace, Kids
<1>. HIDE DEF i, next, old, p
<1>7. IsResult(part, i, next)
  <2>1. j.id = i /\ problem.next = next
    BY DEF i, next, p
  <2>2. IsResult(result, i, next)
    BY <1>4, <1>5, <2>1, ResultsAre
  <2>. QED  BY <1>3, <1>5, <1>6, <2>2, ArrivedIsResult
<1>8. Tree(q) /\ Grown(p, i, part, q)
  BY <1>5, <1>7, ReceiveGrows DEF next, q
<1>9. /\ q.heap = p.heap /\ i \in DOMAIN q.nodes /\ Kids(q.nodes[i]) = ids
      /\ \A n : n # i /\ n \notin ids => (n \in Open(q) <=> n \in Open(p))
      /\ ids \subseteq Open(q)
      /\ \A n \in DOMAIN p.nodes : n # i => q.nodes[n].status = p.nodes[n].status
      /\ q.next = part.next /\ DOMAIN part.nodes = {i} \cup ids
  <2>1. q.next = part.next /\ Kids(q.nodes[i]) = ids
    BY <1>8 DEF Grown, next
  <2>2. DOMAIN part.nodes = {i} \cup ids
    BY <1>7, <2>1 DEF IsResult
  <2>. QED  BY <1>8, <2>1, <2>2 DEF Grown
<1>10. problem' = q /\ lost' = lost \cup (({i} \cup ids) \cap Open(q))
  <2>1. Unfinished(q) = Open(q)
    BY DEF Unfinished, Open
  <2>2. problem' = q
    BY <1>3 DEF q
  <2>. QED  BY <1>3, <1>9, <2>1, <2>2
<1>11. i \notin ids /\ \A n \in DOMAIN p.nodes : n \notin ids
  <2>1. q.next \in Int
    BY <1>8 DEF Tree
  <2>. QED  BY <1>5, <2>1
<1>. HIDE DEF ids
<1>12. /\ p.heap \cap (joblist \cup lost) = {} /\ Open(p) = p.heap \cup (joblist \cup lost)
       /\ i \notin p.heap
  BY <1>1, <1>4 DEF Accounts
<1>13. Accounts(problem', joblist' \cup lost') /\ joblist' \cap lost' = {}
  <2>1. \A n : n \in Open(q) <=> n \in q.heap \cup (joblist' \cup lost')
    BY <1>1, <1>4, <1>5, <1>9, <1>10, <1>11, <1>12
  <2>2. q.heap \cap (joblist' \cup lost') = {}
    BY <1>1, <1>5, <1>9, <1>10, <1>11, <1>12
  <2>3. joblist' \cap lost' = {}
    BY <1>1, <1>4, <1>5, <1>10, <1>11, <1>12
  <2>4. Open(q) = q.heap \cup (joblist' \cup lost')
    BY <2>1
  <2>. QED  BY <1>8, <1>10, <2>2, <2>3, <2>4 DEF Accounts
<1>14. \A n \in joblist' : problem'.nodes[n].status = submitted_for_branching
  <2>1. joblist \subseteq DOMAIN p.nodes
    BY <1>5, <1>12
  <2>. QED  BY <1>1, <1>4, <1>9, <1>10, <2>1
<1>15. IsFiniteSet(joblist') /\ npending' = Cardinality(joblist')
  BY <1>1, LocatedCounts
<1>16. /\ DOMAIN worker' = Workers
       /\ \A v \in Workers : worker'[v] = "busy" => v \in DOMAIN job' /\ IsJob(job'[v])
  BY <1>1, BecomesKeepsJobs
<1>. QED  BY <1>13, <1>14, <1>15, <1>16 DEF BossInv

(* A job is taken back: its node is inserted again. *)
LEMMA RemoveJobKeeps ==
  ASSUME BossInv, NEW i \in joblist, RemoveJob(i)
  PROVE  BossInv'
<1> DEFINE out == joblist \cup lost
           q == insert_into_branching_heap(problem, i)
<1>1. /\ joblist' = joblist \ {i} /\ npending' = npending - 1
      /\ problem' = Forgetting(q) /\ worker' = worker /\ job' = job /\ lost' = lost
  BY DEF RemoveJob
<1>2. /\ Accounts(problem, out) /\ joblist \cap lost = {} /\ DOMAIN worker = Workers
      /\ \A n \in joblist : problem.nodes[n].status = submitted_for_branching
      /\ \A v \in Workers : worker[v] = "busy" => v \in DOMAIN job /\ IsJob(job[v])
  BY DEF BossInv
<1>3. i \in out
  OBVIOUS
<1>. HIDE DEF q, out
<1>4. Accounts(q, out \ {i}) /\ Keeps(problem, q, {i})
  BY <1>2, <1>3, InsertAccounts DEF q
<1>5. Accounts(problem', out \ {i}) /\ problem'.nodes = q.nodes
  BY <1>1, <1>4, ForgettingKeeps
<1>6. joblist' \cup lost' = out \ {i} /\ joblist' \cap lost' = {}
  BY <1>1, <1>2 DEF out
<1>7. joblist \subseteq DOMAIN problem.nodes
  BY <1>2 DEF Accounts, Open, out
<1>8. \A n \in joblist' : problem'.nodes[n].status = submitted_for_branching
  BY <1>1, <1>2, <1>4, <1>5, <1>7 DEF Keeps
<1>9. IsFiniteSet(joblist') /\ npending' = Cardinality(joblist')
  BY <1>1, LocatedCounts
<1>. QED  BY <1>1, <1>2, <1>5, <1>6, <1>8, <1>9 DEF BossInv

(* The boss has nothing to send. *)
LEMMA NothingToSendKeeps ==
  ASSUME BossInv, NEW w \in Workers, NothingToSend(w),
         UNCHANGED <<joblist, npending, job, lost>>,
         DOMAIN worker' = Workers,
         \A v \in Workers : worker'[v] = "busy" => worker[v] = "busy"
  PROVE  BossInv'
<1> DEFINE out == joblist \cup lost
<1>1. PICK p \in Pruned(problem) : problem' = Forgetting(p)
  BY DEF NothingToSend
<1>2. /\ Accounts(problem, out) /\ joblist \cap lost = {}
      /\ IsFiniteSet(joblist) /\ npending = Cardinality(joblist)
      /\ \A n \in joblist : problem.nodes[n].status = submitted_for_branching
      /\ \A v \in Workers : worker[v] = "busy" => v \in DOMAIN job /\ IsJob(job[v])
  BY DEF BossInv
<1>3. joblist \subseteq out
  OBVIOUS
<1>. HIDE DEF out
<1>4. Accounts(p, out) /\ StatusKept(problem, p, out)
  BY <1>2, PrunedAccounts
<1>5. Accounts(problem', out) /\ problem'.nodes = p.nodes
  BY <1>1, <1>4, ForgettingKeeps
<1>6. \A n \in joblist : problem'.nodes[n].status = submitted_for_branching
  BY <1>2, <1>3, <1>4, <1>5 DEF StatusKept
<1>7. Accounts(problem', joblist' \cup lost')
  BY <1>5 DEF out
<1>. QED  BY <1>2, <1>6, <1>7 DEF BossInv

(* A step that leaves the tree, the list and the lost nodes alone. *)
LEMMA OthersKeep ==
  ASSUME BossInv, UNCHANGED <<problem, joblist, npending, lost>>,
         DOMAIN worker' = Workers,
         \A v \in Workers : worker'[v] = "busy" => v \in DOMAIN job' /\ IsJob(job'[v])
  PROVE  BossInv'
<1>1. Accounts(problem', joblist' \cup lost')
  BY DEF BossInv
<1>. QED  BY <1>1 DEF BossInv

(* The invariant is inductive: one step per request and fault. *)
LEMMA NextKeeps == BossInv /\ [Next]_vars => BossInv'
<1>. SUFFICES ASSUME BossInv, [Next]_vars PROVE BossInv'
  OBVIOUS
<1>0. /\ DOMAIN worker = Workers
      /\ \A v \in Workers : worker[v] = "busy" => v \in DOMAIN job /\ IsJob(job[v])
  BY DEF BossInv
<1>1. ASSUME NEW w \in Workers, SendJob(w) PROVE BossInv'
  BY <1>1, SendAccounts
<1>2. ASSUME NEW w \in Workers, SendFails(w) PROVE BossInv'
  <2>1. /\ UNCHANGED <<problem, joblist, npending, lost>> /\ job' = job
        /\ worker' = [worker EXCEPT ![w] = "dead"]
    BY <1>2 DEF SendFails
  <2>2. DOMAIN worker' = Workers /\ \A v \in Workers : worker'[v] = "busy" => worker[v] = "busy"
    BY <1>0, <2>1
  <2>. QED  BY <1>0, <2>1, <2>2, OthersKeep
<1>3. ASSUME NEW w \in Workers, AnswerNo(w) PROVE BossInv'
  <2>1. NothingToSend(w) /\ UNCHANGED <<joblist, npending, job, lost>> /\ worker' = worker
    BY <1>3 DEF AnswerNo
  <2>. QED  BY <1>0, <2>1, NothingToSendKeeps
<1>4. ASSUME NEW w \in Workers, AnswerExit(w) PROVE BossInv'
  <2>1. /\ NothingToSend(w) /\ UNCHANGED <<joblist, npending, job, lost>>
        /\ worker' = [worker EXCEPT ![w] = "exited"]
    BY <1>4 DEF AnswerExit
  <2>2. DOMAIN worker' = Workers /\ \A v \in Workers : worker'[v] = "busy" => worker[v] = "busy"
    BY <1>0, <2>1
  <2>. QED  BY <2>1, <2>2, NothingToSendKeeps
<1>5. ASSUME NEW w \in Workers, Receive(w) PROVE BossInv'
  BY <1>5, ReceiveKeeps
<1>6. ASSUME NEW w \in Workers, ReceiveFails(w) PROVE BossInv'
  BY <1>6, ReceiveFailsKeeps
<1>7. ASSUME NEW w \in Workers, ReceiveUnknown(w) PROVE BossInv'
  <2>1. UNCHANGED <<problem, joblist, npending, lost>> /\ Becomes(w, "dead")
    BY <1>7 DEF ReceiveUnknown
  <2>. QED  BY <2>1, BecomesKeepsJobs, OthersKeep
<1>8. ASSUME NEW w \in Workers, WorkerDies(w) PROVE BossInv'
  <2>1. UNCHANGED <<problem, joblist, npending, lost>> /\ Becomes(w, "dead")
    BY <1>8 DEF WorkerDies
  <2>. QED  BY <2>1, BecomesKeepsJobs, OthersKeep
<1>9. ASSUME NEW i \in joblist, RemoveJob(i) PROVE BossInv'
  BY <1>9, RemoveJobKeeps
<1>10. CASE BadConnection
  <2>1. UNCHANGED <<problem, joblist, npending, lost, worker, job>>
    BY <1>10 DEF BadConnection
  <2>. QED  BY <1>0, <2>1, OthersKeep
<1>11. CASE UNCHANGED vars
  <2>1. UNCHANGED <<problem, joblist, npending, lost, worker, job>>
    BY <1>11 DEF vars
  <2>. QED  BY <1>0, <2>1, OthersKeep
<1>. QED  BY <1>1, <1>2, <1>3, <1>4, <1>5, <1>6, <1>7, <1>8, <1>9, <1>10, <1>11 DEF Next

(* The nodes of the boss always form a tree, its counter of ids is ahead of *)
(* them, and the open ones are in the heap, given out or lost.             *)
THEOREM BossInvariant == Spec => []BossInv
<1>1. Init => BossInv
  BY InitAccounts
<1>2. BossInv /\ [Next]_vars => BossInv'
  BY NextKeeps
<1>. QED  BY <1>1, <1>2, PTL DEF Spec

(* The bookkeeping of the boss is right whatever workers and connections   *)
(* do: it waits for exactly the jobs of its list, and no node is forgotten *)
(* or given out while it is in the heap.                                   *)
THEOREM JobsAreAlwaysAccounted == Spec => []JobsAreAccounted
<1>1. BossInv => JobsAreAccounted
  <2>. SUFFICES ASSUME BossInv PROVE JobsAreAccounted
    OBVIOUS
  <2>1. /\ problem.heap \cap (joblist \cup lost) = {}
        /\ Open(problem) = problem.heap \cup (joblist \cup lost)
    BY DEF BossInv, Accounts
  <2>2. problem.heap \cap joblist = {} /\ Open(problem) = problem.heap \cup joblist \cup lost
    BY <2>1
  <2>. QED  BY <2>2 DEF BossInv, JobsAreAccounted, Unfinished, Open
<1>. QED  BY <1>1, BossInvariant, PTL

-----------------------------------------------------------------------------
(* What the bounds are worth.  c is the chromatic number of the instance   *)
(* and u the number of colours of the best colouring that is known.        *)

(* The values of one node: nothing in its subtree has fewer than c colours, *)
(* bounds and colourings do not beat u, a lower bound is right or the node *)
(* is of no use, and so is a node that is finished.  A node that collects  *)
(* takes a colouring with c colours, unless it has one.                    *)
Worth(r, c, u) ==
  /\ r.opt \in Nat /\ r.lp \in Nat /\ r.lb \in Nat /\ r.ub \in Nat /\ r.best \in Nat
  /\ c <= r.opt /\ u <= r.ub
  /\ r.best # 0 => u <= r.best /\ r.ub <= r.best
  /\ r.lb <= r.opt \/ u <= r.opt
  /\ r.status <= finished /\ (r.status >= finished => u <= r.opt)
  /\ Kids(r) # {} => r.best = 0 \/ r.best = c \/ c < r.ub

(* A node among others: a child has its chromatic number, unless the node  *)
(* is of no use, and the root alone has no parent.                         *)
Lineage(nodes, n, u) ==
  LET r == nodes[n]
  IN  /\ Kids(r) # {} => u <= r.opt \/ \E k \in Kids(r) : nodes[k].opt = r.opt
      /\ r.parent = None <=> n = Root
      /\ n # Root => r.depth = nodes[r.parent].depth + 1
      /\ r.depth <= MaxDepth

(* An open node has no colouring, but for the root, and is worth sending.  *)
Restful(r, n) ==
  Kids(r) = {} /\ r.status < finished =>
    /\ r.best = 0 \/ n = Root
    /\ r.status = submitted_for_branching => r.lb < r.ub

(* Some child of the branch is not finished. *)
Busy(nodes, branch) == branch = {} \/ \E k \in branch : nodes[k].status < finished

(* There is nothing to collect at a node. *)
Quiet(nodes, n) ==
  /\ Busy(nodes, nodes[n].same) /\ Busy(nodes, nodes[n].diff)
  /\ Restful(nodes[n], n)

(* All nodes are quiet, except the node at that is looked at, and its      *)
(* parent if that node is finished.                                        *)
Calm(p, at) ==
  \A n \in DOMAIN p.nodes :
    \/ n = at
    \/ at \in DOMAIN p.nodes /\ p.nodes[at].status >= finished /\ n = p.nodes[at].parent
    \/ Quiet(p.nodes, n)

Sound(p, at, c, u) ==
  /\ c \in Nat \ {0} /\ u \in Nat /\ p.ub \in Nat /\ c <= u /\ u <= p.ub
  /\ Root \in DOMAIN p.nodes /\ p.nodes[Root].opt = c
  /\ \A n \in DOMAIN p.nodes : Worth(p.nodes[n], c, u) /\ Lineage(p.nodes, n, u)
  /\ Calm(p, at)
  /\ u = c => \E n \in DOMAIN p.nodes : p.nodes[n].best = c
  /\ at \in DOMAIN p.nodes /\ Kids(p.nodes[at]) = {} => u <= p.nodes[at].opt

(* What a write must respect: node i, which is at or whose parent is, may  *)
(* become finished; an open node has no new colouring.                     *)
Allowed(p, at, i, s, c, u) ==
  LET r == p.nodes[i]
  IN  /\ Worth(s, c, u)
      /\ r.status >= finished => s.status >= finished
      /\ s.status >= finished => r.status >= finished \/ i = at \/ r.parent = at
      /\ r.best = c => s.best = c
      /\ i = at \/ Restful(s, i)

(* A write that respects this leaves the problem sound. *)
LEMMA WriteIsSound ==
  ASSUME NEW p, Tree(p), NEW at, NEW c, NEW u, Sound(p, at, c, u), NEW i \in DOMAIN p.nodes,
         NEW q, NEW lb, NEW ub, NEW best, NEW status \in Int,
         Rewritten(p, i, q, lb, ub, best, status), Allowed(p, at, i, q.nodes[i], c, u)
  PROVE  Sound(q, at, c, u)
<1> DEFINE s == q.nodes[i]
           r == p.nodes[i]
<1>1. /\ DOMAIN q.nodes = DOMAIN p.nodes /\ q.ub = p.ub /\ q.next = p.next
      /\ \A n \in DOMAIN p.nodes : n # i => q.nodes[n] = p.nodes[n]
      /\ s.parent = r.parent /\ s.depth = r.depth /\ s.same = r.same /\ s.diff = r.diff
      /\ s.opt = r.opt /\ s.status = status
  BY DEF Rewritten, Writes, SamePlace
<1>2. \A n \in DOMAIN p.nodes : InPlace(p.nodes, n)
  BY DEF Tree
<1>3. /\ \A n \in DOMAIN p.nodes : /\ q.nodes[n].parent = p.nodes[n].parent
                                   /\ q.nodes[n].depth = p.nodes[n].depth
                                   /\ q.nodes[n].same = p.nodes[n].same
                                   /\ q.nodes[n].diff = p.nodes[n].diff
                                   /\ q.nodes[n].opt = p.nodes[n].opt
                                   /\ Kids(q.nodes[n]) = Kids(p.nodes[n])
  BY <1>1 DEF Kids
<1>4. \A n \in DOMAIN p.nodes : Worth(q.nodes[n], c, u)
  BY <1>1 DEF Sound, Allowed
<1>5. ASSUME NEW n \in DOMAIN p.nodes PROVE Lineage(q.nodes, n, u)
  <2>1. Lineage(p.nodes, n, u) /\ InPlace(p.nodes, n)
    BY <1>2 DEF Sound
  <2>2. \A k \in Kids(p.nodes[n]) : k \in DOMAIN p.nodes
    BY <2>1 DEF InPlace
  <2>3. n # Root => p.nodes[n].parent \in DOMAIN p.nodes
    BY <2>1 DEF Lineage, InPlace
  <2>. QED  BY <1>3, <2>1, <2>2, <2>3 DEF Lineage
<1>6. ASSUME NEW n \in DOMAIN p.nodes, NEW S, S = p.nodes[n].same \/ S = p.nodes[n].diff,
             Busy(p.nodes, S), ~Busy(q.nodes, S)
      PROVE  n = at \/ (at \in DOMAIN p.nodes /\ q.nodes[at].status >= finished /\ n = p.nodes[at].parent)
  <2>1. PICK k \in S : p.nodes[k].status < finished
    BY <1>6 DEF Busy
  <2>2. k \in DOMAIN p.nodes /\ p.nodes[k].parent = n
    BY <1>2, <1>6 DEF InPlace, Kids
  <2>3. ~(q.nodes[k].status < finished)
    BY <1>6 DEF Busy
  <2>4. k = i
    BY <1>1, <2>1, <2>2, <2>3
  <2>5. s.status >= finished /\ ~(r.status >= finished)
    BY <1>1, <1>2, <2>1, <2>3, <2>4 DEF InPlace, finished
  <2>6. i = at \/ r.parent = at
    BY <2>5 DEF Allowed
  <2>. QED  BY <1>1, <2>2, <2>4, <2>5, <2>6
<1>7. Calm(q, at)
  <2>1. SUFFICES ASSUME NEW n \in DOMAIN p.nodes, n # at,
                        ~(at \in DOMAIN p.nodes /\ q.nodes[at].status >= finished
                          /\ n = p.nodes[at].parent)
                 PROVE  Quiet(q.nodes, n)
    BY <1>1, <1>3 DEF Calm
  <2>2. ~(at \in DOMAIN p.nodes /\ p.nodes[at].status >= finished /\ n = p.nodes[at].parent)
    BY <1>1, <2>1 DEF Allowed
  <2>3. Quiet(p.nodes, n)
    BY <2>1, <2>2 DEF Sound, Calm
  <2>4. Busy(q.nodes, q.nodes[n].same) /\ Busy(q.nodes, q.nodes[n].diff)
    BY <1>3, <1>6, <2>1, <2>3 DEF Quiet
  <2>5. Restful(q.nodes[n], n)
    BY <1>1, <2>1, <2>3 DEF Quiet, Allowed
  <2>. QED  BY <2>4, <2>5 DEF Quiet
<1>8. u = c => \E n \in DOMAIN q.nodes : q.nodes[n].best = c
  BY <1>1 DEF Sound, Allowed
<1>9. at \in DOMAIN q.nodes /\ Kids(q.nodes[at]) = {} => u <= q.nodes[at].opt
  BY <1>1, <1>3 DEF Sound
<1>10. c \in Nat \ {0} /\ u \in Nat /\ q.ub \in Nat /\ c <= u /\ u <= q.ub
       /\ Root \in DOMAIN q.nodes /\ q.nodes[Root].opt = c
  BY <1>1, <1>3 DEF Sound
<1>. QED  BY <1>1, <1>4, <1>5, <1>7, <1>8, <1>9, <1>10 DEF Sound

(* The two problems agree on what the nodes are worth to the search: a     *)
(* node that is open was open, with the same colouring.                    *)
Kept(p, q) ==
  /\ DOMAIN q.nodes \subseteq DOMAIN p.nodes /\ q.ub = p.ub /\ q.next = p.next
  /\ \A n \in DOMAIN q.nodes :
       /\ q.nodes[n].opt = p.nodes[n].opt /\ q.nodes[n].depth = p.nodes[n].depth
       /\ n \in Open(q) => n \in Open(p) /\ q.nodes[n].best = p.nodes[n].best

(* All nodes are there with their places, upper bounds and colourings.     *)
KeptAll(p, q) ==
  /\ Kept(p, q) /\ DOMAIN q.nodes = DOMAIN p.nodes
  /\ \A n \in DOMAIN p.nodes : /\ SamePlace(p.nodes[n], q.nodes[n])
                               /\ q.nodes[n].ub = p.nodes[n].ub

(* What is kept twice is kept. *)
LEMMA KeptTwice ==
  ASSUME NEW p, NEW q, NEW r
  PROVE  /\ Kept(p, p) /\ KeptAll(p, p)
         /\ Kept(p, q) /\ Kept(q, r) => Kept(p, r)
         /\ KeptAll(p, q) /\ KeptAll(q, r) => KeptAll(p, r)
BY DEF Kept, KeptAll, SamePlace

(* A write that does not open a node keeps it. *)
LEMMA WriteKeeps ==
  ASSUME NEW p, NEW i, NEW q, NEW lb, NEW ub, NEW best, NEW status,
         Rewritten(p, i, q, lb, ub, best, status),
         i \in DOMAIN p.nodes => /\ ub = p.nodes[i].ub /\ best = p.nodes[i].best
                                 /\ status < finished => p.nodes[i].status < finished
  PROVE  KeptAll(p, q)
<1>1. \A n \in DOMAIN p.nodes :
        /\ SamePlace(p.nodes[n], q.nodes[n]) /\ q.nodes[n].ub = p.nodes[n].ub
        /\ q.nodes[n].opt = p.nodes[n].opt /\ q.nodes[n].best = p.nodes[n].best
        /\ q.nodes[n].status < finished => p.nodes[n].status < finished
  BY DEF Rewritten, Writes, SamePlace
<1>2. DOMAIN q.nodes = DOMAIN p.nodes /\ q.ub = p.ub /\ q.next = p.next
  BY DEF Rewritten
<1>3. \A n \in Open(q) : n \in Open(p)
  BY <1>1, <1>2 DEF Open, SamePlace, Kids
<1>. QED  BY <1>1, <1>2, <1>3 DEF Kept, KeptAll, SamePlace

-----------------------------------------------------------------------------
(* Bounds travel up, and nodes are inserted.                               *)

(* Only the nodes and the global bound decide what is sound. *)
LEMMA SameNodesSound ==
  ASSUME NEW p, NEW q, q.nodes = p.nodes, q.ub = p.ub, q.next = p.next
  PROVE  /\ \A at, c, u : Sound(p, at, c, u) => Sound(q, at, c, u)
         /\ KeptAll(p, q)
<1>1. \A at, c, u : Sound(p, at, c, u) => Sound(q, at, c, u)
  BY DEF Sound, Calm
<1>2. KeptAll(p, q)
  BY DEF KeptAll, Kept, Open, SamePlace
<1>. QED  BY <1>1, <1>2

(* Raising a lower bound keeps the rest, whatever the bounds are worth. *)
LEMMA RaisedKept ==
  ASSUME NEW s, IsProblem(s.p)
  PROVE  KeptAll(s.p, Raised(s).p)
<1> DEFINE p == s.p
           i == s.at
           r == p.nodes[i]
           new == Min({s.lb} \cup {p.nodes[k].lb : k \in Kids(r)})
           q == WithLb(p, i, new)
           t == backup_colordata(q, i)
<1>1. Raised(s) = IF i = None THEN s
                  ELSE IF new > r.lb THEN [p |-> t, at |-> r.parent, lb |-> new]
                  ELSE [s EXCEPT !.at = None]
  BY DEF Raised, RaisedBy, WithLb
<1>. HIDE DEF new
<1>2. KeptAll(p, q)
  <2>1. Rewritten(p, i, q, new, r.ub, r.best, r.status)
    BY FieldRewritten
  <2>. HIDE DEF q
  <2>. QED  BY <2>1, WriteKeeps
<1>3. t.nodes = q.nodes /\ t.ub = q.ub /\ t.next = q.next
  <2>1. IsProblem(q)
    BY LbWritten DEF Changed
  <2>. HIDE DEF q
  <2>. QED  BY <2>1, BackedUp
<1>. HIDE DEF q, t
<1>4. KeptAll(p, t)
  BY <1>2, <1>3, SameNodesSound, KeptTwice
<1>5. Raised(s).p = p \/ Raised(s).p = t
  BY <1>1
<1>. QED  BY <1>4, <1>5, KeptTwice

(* So does the whole way up. *)
LEMMA TriggerKept ==
  ASSUME NEW p, IsProblem(p), NEW i, p.nodes[i].depth \in Nat
  PROVE  KeptAll(p, trigger_lb_changes(p, i))
<1> DEFINE first == [p |-> p, at |-> p.nodes[i].parent, lb |-> p.nodes[i].lb]
           n == p.nodes[i].depth
<1>1. PICK h : Walks(h, "raise", <<>>, first, n) /\ trigger_lb_changes(p, i) = h[n].p
  BY RaiseIsWalk
<1>2. first.p = p /\ n \in Nat
  OBVIOUS
<1>. HIDE DEF first, n
<1> DEFINE T == {k \in Nat : k <= n => IsProblem(h[k].p) /\ KeptAll(p, h[k].p)}
<1>3. 0 \in T
  <2>1. h[0] = first
    BY <1>1, <1>2 DEF Walks
  <2>. QED  BY <1>2, <2>1, KeptTwice
<1>4. ASSUME NEW k \in T PROVE k + 1 \in T
  <2>1. SUFFICES ASSUME k + 1 <= n PROVE IsProblem(h[k + 1].p) /\ KeptAll(p, h[k + 1].p)
    OBVIOUS
  <2>2. k \in Nat /\ IsProblem(h[k].p) /\ KeptAll(p, h[k].p)
    BY <1>2, <2>1
  <2>3. h[k + 1] = Raised(h[k])
    <3>1. k + 1 \in 0 .. n /\ k + 1 # 0 /\ (k + 1) - 1 = k
      BY <1>2, <2>1, <2>2
    <3>. QED  BY <1>1, <3>1 DEF Walks, StepOf
  <2>4. IsProblem(h[k + 1].p) /\ KeptAll(h[k].p, h[k + 1].p)
    BY <2>2, <2>3, RaisedKeeps, RaisedKept DEF SameTree
  <2>. QED  BY <2>2, <2>4, KeptTwice
<1>5. T = Nat
  <2>. HIDE DEF T
  <2>. QED  BY <1>3, <1>4, SetInduction DEF T
<1>. QED  BY <1>1, <1>2, <1>5

(* And so does the insertion of a node. *)
LEMMA InsertKept ==
  ASSUME NEW p, IsProblem(p), NEW i \in DOMAIN p.nodes, p.nodes[i].depth \in Nat
  PROVE  LET q == insert_into_branching_heap(p, i) IN IsProblem(q) /\ KeptAll(p, q)
<1> DEFINE first == p.strategy # min_lb /\ i # Root
           r == p.nodes[i]
           heap == p.heap \cup {i}
           v == WithHeap(p, heap)
           q == WithDeepFirst(v, i, first)
           t == WithStatus(p, i, finished)
<1>1. \/ insert_into_branching_heap(p, i) = trigger_lb_changes(q, i)
      \/ insert_into_branching_heap(p, i) = trigger_lb_changes(t, i)
  BY DEF insert_into_branching_heap, Strictly, WithHeap, WithDeepFirst, WithStatus
<1>. HIDE DEF first, heap
<1>2. IsProblem(v) /\ KeptAll(p, v)
  <2>1. Rewritten(p, i, v, r.lb, r.ub, r.best, r.status) /\ IsProblem(v)
    BY FieldRewritten, HeapWritten DEF Changed
  <2>. HIDE DEF v
  <2>. QED  BY <2>1, WriteKeeps
<1>. HIDE DEF v
<1>3. IsProblem(q) /\ KeptAll(v, q)
  <2> DEFINE d == v.nodes[i]
  <2>1. Rewritten(v, i, q, d.lb, d.ub, d.best, d.status) /\ IsProblem(q)
    BY <1>2, FieldRewritten, DeepFirstWritten DEF Changed
  <2>. HIDE DEF q
  <2>. QED  BY <2>1, WriteKeeps
<1>4. IsProblem(t) /\ KeptAll(p, t)
  <2>1. Rewritten(p, i, t, r.lb, r.ub, r.best, finished) /\ IsProblem(t)
    BY FieldRewritten, StatusWritten DEF Changed
  <2>2. ~(finished < finished)
    BY DEF finished
  <2>. HIDE DEF t
  <2>. QED  BY <2>1, <2>2, WriteKeeps
<1>. HIDE DEF q, t
<1>5. KeptAll(p, q)
  BY <1>2, <1>3, KeptTwice
<1>6. q.nodes[i].depth \in Nat /\ t.nodes[i].depth \in Nat
  BY <1>4, <1>5 DEF KeptAll, SamePlace
<1>7. KeptAll(p, insert_into_branching_heap(p, i))
  <2>1. KeptAll(q, trigger_lb_changes(q, i))
    BY <1>3, <1>6, TriggerKept
  <2>2. KeptAll(t, trigger_lb_changes(t, i))
    BY <1>4, <1>6, TriggerKept
  <2>3. KeptAll(p, trigger_lb_changes(q, i)) /\ KeptAll(p, trigger_lb_changes(t, i))
    BY <1>4, <1>5, <2>1, <2>2, KeptTwice
  <2>. QED  BY <1>1, <2>3
<1>8. IsProblem(insert_into_branching_heap(p, i))
  BY InsertInserts DEF Inserted, Changed
<1>. QED  BY <1>7, <1>8

(* Of all children of a node, too. *)
LEMMA InsertAllKept ==
  ASSUME NEW p, IsProblem(p), NEW kids, Len(kids) \in Nat,
         \A k \in 1 .. Len(kids) : kids[k] \in DOMAIN p.nodes /\ p.nodes[kids[k]].depth \in Nat
  PROVE  LET q == InsertAll(p, kids) IN IsProblem(q) /\ KeptAll(p, q)
<1> DEFINE n == Len(kids)
<1>1. PICK h : Walks(h, "insert", kids, p, n) /\ InsertAll(p, kids) = h[n]
  BY InsertIsWalk
<1>. HIDE DEF n
<1>2. n \in Nat
  BY DEF n
<1> DEFINE T == {k \in Nat : k <= n => IsProblem(h[k]) /\ KeptAll(p, h[k])}
<1>3. 0 \in T
  <2>1. h[0] = p
    BY <1>1, <1>2 DEF Walks
  <2>. QED  BY <2>1, KeptTwice
<1>4. ASSUME NEW k \in T PROVE k + 1 \in T
  <2>1. SUFFICES ASSUME k + 1 <= n PROVE IsProblem(h[k + 1]) /\ KeptAll(p, h[k + 1])
    OBVIOUS
  <2>2. k \in Nat /\ IsProblem(h[k]) /\ KeptAll(p, h[k])
    BY <1>2, <2>1
  <2>3. k + 1 \in 1 .. n /\ k + 1 \in 0 .. n /\ k + 1 # 0 /\ (k + 1) - 1 = k
    BY <1>2, <2>1, <2>2
  <2> DEFINE i == kids[k + 1]
  <2>4. h[k + 1] = insert_into_branching_heap(h[k], i)
    BY <1>1, <2>3 DEF Walks, StepOf
  <2>5. i \in DOMAIN h[k].nodes /\ h[k].nodes[i].depth \in Nat
    BY <2>2, <2>3 DEF n, KeptAll, SamePlace
  <2>. HIDE DEF i
  <2>6. IsProblem(h[k + 1]) /\ KeptAll(h[k], h[k + 1])
    BY <2>2, <2>4, <2>5, InsertKept
  <2>. QED  BY <2>2, <2>6, KeptTwice
<1>5. T = Nat
  <2>. HIDE DEF T
  <2>. QED  BY <1>3, <1>4, SetInduction DEF T
<1>. QED  BY <1>1, <1>2, <1>5

(* The same place with the same values. *)
LEMMA UnchangedIsSound ==
  ASSUME NEW p, Tree(p), NEW at, NEW c, NEW u, Sound(p, at, c, u), NEW i \in DOMAIN p.nodes,
         NEW q, LET r == p.nodes[i] IN Rewritten(p, i, q, r.lb, r.ub, r.best, r.status)
  PROVE  Sound(q, at, c, u)
<1> DEFINE r == p.nodes[i]
           s == q.nodes[i]
           lb == r.lb
           ub == r.ub
           best == r.best
           status == r.status
<1>1. Rewritten(p, i, q, lb, ub, best, status)
  OBVIOUS
<1>2. /\ s.same = r.same /\ s.diff = r.diff /\ s.opt = r.opt /\ s.lp = r.lp
      /\ s.lb = r.lb /\ s.ub = r.ub /\ s.best = r.best /\ s.status = r.status
  BY DEF Rewritten, Writes, SamePlace
<1>3. InPlace(p.nodes, i) /\ Worth(r, c, u)
  BY DEF Tree, Sound
<1>4. status \in Int
  BY <1>3 DEF InPlace
<1>5. i = at \/ Restful(r, i)
  <2>1. CASE at \in DOMAIN p.nodes /\ i = p.nodes[at].parent
    <3>1. at \in Kids(r)
      <4>1. InPlace(p.nodes, at) /\ i # None
        BY <2>1 DEF Tree, None
      <4>. QED  BY <2>1, <4>1 DEF InPlace
    <3>. QED  BY SMTT(60), <3>1 DEF Restful
  <2>2. CASE Quiet(p.nodes, i)
    BY SMTT(60), <2>2 DEF Quiet
  <2>. QED  BY <2>1, <2>2 DEF Sound, Calm
<1>6. Worth(s, c, u) /\ (Restful(r, i) => Restful(s, i))
  BY <1>2, <1>3 DEF Worth, Restful, Kids
<1>7. Allowed(p, at, i, s, c, u)
  BY <1>2, <1>5, <1>6 DEF Allowed
<1>. HIDE DEF s, lb, ub, best, status
<1>. QED  BY <1>1, <1>4, <1>7, WriteIsSound DEF s

(* A walk upwards is at a node with children, or it has ended. *)
Climbs(s) ==
  /\ s.lb \in Nat
  /\ s.at = None \/ (s.at \in DOMAIN s.p.nodes /\ Kids(s.p.nodes[s.at]) # {})

(* A lower bound that has been raised is right, for one of the children has *)
(* the chromatic number of its parent. *)
LEMMA RaisedIsSound ==
  ASSUME NEW s, Tree(s.p), Climbs(s), NEW ex, NEW c, NEW u, Sound(s.p, ex, c, u)
  PROVE  /\ Tree(Raised(s).p) /\ Climbs(Raised(s))
         /\ Sound(Raised(s).p, ex, c, u) /\ KeptAll(s.p, Raised(s).p)
<1> DEFINE p == s.p
           i == s.at
           r == p.nodes[i]
           S == {s.lb} \cup {p.nodes[k].lb : k \in Kids(r)}
           new == Min(S)
           q == WithLb(p, i, new)
           t == backup_colordata(q, i)
<1>1. Raised(s) = IF i = None THEN s
                  ELSE IF new > r.lb THEN [p |-> t, at |-> r.parent, lb |-> new]
                  ELSE [s EXCEPT !.at = None]
  BY DEF Raised, RaisedBy, WithLb
<1>2. IsProblem(p) /\ Root \in DOMAIN p.nodes
  BY DEF Tree, Sound
<1>3. Tree(Raised(s).p)
  BY <1>2, RaisedKeeps, SameTreeCollects DEF Collects
<1>4. CASE i = None
  BY <1>1, <1>3, <1>4, KeptTwice
<1>5. CASE i # None /\ ~(new > r.lb)
  <2>1. Raised(s) = [s EXCEPT !.at = None]
    BY <1>1, <1>5
  <2>2. [s EXCEPT !.at = None].p = s.p /\ [s EXCEPT !.at = None].lb = s.lb
    OBVIOUS
  <2>3. "at" \in DOMAIN s => [s EXCEPT !.at = None].at = None
    BY SMTT(60)
  <2>. QED  BY <1>3, <1>5, <2>1, <2>2, <2>3, KeptTwice DEF Climbs
<1>6. CASE i # None /\ new > r.lb
  <2>1. i \in DOMAIN p.nodes /\ Kids(r) # {} /\ InPlace(p.nodes, i)
    BY <1>6 DEF Climbs, Tree
  <2>2. \A k \in Kids(r) : k \in DOMAIN p.nodes /\ Worth(p.nodes[k], c, u)
    BY <2>1 DEF InPlace, Sound
  <2>3. S \in SUBSET Nat /\ S # {}
    BY <2>2 DEF Climbs, Worth
  <2>4. new \in Nat /\ \A k \in Kids(r) : new <= p.nodes[k].lb
    <3>. HIDE DEF new
    <3>1. new \in S /\ \A x \in S : new <= x
      BY <2>3, MinIsLeast DEF new
    <3>. QED  BY <2>3, <3>1
  <2>. HIDE DEF S, new
  <2>5. Worth(r, c, u) /\ Lineage(p.nodes, i, u)
    BY <2>1 DEF Sound
  <2>6. u \in Nat
    BY DEF Sound
  <2>7. new <= r.opt \/ u <= r.opt
    <3>1. SUFFICES ASSUME ~(u <= r.opt) PROVE new <= r.opt
      BY SMTT(60)
    <3>2. PICK k \in Kids(r) : p.nodes[k].opt = r.opt
      BY SMTT(60), <2>1, <2>5, <3>1 DEF Lineage
    <3>3. p.nodes[k].lb <= r.opt /\ p.nodes[k].lb \in Nat /\ r.opt \in Nat
      BY <2>2, <2>5, <3>1, <3>2 DEF Worth
    <3>. QED  BY <2>4, <3>3
  <2>8. Rewritten(p, i, q, new, r.ub, r.best, r.status)
    BY SMTT(60), <1>2, FieldRewritten
  <2>. HIDE DEF q
  <2>9. LET d == q.nodes[i]
        IN  /\ d.parent = r.parent /\ d.same = r.same /\ d.diff = r.diff /\ d.opt = r.opt /\ d.lp = r.lp
            /\ d.lb = new /\ d.ub = r.ub /\ d.best = r.best /\ d.status = r.status
            /\ Kids(d) = Kids(r)
    <3>1. Writes(r, q.nodes[i], new, r.ub, r.best, r.status)
      BY <2>1, <2>8 DEF Rewritten
    <3>. HIDE DEF r, new
    <3>. QED  BY <3>1 DEF Writes, SamePlace, Kids
  <2>10. Allowed(p, ex, i, q.nodes[i], c, u)
    <3>1. Worth(q.nodes[i], c, u)
      BY <2>4, <2>5, <2>7, <2>9 DEF Worth
    <3>. QED  BY SMTT(60), <2>1, <2>9, <3>1 DEF Allowed, Restful
  <2>11. r.status \in Int
    BY <2>1 DEF InPlace
  <2>12. Sound(q, ex, c, u)
    BY <2>1, <2>8, <2>10, <2>11, WriteIsSound
  <2>13. KeptAll(p, q)
    BY <2>8, WriteKeeps
  <2>14. t.nodes = q.nodes /\ t.ub = q.ub /\ t.next = q.next
    <3>1. IsProblem(q)
      BY <1>2, LbWritten DEF Changed, q
    <3>. QED  BY <3>1, BackedUp
  <2>. HIDE DEF t
  <2>15. Sound(t, ex, c, u) /\ KeptAll(p, t)
    BY <2>12, <2>13, <2>14, SameNodesSound, KeptTwice
  <2>16. Raised(s).p = t /\ Raised(s).at = r.parent /\ Raised(s).lb = new
    BY SMTT(60), <1>1, <1>6
  <2>17. r.parent = None \/ (r.parent \in DOMAIN t.nodes /\ Kids(t.nodes[r.parent]) # {})
    <3>1. r.parent = None \/ (r.parent \in DOMAIN p.nodes /\ Kids(p.nodes[r.parent]) # {})
      BY <2>1, ParentClimbs
    <3>. QED  BY <2>15, <3>1 DEF KeptAll, SamePlace, Kids
  <2>. QED  BY <1>3, <2>4, <2>15, <2>16, <2>17 DEF Climbs
<1>. QED  BY <1>4, <1>5, <1>6

(* So is every bound on the way up. *)
LEMMA TriggerIsSound ==
  ASSUME NEW p, Tree(p), NEW ex, NEW c, NEW u, Sound(p, ex, c, u), NEW i \in DOMAIN p.nodes
  PROVE  LET q == trigger_lb_changes(p, i)
         IN  Tree(q) /\ Sound(q, ex, c, u) /\ KeptAll(p, q)
<1> DEFINE first == [p |-> p, at |-> p.nodes[i].parent, lb |-> p.nodes[i].lb]
           n == p.nodes[i].depth
<1>1. n \in Nat /\ p.nodes[i].lb \in Nat
  BY DEF Tree, InPlace, Sound, Worth
<1>2. PICK h : Walks(h, "raise", <<>>, first, n) /\ trigger_lb_changes(p, i) = h[n].p
  BY <1>1, RaiseIsWalk
<1>3. first.p = p /\ Climbs(first)
  BY <1>1, ParentClimbs DEF Climbs
<1>. HIDE DEF first, n
<1> DEFINE T == {k \in Nat : k <= n => /\ Tree(h[k].p) /\ Climbs(h[k])
                                       /\ Sound(h[k].p, ex, c, u) /\ KeptAll(p, h[k].p)}
<1>4. 0 \in T
  <2>1. h[0] = first
    BY <1>1, <1>2 DEF Walks
  <2>. QED  BY <1>3, <2>1, KeptTwice
<1>5. ASSUME NEW k \in T PROVE k + 1 \in T
  <2>1. SUFFICES ASSUME k + 1 <= n
                 PROVE  /\ Tree(h[k + 1].p) /\ Climbs(h[k + 1])
                        /\ Sound(h[k + 1].p, ex, c, u) /\ KeptAll(p, h[k + 1].p)
    OBVIOUS
  <2>2. k \in Nat /\ Tree(h[k].p) /\ Climbs(h[k]) /\ Sound(h[k].p, ex, c, u) /\ KeptAll(p, h[k].p)
    BY <1>1, <2>1
  <2>3. h[k + 1] = Raised(h[k])
    <3>1. k + 1 \in 0 .. n /\ k + 1 # 0 /\ (k + 1) - 1 = k
      BY <1>1, <2>1, <2>2
    <3>. QED  BY <1>2, <3>1 DEF Walks, StepOf
  <2>4. /\ Tree(h[k + 1].p) /\ Climbs(h[k + 1])
        /\ Sound(h[k + 1].p, ex, c, u) /\ KeptAll(h[k].p, h[k + 1].p)
    BY <2>2, <2>3, RaisedIsSound
  <2>. QED  BY <2>2, <2>4, KeptTwice
<1>6. T = Nat
  <2>. HIDE DEF T
  <2>. QED  BY <1>4, <1>5, SetInduction DEF T
<1>7. Tree(h[n].p) /\ Sound(h[n].p, ex, c, u) /\ KeptAll(p, h[n].p)
  BY <1>1, <1>6
<1>. QED  BY <1>2, <1>7

(* A node without children is inserted: it is finished only if it is of no *)
(* use, and then its parent may have something to collect.                 *)
LEMMA InsertIsSound ==
  ASSUME NEW p, Tree(p), NEW ex, NEW c, NEW u, Sound(p, ex, c, u),
         NEW i \in DOMAIN p.nodes, Kids(p.nodes[i]) = {},
         p.nodes[i].parent = ex \/ p.nodes[i].lb < p.nodes[i].ub
  PROVE  LET q == insert_into_branching_heap(p, i)
         IN  Tree(q) /\ Sound(q, ex, c, u) /\ KeptAll(p, q)
<1> DEFINE first == p.strategy # min_lb /\ i # Root
           r == p.nodes[i]
           heap == p.heap \cup {i}
           v == WithHeap(p, heap)
           q == WithDeepFirst(v, i, first)
           t == WithStatus(p, i, finished)
<1>1. insert_into_branching_heap(p, i) =
        IF r.lb < r.ub THEN trigger_lb_changes(q, i) ELSE trigger_lb_changes(t, i)
  BY DEF insert_into_branching_heap, Strictly, WithHeap, WithDeepFirst, WithStatus
<1>2. IsProblem(p) /\ InPlace(p.nodes, i) /\ r.status \in Int /\ Worth(r, c, u)
  BY DEF Tree, InPlace, Sound
<1>. HIDE DEF first, heap
<1>3. Rewritten(p, i, v, r.lb, r.ub, r.best, r.status) /\ Changed(p, i, r.status, heap, v)
  BY <1>2, FieldRewritten, HeapWritten
<1>4. Rewritten(p, i, t, r.lb, r.ub, r.best, finished) /\ Changed(p, i, finished, p.heap, t)
  BY <1>2, FieldRewritten, StatusWritten
<1>. HIDE DEF v, t
<1>5. /\ Rewritten(p, i, q, r.lb, r.ub, r.best, r.status) /\ Changed(p, i, r.status, heap, q)
  <2>1. IsProblem(v) /\ v.heap = heap /\ v.nodes[i].status = r.status
    BY <1>3 DEF Changed
  <2>2. LET d == v.nodes[i]
        IN  d.lb = r.lb /\ d.ub = r.ub /\ d.best = r.best /\ d.status = r.status
    BY <1>3 DEF Rewritten, Writes
  <2>3. Rewritten(v, i, q, r.lb, r.ub, r.best, r.status)
    BY <2>1, <2>2, FieldRewritten
  <2>4. Changed(v, i, r.status, heap, q)
    BY <2>1, DeepFirstWritten
  <2>. HIDE DEF q
  <2>. QED  BY <1>3, <2>3, <2>4, RewrittenTwice, ChangedTwice
<1>. HIDE DEF q
<1>6. ASSUME r.lb < r.ub
      PROVE  Tree(q) /\ Sound(q, ex, c, u) /\ KeptAll(p, q)
  <2>1. Tree(q)
    BY <1>2, <1>5, ChangeKeepsTree
  <2>2. Sound(q, ex, c, u)
    BY <1>5, UnchangedIsSound
  <2>3. KeptAll(p, q)
    BY <1>5, WriteKeeps
  <2>. QED  BY <2>1, <2>2, <2>3
<1>7. ASSUME ~(r.lb < r.ub)
      PROVE  Tree(t) /\ Sound(t, ex, c, u) /\ KeptAll(p, t)
  <2>1. finished \in Int /\ ~(finished < finished) /\ finished >= finished
    BY DEF finished
  <2>2. Tree(t)
    BY <1>4, <2>1, ChangeKeepsTree
  <2>3. LET d == t.nodes[i]
        IN  /\ d.parent = r.parent /\ d.same = r.same /\ d.diff = r.diff /\ d.opt = r.opt /\ d.lp = r.lp
            /\ d.lb = r.lb /\ d.ub = r.ub /\ d.best = r.best /\ d.status = finished
            /\ Kids(d) = {}
    BY <1>4 DEF Rewritten, Writes, SamePlace, Kids
  <2>4. u <= r.opt
    <3>1. u \in Nat
      BY DEF Sound
    <3>. QED  BY <1>2, <1>7, <3>1 DEF Worth
  <2>5. Worth(t.nodes[i], c, u)
    <3>1. finished <= finished
      BY DEF finished
    <3>. QED  BY <1>2, <2>3, <2>4, <3>1 DEF Worth
  <2>6. Allowed(p, ex, i, t.nodes[i], c, u)
    BY <1>7, <2>1, <2>3, <2>5 DEF Allowed, Restful
  <2>7. Sound(t, ex, c, u)
    BY <1>4, <2>1, <2>6, WriteIsSound
  <2>8. KeptAll(p, t)
    BY <1>4, <2>1, WriteKeeps
  <2>. QED  BY <2>2, <2>7, <2>8
<1>8. CASE r.lb < r.ub
  <2>1. insert_into_branching_heap(p, i) = trigger_lb_changes(q, i)
    BY <1>1, <1>8
  <2>2. i \in DOMAIN q.nodes
    BY <1>6, <1>8 DEF KeptAll
  <2>. QED  BY <1>6, <1>8, <2>1, <2>2, TriggerIsSound, KeptTwice
<1>9. CASE ~(r.lb < r.ub)
  <2>1. insert_into_branching_heap(p, i) = trigger_lb_changes(t, i)
    BY <1>1, <1>9
  <2>2. i \in DOMAIN t.nodes
    BY <1>7, <1>9 DEF KeptAll
  <2>. QED  BY <1>7, <1>9, <2>1, <2>2, TriggerIsSound, KeptTwice
<1>. QED  BY <1>8, <1>9

(* All children of a node are inserted. *)
LEMMA InsertAllIsSound ==
  ASSUME NEW p, Tree(p), NEW ex, NEW c, NEW u, Sound(p, ex, c, u),
         NEW kids, Len(kids) \in Nat,
         \A k \in 1 .. Len(kids) : /\ kids[k] \in DOMAIN p.nodes
                                   /\ Kids(p.nodes[kids[k]]) = {}
                                   /\ p.nodes[kids[k]].parent = ex
  PROVE  LET q == InsertAll(p, kids)
         IN  Tree(q) /\ Sound(q, ex, c, u) /\ KeptAll(p, q)
<1> DEFINE n == Len(kids)
<1>1. PICK h : Walks(h, "insert", kids, p, n) /\ InsertAll(p, kids) = h[n]
  BY InsertIsWalk
<1>. HIDE DEF n
<1>2. n \in Nat
  BY DEF n
<1> DEFINE T == {k \in Nat : k <= n => Tree(h[k]) /\ Sound(h[k], ex, c, u) /\ KeptAll(p, h[k])}
<1>3. 0 \in T
  <2>1. h[0] = p
    BY <1>1, <1>2 DEF Walks
  <2>. QED  BY <2>1, KeptTwice
<1>4. ASSUME NEW k \in T PROVE k + 1 \in T
  <2>1. SUFFICES ASSUME k + 1 <= n
                 PROVE  Tree(h[k + 1]) /\ Sound(h[k + 1], ex, c, u) /\ KeptAll(p, h[k + 1])
    OBVIOUS
  <2>2. k \in Nat /\ Tree(h[k]) /\ Sound(h[k], ex, c, u) /\ KeptAll(p, h[k])
    BY <1>2, <2>1
  <2>3. k + 1 \in 1 .. n /\ k + 1 \in 0 .. n /\ k + 1 # 0 /\ (k + 1) - 1 = k
    BY <1>2, <2>1, <2>2
  <2> DEFINE i == kids[k + 1]
  <2>4. h[k + 1] = insert_into_branching_heap(h[k], i)
    BY <1>1, <2>3 DEF Walks, StepOf
  <2>5. i \in DOMAIN h[k].nodes /\ Kids(h[k].nodes[i]) = {} /\ h[k].nodes[i].parent = ex
    BY <2>2, <2>3 DEF n, KeptAll, SamePlace, Kids
  <2>. HIDE DEF i
  <2>6. Tree(h[k + 1]) /\ Sound(h[k + 1], ex, c, u) /\ KeptAll(h[k], h[k + 1])
    BY <2>2, <2>4, <2>5, InsertIsSound
  <2>. QED  BY <2>2, <2>6, KeptTwice
<1>5. T = Nat
  <2>. HIDE DEF T
  <2>. QED  BY <1>3, <1>4, SetInduction DEF T
<1>6. Tree(h[n]) /\ Sound(h[n], ex, c, u) /\ KeptAll(p, h[n])
  BY <1>2, <1>5
<1>. QED  BY <1>1, <1>6

-----------------------------------------------------------------------------
(* Finished subtrees are collected.                                        *)

(* A node takes over the best colouring of its children if that is better  *)
(* than what it has: an optimal one is never dropped. *)
LEMMA CollectedIsSound ==
  ASSUME NEW p, Tree(p), NEW i \in DOMAIN p.nodes, NEW c, NEW u, Sound(p, i, c, u),
         NEW kids, kids \subseteq Kids(p.nodes[i]), Kids(p.nodes[i]) # {}
  PROVE  LET q == Collected(p, i, kids)
             r == p.nodes[i]
         IN  /\ Sound(q, i, c, u)
             /\ \E ub, best : Rewritten(p, i, q, r.lb, ub, best, r.status)
             /\ u = c /\ (\E k \in kids : p.nodes[k].best = c) => q.nodes[i].best = c
<1> DEFINE r == p.nodes[i]
           kept == {p.nodes[k].best : k \in kids} \ {0}
           good == IF r.best = 0 THEN kept ELSE {b \in kept : b < r.ub}
           x == Min(good)
           q == WithUb(WithBest(p, i, x), i, x)
<1>1. Collected(p, i, kids) = IF good = {} THEN p ELSE q
  BY DEF Collected, WithUb, WithBest
<1>2. IsProblem(p) /\ InPlace(p.nodes, i) /\ Worth(r, c, u) /\ r.status \in Int
  BY DEF Tree, InPlace, Sound
<1>3. c \in Nat \ {0} /\ u \in Nat /\ c <= u
  BY DEF Sound
<1>4. \A k \in kids : k \in DOMAIN p.nodes /\ Worth(p.nodes[k], c, u)
  BY <1>2 DEF InPlace, Sound
<1>5. \A b \in kept : b \in Nat /\ u <= b /\ b # 0
  BY <1>4 DEF Worth
<1>6. r.best = c => good = {}
  <2>1. ASSUME r.best = c, NEW b \in good PROVE FALSE
    <3>1. r.best # 0 /\ u <= c /\ r.ub <= c
      BY <1>2, <1>3, <2>1 DEF Worth
    <3>2. b \in Nat /\ u <= b /\ b < r.ub /\ r.ub \in Nat
      BY <1>2, <1>5, <2>1, <3>1 DEF Worth
    <3>. HIDE DEF r, good
    <3>. QED  BY <1>3, <3>1, <3>2
  <2>. QED  BY <2>1
<1>7. ASSUME u = c, NEW k \in kids, p.nodes[k].best = c, r.best # c
      PROVE  c \in good
  <2>1. c \in kept
    BY <1>3, <1>7
  <2>2. CASE r.best = 0
    BY <2>1, <2>2
  <2>3. CASE r.best # 0
    <3>1. c < r.ub
      BY <1>2, <1>7, <2>3 DEF Worth
    <3>. QED  BY <2>1, <2>3, <3>1
  <2>. QED  BY <2>2, <2>3
<1>. HIDE DEF kept
<1>8. CASE good = {}
  <2>1. Collected(p, i, kids) = p
    BY <1>1, <1>8
  <2>2. Rewritten(p, i, p, r.lb, r.ub, r.best, r.status)
    BY DEF Rewritten, Writes, SamePlace
  <2>3. u = c /\ (\E k \in kids : p.nodes[k].best = c) => r.best = c
    BY <1>7, <1>8
  <2>. QED  BY <2>1, <2>2, <2>3
<1>9. CASE good # {}
  <2>1. good \in SUBSET Nat /\ \A b \in good : u <= b /\ b # 0
    BY <1>5
  <2>. HIDE DEF good
  <2>2. x \in Nat /\ u <= x /\ x # 0 /\ (c \in good => x <= c)
    BY <1>9, <2>1, MinIsLeast
  <2>. HIDE DEF x
  <2>3. Rewritten(p, i, q, r.lb, x, x, r.status)
    <3> DEFINE v == WithBest(p, i, x)
    <3>1. Rewritten(p, i, v, r.lb, r.ub, x, r.status) /\ IsProblem(v)
      BY <1>2, FieldRewritten, BestWritten DEF Changed
    <3>. HIDE DEF v
    <3>2. v.nodes[i].lb = r.lb /\ v.nodes[i].best = x /\ v.nodes[i].status = r.status
      BY <3>1 DEF Rewritten, Writes
    <3>3. Rewritten(v, i, q, r.lb, x, x, r.status)
      BY <3>1, <3>2, FieldRewritten DEF v
    <3>. HIDE DEF q
    <3>. QED  BY <3>1, <3>3, RewrittenTwice
  <2>. HIDE DEF q
  <2>4. LET d == q.nodes[i]
        IN  /\ d.parent = r.parent /\ d.same = r.same /\ d.diff = r.diff /\ d.opt = r.opt /\ d.lp = r.lp
            /\ d.lb = r.lb /\ d.ub = x /\ d.best = x /\ d.status = r.status
            /\ Kids(d) = Kids(r)
    BY <2>3 DEF Rewritten, Writes, SamePlace, Kids
  <2>5. Worth(q.nodes[i], c, u)
    <3>1. x = c \/ c < x
      BY <1>3, <2>2
    <3>. QED  BY <1>2, <2>2, <2>4, <3>1 DEF Worth
  <2>6. Allowed(p, i, i, q.nodes[i], c, u)
    BY <1>6, <1>9, <2>4, <2>5 DEF Allowed
  <2>7. Sound(q, i, c, u)
    BY <1>2, <2>3, <2>6, WriteIsSound
  <2>8. u = c /\ (\E k \in kids : p.nodes[k].best = c) => q.nodes[i].best = c
    BY <1>3, <1>6, <1>7, <1>9, <2>2, <2>4
  <2>9. Collected(p, i, kids) = q
    BY <1>1, <1>9
  <2>. QED  BY <2>3, <2>7, <2>8, <2>9
<1>. QED  BY <1>8, <1>9

(* Children that are finished may be freed when no optimal colouring is    *)
(* lost with them. *)
LEMMA FreedIsSound ==
  ASSUME NEW p, Tree(p), NEW i \in DOMAIN p.nodes, NEW c, NEW u, Sound(p, i, c, u),
         NEW kids, kids \subseteq Kids(p.nodes[i]), \A k \in kids : p.nodes[k].status >= finished,
         u = c => \E n \in DOMAIN p.nodes \ kids : p.nodes[n].best = c
  PROVE  LET q == Freed(p, i, kids)
             r == p.nodes[i]
         IN  /\ Sound(q, i, c, u) /\ Collapses(p, i, q)
             /\ q.nodes[i].same = r.same \ kids /\ q.nodes[i].diff = r.diff \ kids
<1> DEFINE q == Freed(p, i, kids)
           r == p.nodes[i]
           s == q.nodes[i]
<1>1. InPlace(p.nodes, i) /\ Worth(r, c, u) /\ Lineage(p.nodes, i, u)
  BY DEF Tree, Sound
<1>2. /\ Tree(q) /\ Collapses(p, i, q) /\ DOMAIN q.nodes = DOMAIN p.nodes \ kids
      /\ s.same = r.same \ kids /\ s.diff = r.diff \ kids
      /\ s.lp = r.lp /\ s.lb = r.lb /\ s.ub = r.ub /\ s.best = r.best
  BY FreedCollapses
<1>. HIDE DEF q
<1>3. /\ s.parent = r.parent /\ s.depth = r.depth /\ s.status = r.status /\ s.opt = r.opt
      /\ q.ub = p.ub /\ i \in DOMAIN q.nodes
  BY <1>2 DEF Collapses
<1>4. Tree(q) /\ i \in DOMAIN q.nodes
  BY <1>2, <1>3
<1>. HIDE DEF s
<1>5. /\ q.nodes[i] = s
      /\ \A n \in DOMAIN q.nodes : n # i => q.nodes[n] = p.nodes[n]
      /\ \A n \in DOMAIN q.nodes : /\ n \in DOMAIN p.nodes /\ q.nodes[n].opt = p.nodes[n].opt
                                   /\ q.nodes[n].depth = p.nodes[n].depth
                                   /\ q.nodes[n].status = p.nodes[n].status
                                   /\ q.nodes[n].best = p.nodes[n].best
  BY <1>2, <1>3 DEF Collapses, s
<1>. HIDE DEF r
<1>6. Collapses(p, i, q)
  BY <1>2
<1>7. Kids(s) = Kids(r) \ kids
  BY <1>2 DEF Kids
<1>8. \A k \in kids : k \in DOMAIN p.nodes /\ p.nodes[k].parent = i /\ Worth(p.nodes[k], c, u)
                       /\ Lineage(p.nodes, k, u)
  BY <1>1 DEF InPlace, Sound, r
<1>9. ASSUME NEW n \in DOMAIN q.nodes PROVE Worth(q.nodes[n], c, u)
  <2>1. CASE n = i
    BY <1>1, <1>2, <1>3, <1>5, <1>7, <2>1 DEF Worth
  <2>2. CASE n # i
    BY <1>5, <2>2 DEF Sound
  <2>. QED  BY <2>1, <2>2
<1>10. Kids(r) # {} => u <= r.opt \/ \E k \in Kids(r) \ kids : p.nodes[k].opt = r.opt
  BY <1>1, <1>8 DEF Lineage, Worth, r
<1>11. \A n \in DOMAIN q.nodes : InPlace(q.nodes, n)
  BY <1>4 DEF Tree
<1>12. ASSUME NEW n \in DOMAIN q.nodes PROVE Lineage(q.nodes, n, u)
  <2>1. Lineage(p.nodes, n, u) /\ q.nodes[n].parent = p.nodes[n].parent
    BY <1>3, <1>5 DEF Sound, r
  <2>2. n # Root => q.nodes[n].parent \in DOMAIN q.nodes
    BY <1>11, <2>1 DEF Lineage, InPlace
  <2>3. \A k \in Kids(q.nodes[n]) : k \in DOMAIN q.nodes
    BY <1>11 DEF InPlace
  <2>4. CASE n = i
    <3>1. Kids(q.nodes[i]) # {} => u <= r.opt \/ \E k \in Kids(q.nodes[i]) : q.nodes[k].opt = r.opt
      BY <1>5, <1>7, <1>10, <2>3, <2>4
    <3>. QED  BY <1>3, <1>5, <2>1, <2>2, <2>4, <3>1 DEF Lineage, r
  <2>5. CASE n # i
    BY <1>5, <2>1, <2>2, <2>3, <2>5 DEF Lineage
  <2>. QED  BY <2>4, <2>5
<1>13. ASSUME NEW n \in DOMAIN q.nodes, n # i, Quiet(p.nodes, n)
       PROVE  Quiet(q.nodes, n)
  <2>1. q.nodes[n] = p.nodes[n]
    BY <1>5, <1>13
  <2>2. \A k \in Kids(q.nodes[n]) : k \in DOMAIN q.nodes /\ q.nodes[k].status = p.nodes[k].status
    BY <1>5, <1>11, <1>13 DEF InPlace
  <2>. QED  BY <1>13, <2>1, <2>2 DEF Quiet, Busy, Kids
<1>14. Calm(q, i)
  BY <1>3, <1>4, <1>5, <1>13 DEF Sound, Calm, r
<1>15. u = c => \E n \in DOMAIN q.nodes : q.nodes[n].best = c
  BY <1>2, <1>5
<1>16. Kids(q.nodes[i]) = {} => u <= q.nodes[i].opt
  <2>1. Kids(r) = {} => u <= r.opt
    BY DEF Sound, r
  <2>. QED  BY <1>3, <1>5, <1>7, <1>10, <2>1
<1>17. Root \in DOMAIN q.nodes /\ q.nodes[Root].opt = c
  <2>1. Root \in DOMAIN p.nodes /\ p.nodes[Root].opt = c
    BY DEF Sound
  <2>2. Root \notin kids
    <3>1. i # None
      BY DEF Tree, None
    <3>. QED  BY <1>8, <3>1 DEF Lineage
  <2>. QED  BY <1>2, <1>5, <2>1, <2>2
<1>18. c \in Nat \ {0} /\ u \in Nat /\ q.ub \in Nat /\ c <= u /\ u <= q.ub
  BY <1>3 DEF Sound
<1>19. Sound(q, i, c, u)
  BY <1>9, <1>12, <1>14, <1>15, <1>16, <1>17, <1>18 DEF Sound
<1>. QED  BY <1>2, <1>6, <1>19 DEF q, r, s

(* One branch is collected if all of it is finished. *)
LEMMA BranchIsSound ==
  ASSUME NEW p, Tree(p), NEW i \in DOMAIN p.nodes, NEW c, NEW u, Sound(p, i, c, u),
         NEW kids, NEW rest, {kids, rest} = {p.nodes[i].same, p.nodes[i].diff}
  PROVE  LET q == CollectBranch(p, i, kids)
             r == p.nodes[i]
         IN  /\ Sound(q, i, c, u) /\ Collapses(p, i, q)
             /\ kids = r.same => Busy(q.nodes, q.nodes[i].same) /\ q.nodes[i].diff = r.diff
             /\ kids = r.diff => Busy(q.nodes, q.nodes[i].diff) /\ q.nodes[i].same = r.same
<1> DEFINE r == p.nodes[i]
           v == Collected(p, i, kids)
           q == Freed(v, i, kids)
<1>1. InPlace(p.nodes, i) /\ kids \subseteq Kids(r)
  BY DEF Tree, Kids
<1>2. CollectBranch(p, i, kids) = IF AllFinished(p, kids) THEN q ELSE p
  BY DEF CollectBranch
<1>3. CASE ~AllFinished(p, kids)
  <2>1. Busy(p.nodes, kids)
    <3>1. SUFFICES ASSUME NEW k \in kids, ~(p.nodes[k].status >= finished)
                   PROVE  p.nodes[k].status < finished
      BY <1>3 DEF AllFinished, Busy
    <3>2. k \in DOMAIN p.nodes /\ p.nodes[k].status \in Int
      BY <1>1 DEF InPlace, Tree
    <3>. QED  BY <3>1, <3>2 DEF finished
  <2>2. CollectBranch(p, i, kids) = p
    BY <1>2, <1>3
  <2>. HIDE DEF q, v
  <2>3. Collapses(p, i, p)
    BY DEF Collapses
  <2>4. /\ kids = r.same => Busy(p.nodes, r.same)
        /\ kids = r.diff => Busy(p.nodes, r.diff)
    BY <2>1
  <2>. QED  BY <2>2, <2>3, <2>4
<1>4. CASE AllFinished(p, kids)
  <2>1. kids # {} /\ Kids(r) # {} /\ \A k \in kids : p.nodes[k].status >= finished
    BY <1>1, <1>4 DEF AllFinished
  <2>2. /\ Sound(v, i, c, u)
        /\ \E ub, best : Rewritten(p, i, v, r.lb, ub, best, r.status)
        /\ u = c /\ (\E k \in kids : p.nodes[k].best = c) => v.nodes[i].best = c
    BY SMTT(60), <1>1, <2>1, CollectedIsSound
  <2>3. SameTree(p, v)
    BY CollectedKeeps DEF Tree
  <2>4. Tree(v)
    BY <2>3, SameTreeCollects DEF Collects
  <2>. HIDE DEF v
  <2>5. /\ DOMAIN v.nodes = DOMAIN p.nodes /\ v.ub = p.ub /\ v.next = p.next
        /\ \A n \in DOMAIN p.nodes : n # i => v.nodes[n] = p.nodes[n]
        /\ LET d == v.nodes[i]
           IN  /\ d.parent = r.parent /\ d.depth = r.depth /\ d.same = r.same /\ d.diff = r.diff
               /\ d.opt = r.opt /\ d.status = r.status
    BY <2>2 DEF Rewritten, Writes, SamePlace
  <2>6. \A k \in kids : k \in DOMAIN p.nodes /\ k # i
    <3>1. \A k \in kids : k \in DOMAIN p.nodes /\ p.nodes[k].parent = i
      BY <1>1 DEF InPlace
    <3>2. r.status >= finished => Kids(r) = {}
      BY <1>1 DEF InPlace
    <3>. QED  BY <2>1, <3>1, <3>2
  <2>7. /\ kids \subseteq Kids(v.nodes[i]) /\ i \in DOMAIN v.nodes
        /\ \A k \in kids : v.nodes[k].status >= finished
    BY <1>1, <2>1, <2>5, <2>6 DEF Kids
  <2>8. u = c => \E n \in DOMAIN v.nodes \ kids : v.nodes[n].best = c
    <3>1. SUFFICES ASSUME u = c PROVE \E n \in DOMAIN v.nodes \ kids : v.nodes[n].best = c
      OBVIOUS
    <3>2. PICK n \in DOMAIN v.nodes : v.nodes[n].best = c
      BY <2>2, <3>1 DEF Sound
    <3>3. CASE n \in kids
      BY <2>2, <2>5, <2>6, <3>1, <3>2, <3>3
    <3>. QED  BY <3>2, <3>3
  <2>9. /\ Sound(q, i, c, u) /\ Collapses(v, i, q)
        /\ q.nodes[i].same = v.nodes[i].same \ kids /\ q.nodes[i].diff = v.nodes[i].diff \ kids
    BY <2>2, <2>4, <2>7, <2>8, FreedIsSound
  <2>. HIDE DEF q
  <2>10. Collapses(p, i, q)
    BY <2>5, <2>9 DEF Collapses
  <2>11. /\ kids = r.same => q.nodes[i].same = {} /\ q.nodes[i].diff = r.diff
         /\ kids = r.diff => q.nodes[i].diff = {} /\ q.nodes[i].same = r.same
    BY <1>1, <2>5, <2>9 DEF InPlace
  <2>12. CollectBranch(p, i, kids) = q
    BY <1>2, <1>4
  <2>. QED  BY <2>9, <2>10, <2>11, <2>12 DEF Busy
<1>. QED  BY <1>3, <1>4

(* When both branches have been looked at there is nothing to collect. *)
LEMMA BranchesAreSound ==
  ASSUME NEW p, Tree(p), NEW i \in DOMAIN p.nodes, NEW c, NEW u, Sound(p, i, c, u)
  PROVE  LET q == CollectBranches(p, i)
         IN  /\ Tree(q) /\ Sound(q, i, c, u) /\ Collapses(p, i, q)
             /\ Busy(q.nodes, q.nodes[i].same) /\ Busy(q.nodes, q.nodes[i].diff)
<1> DEFINE v == CollectBranch(p, i, p.nodes[i].same)
           q == CollectBranch(v, i, v.nodes[i].diff)
<1>1. CollectBranches(p, i) = q
  BY DEF CollectBranches, Strictly
<1>2. Tree(q)
  BY <1>1, BranchesCollect DEF Collects
<1>3. Tree(v) /\ i \in DOMAIN v.nodes
  BY BranchCollects DEF Kids, Collects
<1>4. /\ Sound(v, i, c, u) /\ Collapses(p, i, v)
      /\ Busy(v.nodes, v.nodes[i].same)
  BY BranchIsSound
<1>. HIDE DEF v
<1>5. /\ Sound(q, i, c, u) /\ Collapses(v, i, q)
      /\ Busy(q.nodes, q.nodes[i].diff) /\ q.nodes[i].same = v.nodes[i].same
  <2>1. {v.nodes[i].diff, v.nodes[i].same} = {v.nodes[i].same, v.nodes[i].diff}
    OBVIOUS
  <2>. QED  BY ZenonT(60), <1>3, <1>4, <2>1, BranchIsSound
<1>. HIDE DEF q
<1>6. Collapses(p, i, q)
  BY <1>4, <1>5 DEF Collapses
<1>7. Busy(q.nodes, q.nodes[i].same)
  <2>1. InPlace(q.nodes, i)
    BY <1>2, <1>5 DEF Tree, Collapses
  <2>2. \A k \in q.nodes[i].same : k \in DOMAIN q.nodes /\ q.nodes[k].status = v.nodes[k].status
    BY <1>5, <2>1 DEF InPlace, Kids, Collapses
  <2>. QED  BY <1>4, <1>5, <2>2 DEF Busy
<1>. QED  BY <1>1, <1>2, <1>5, <1>6, <1>7

(* One step of remove_finished_subtree up: behind it all is quiet, and it is *)
(* a level higher.                                                         *)
LEMMA CleanedIsSound ==
  ASSUME NEW s, Tree(s.p), Stands(s), NEW c, NEW u, Sound(s.p, s.at, c, u)
  PROVE  LET t == Cleaned(s)
         IN  /\ Tree(t.p) /\ Stands(t) /\ Sound(t.p, t.at, c, u) /\ Kept(s.p, t.p)
             /\ t.at # None => s.at # None /\ t.p.nodes[t.at].depth + 1 = s.p.nodes[s.at].depth
             /\ s.at # None => s.at \notin Open(t.p)
<1> DEFINE p == s.p
           i == s.at
           q == CollectBranches(p, i)
           v == WithStatus(q, i, finished)
           r == backup_colordata(v, i)
           m == q.nodes[i].parent
<1>1. Cleaned(s) = IF i = None THEN s
                   ELSE IF Kids(q.nodes[i]) # {} THEN [p |-> q, at |-> None]
                   ELSE [p |-> r, at |-> m]
  BY DEF Cleaned, Strictly, FinishedOrLeft, Finished, WithStatus
<1>2. CASE i = None
  BY <1>1, <1>2, KeptTwice DEF Stands
<1>3. ASSUME i # None
      PROVE  /\ i \in DOMAIN p.nodes
             /\ Tree(q) /\ Sound(q, i, c, u) /\ Collapses(p, i, q)
             /\ Busy(q.nodes, q.nodes[i].same) /\ Busy(q.nodes, q.nodes[i].diff)
  BY <1>3, BranchesAreSound DEF Stands
<1>. HIDE DEF p, i, q
<1>4. CASE i # None /\ Kids(q.nodes[i]) # {}
  <2>1. i \in DOMAIN q.nodes /\ InPlace(q.nodes, i) /\ None \notin DOMAIN q.nodes
    BY <1>3, <1>4 DEF Collapses, Tree, None
  <2>2. ~(q.nodes[i].status >= finished)
    BY <1>4, <2>1 DEF InPlace
  <2>3. Quiet(q.nodes, i)
    BY <1>3, <1>4 DEF Quiet, Restful
  <2>4. Calm(q, None)
    BY <1>3, <1>4, <2>2, <2>3 DEF Sound, Calm
  <2>5. Sound(q, None, c, u)
    BY <1>3, <1>4, <2>1, <2>4 DEF Sound
  <2>6. \A n \in Open(q) : n # i
    BY <1>4 DEF Open
  <2>7. Kept(p, q)
    BY <1>3, <1>4, <2>6 DEF Collapses, Kept, Open
  <2>8. Cleaned(s).p = q /\ Cleaned(s).at = None
    BY <1>1, <1>4
  <2>. QED  BY <1>3, <1>4, <2>5, <2>6, <2>7, <2>8 DEF Stands, p, i
<1>5. CASE i # None /\ Kids(q.nodes[i]) = {}
  <2> DEFINE d == q.nodes[i]
  <2>1. /\ i \in DOMAIN q.nodes /\ InPlace(q.nodes, i) /\ IsProblem(q)
        /\ Worth(d, c, u) /\ u <= d.opt
    BY <1>3, <1>5 DEF Collapses, Tree, Sound
  <2>2. finished \in Int /\ ~(finished < finished) /\ finished >= finished
    BY DEF finished
  <2>3. Rewritten(q, i, v, d.lb, d.ub, d.best, finished) /\ Changed(q, i, finished, q.heap, v)
    BY <2>1, FieldRewritten, StatusWritten
  <2>. HIDE DEF v
  <2>4. LET e == v.nodes[i]
        IN  /\ e.parent = d.parent /\ e.same = d.same /\ e.diff = d.diff /\ e.opt = d.opt
            /\ e.lp = d.lp /\ e.lb = d.lb /\ e.ub = d.ub /\ e.best = d.best /\ e.status = finished
            /\ e.depth = d.depth /\ Kids(e) = {}
    BY <1>5, <2>1, <2>3 DEF Rewritten, Writes, SamePlace, Kids
  <2>5. Worth(v.nodes[i], c, u)
    <3>1. finished <= finished
      BY DEF finished
    <3>. QED  BY <2>1, <2>4, <3>1 DEF Worth
  <2>6. Allowed(q, i, i, v.nodes[i], c, u)
    BY <2>2, <2>4, <2>5 DEF Allowed
  <2>7. Sound(v, i, c, u)
    BY <1>3, <1>5, <2>1, <2>2, <2>3, <2>6, WriteIsSound
  <2>8. Tree(v)
    BY <1>3, <1>5, <2>1, <2>2, <2>3, ChangeKeepsTree
  <2>9. r.nodes = v.nodes /\ r.ub = v.ub /\ r.next = v.next /\ SameTree(v, r)
    BY <2>8, BackedUp DEF Tree, SameTree, SamePlace
  <2>. HIDE DEF r, d
  <2>10. i \in DOMAIN v.nodes
    BY <2>1, <2>3 DEF Rewritten
  <2>11. Tree(r) /\ Sound(r, i, c, u)
    BY <2>7, <2>8, <2>9, <2>10, SameNodesSound, SameTreeCollects DEF Collects
  <2>12. r.nodes[i].parent = m /\ r.nodes[i].depth = p.nodes[i].depth
         /\ r.nodes[i].status = finished /\ Kids(r.nodes[i]) = {}
    BY <1>3, <1>5, <2>4, <2>9 DEF Collapses, d
  <2>13. Quiet(r.nodes, i)
    BY <2>2, <2>12 DEF Quiet, Busy, Restful, Kids
  <2>14. m = None \/ (m \in DOMAIN r.nodes /\ Kids(r.nodes[m]) # {})
    BY <2>9, <2>10, <2>11, <2>12, ParentClimbs
  <2>. HIDE DEF m
  <2>15. Calm(r, m)
    BY <2>11, <2>12, <2>13 DEF Sound, Calm
  <2>16. Sound(r, m, c, u)
    <3>1. None \notin DOMAIN r.nodes
      BY <2>11 DEF Tree, None
    <3>. QED  BY <2>11, <2>14, <2>15, <3>1 DEF Sound
  <2>17. m # None => r.nodes[m].depth + 1 = p.nodes[i].depth
    <3>1. Lineage(r.nodes, i, u)
      BY <2>9, <2>10, <2>11 DEF Sound
    <3>. QED  BY <2>12, <3>1 DEF Lineage
  <2>18. Kept(p, r) /\ i \notin Open(r)
    <3>1. /\ DOMAIN r.nodes = DOMAIN q.nodes /\ r.ub = q.ub /\ r.next = q.next
          /\ \A n \in DOMAIN q.nodes : n # i => r.nodes[n] = q.nodes[n]
          /\ r.nodes[i].opt = q.nodes[i].opt
      BY <2>3, <2>4, <2>9 DEF Rewritten, d
    <3>2. \A n \in Open(r) : n # i
      BY <2>2, <2>12 DEF Open
    <3>. QED  BY <1>3, <1>5, <2>12, <3>1, <3>2 DEF Collapses, Kept, Open
  <2>19. Cleaned(s).p = r /\ Cleaned(s).at = m
    BY <1>1, <1>5
  <2>. QED  BY <1>5, <2>11, <2>14, <2>16, <2>17, <2>18, <2>19 DEF Stands, p, i
<1>. QED  BY <1>2, <1>4, <1>5

(* When the walk has ended nothing is left to collect. *)
LEMMA RemoveIsSound ==
  ASSUME NEW p, Tree(p), NEW i \in DOMAIN p.nodes, NEW c, NEW u, Sound(p, i, c, u)
  PROVE  LET q == remove_finished_subtree(p, i)
         IN  Tree(q) /\ Sound(q, None, c, u) /\ Kept(p, q) /\ i \notin Open(q)
<1> DEFINE n == p.nodes[i].depth + 1
           first == [p |-> p, at |-> i]
<1>1. p.nodes[i].depth \in Nat
  BY DEF Tree, InPlace
<1>2. PICK h : Walks(h, "clean", <<>>, first, n) /\ remove_finished_subtree(p, i) = h[n].p
  BY <1>1, CleanIsWalk
<1>3. /\ first.p = p /\ first.at = i /\ n \in Nat
      /\ p.nodes[i].depth + 0 = n - 1
  BY <1>1
<1>. HIDE DEF first, n
<1> DEFINE Good(k) == /\ Tree(h[k].p) /\ Stands(h[k]) /\ Sound(h[k].p, h[k].at, c, u)
                      /\ Kept(p, h[k].p)
                      /\ h[k].at # None => h[k].p.nodes[h[k].at].depth + k = n - 1
                      /\ h[k].at = i \/ i \notin Open(h[k].p)
           T == {k \in Nat : k <= n => Good(k)}
<1>4. 0 \in T
  <2>1. h[0] = first
    BY SMTT(60), <1>2, <1>3 DEF Walks
  <2>. QED  BY <1>3, <2>1, KeptTwice DEF Stands
<1>5. ASSUME NEW k \in T PROVE k + 1 \in T
  <2>1. SUFFICES ASSUME k + 1 <= n PROVE Good(k + 1)
    OBVIOUS
  <2>2. k \in Nat /\ Good(k)
    BY <1>3, <2>1
  <2>3. h[k + 1] = Cleaned(h[k])
    <3>1. k + 1 \in 0 .. n /\ k + 1 # 0 /\ (k + 1) - 1 = k
      BY SMTT(60), <1>3, <2>1, <2>2
    <3>2. h[k + 1] = StepOf("clean", <<>>, k + 1, h[k])
      BY <1>2, <3>1 DEF Walks
    <3>. QED  BY <3>2 DEF StepOf
  <2> DEFINE s == h[k]
             t == h[k + 1]
  <2>4. /\ Tree(t.p) /\ Stands(t) /\ Sound(t.p, t.at, c, u) /\ Kept(s.p, t.p)
        /\ t.at # None => s.at # None /\ t.p.nodes[t.at].depth + 1 = s.p.nodes[s.at].depth
        /\ s.at # None => s.at \notin Open(t.p)
    BY SMTT(60), <2>2, <2>3, CleanedIsSound
  <2>5. Kept(p, t.p)
    BY <2>2, <2>4, KeptTwice
  <2>6. t.at # None => t.p.nodes[t.at].depth + (k + 1) = n - 1
    <3>1. SUFFICES ASSUME t.at # None PROVE t.p.nodes[t.at].depth + (k + 1) = n - 1
      BY SMTT(60)
    <3>2. t.p.nodes[t.at].depth \in Nat
      BY SMTT(60), <2>4, <3>1 DEF Stands, Tree, InPlace
    <3>3. t.p.nodes[t.at].depth + 1 = s.p.nodes[s.at].depth
          /\ s.p.nodes[s.at].depth + k = n - 1
      BY SMTT(60), <2>2, <2>4, <3>1
    <3>. HIDE DEF s, t
    <3>. QED  BY <1>3, <2>2, <3>2, <3>3
  <2>7. i \notin Open(t.p)
    <3>1. i # None
      BY SMTT(60) DEF Tree, None
    <3>2. Open(t.p) \subseteq Open(s.p)
      BY <2>4 DEF Kept, Open
    <3>. QED  BY <2>2, <2>4, <3>1, <3>2
  <2>. QED  BY <2>4, <2>5, <2>6, <2>7
<1>6. T = Nat
  <2>. HIDE DEF T
  <2>. QED  BY <1>4, <1>5, SetInduction DEF T
<1>7. Good(n)
  <2>1. n \in T /\ n <= n
    BY <1>3, <1>6
  <2>. QED  BY <2>1
<1>8. h[n].at = None
  <2>1. SUFFICES ASSUME h[n].at # None PROVE FALSE
    BY SMTT(60)
  <2>2. h[n].p.nodes[h[n].at].depth \in Nat
    BY <1>7, <2>1 DEF Stands, Tree, InPlace
  <2>3. h[n].p.nodes[h[n].at].depth + n = n - 1
    BY <1>7, <2>1
  <2>. QED  BY <1>3, <2>2, <2>3
<1>9. i # None
  BY DEF Tree, None
<1>. QED  BY <1>2, <1>7, <1>8, <1>9

-----------------------------------------------------------------------------
(* The boss looks for a job.                                               *)

(* A useless node is finished, and finished nodes are collected. *)
LEMMA SkippedIsSound ==
  ASSUME NEW p, Tree(p), NEW c, NEW u, Sound(p, None, c, u),
         NEW i \in DOMAIN p.nodes, Kids(p.nodes[i]) = {}, p.nodes[i].lb >= p.ub
  PROVE  LET q == Skipped(p, i)
         IN  Sound(q, None, c, u) /\ Kept(p, q)
<1> DEFINE heap == p.heap \ {i}
           v == WithHeap(p, heap)
           q == WithStatus(v, i, finished)
           d == p.nodes[i]
<1>1. Skipped(p, i) = remove_finished_subtree(q, i)
  BY DEF Skipped, WithHeap, WithStatus
<1>2. IsProblem(p) /\ InPlace(p.nodes, i) /\ Worth(d, c, u) /\ None \notin DOMAIN p.nodes
  BY DEF Tree, Sound, None
<1>3. u <= d.opt
  <2>1. u \in Nat /\ p.ub \in Nat /\ u <= p.ub
    BY DEF Sound
  <2>. QED  BY <1>2, <2>1 DEF Worth
<1>4. Sound(p, i, c, u)
  <2>1. Calm(p, i)
    BY <1>2 DEF Sound, Calm
  <2>. QED  BY <1>2, <1>3, <2>1 DEF Sound
<1>. HIDE DEF heap
<1>5. Rewritten(p, i, v, d.lb, d.ub, d.best, d.status) /\ Changed(p, i, d.status, heap, v)
  BY <1>2, FieldRewritten, HeapWritten
<1>. HIDE DEF v
<1>6. Rewritten(p, i, q, d.lb, d.ub, d.best, finished) /\ Changed(p, i, finished, heap, q)
  <2>1. IsProblem(v) /\ v.heap = heap
    BY <1>5 DEF Changed
  <2>2. v.nodes[i].lb = d.lb /\ v.nodes[i].ub = d.ub /\ v.nodes[i].best = d.best
    BY <1>5 DEF Rewritten, Writes
  <2>3. Rewritten(v, i, q, d.lb, d.ub, d.best, finished)
    BY <2>1, <2>2, FieldRewritten
  <2>4. Changed(v, i, finished, heap, q)
    BY <2>1, StatusWritten
  <2>. HIDE DEF q, d
  <2>. QED  BY <1>5, <2>3, <2>4, RewrittenTwice, ChangedTwice
<1>. HIDE DEF q
<1>7. finished \in Int /\ ~(finished < finished) /\ finished >= finished /\ finished <= finished
  BY DEF finished
<1>8. LET e == q.nodes[i]
      IN  /\ e.parent = d.parent /\ e.same = d.same /\ e.diff = d.diff /\ e.opt = d.opt /\ e.lp = d.lp
          /\ e.lb = d.lb /\ e.ub = d.ub /\ e.best = d.best /\ e.status = finished
          /\ Kids(e) = {}
  BY <1>6 DEF Rewritten, Writes, SamePlace, Kids
<1>9. Worth(q.nodes[i], c, u)
  BY <1>2, <1>3, <1>7, <1>8 DEF Worth
<1>10. Allowed(p, i, i, q.nodes[i], c, u)
  BY <1>7, <1>8, <1>9 DEF Allowed
<1>11. Sound(q, i, c, u)
  BY <1>4, <1>6, <1>7, <1>10, WriteIsSound
<1>12. Tree(q) /\ i \in DOMAIN q.nodes
  <2>1. Changed(p, i, finished, heap, q)
    BY <1>6
  <2>. HIDE DEF d
  <2>2. Tree(q)
    BY <1>7, <2>1, ChangeKeepsTree
  <2>. QED  BY <2>1, <2>2 DEF Changed
<1>13. Kept(p, q)
  BY <1>6, <1>7, WriteKeeps DEF KeptAll
<1>. QED  BY <1>1, <1>11, <1>12, <1>13, RemoveIsSound, KeptTwice

(* However many useless nodes are dropped. *)
LEMMA PrunedIsSound ==
  ASSUME NEW p, NEW out, Accounts(p, out), NEW c, NEW u, Sound(p, None, c, u),
         NEW q \in Pruned(p)
  PROVE  Sound(q, None, c, u) /\ Kept(p, q)
<1>1. PICK n, h : n \in Nat /\ Skips(h, p, n) /\ q \in UNION {h[k] : k \in 0 .. n}
  BY PrunedIsSkipped
<1>2. n \in Nat
  BY <1>1
<1>5. h = [k \in 0 .. n |-> IF k = 0 THEN {p} ELSE SkippedFrom(h[k - 1])]
      /\ q \in UNION {h[k] : k \in 0 .. n}
  BY <1>1 DEF Skips
<1> DEFINE Good(S) == \A r \in S : Accounts(r, out) /\ Sound(r, None, c, u) /\ Kept(p, r)
           T == {k \in Nat : k <= n => Good(h[k])}
<1>6. 0 \in T
  <2>1. h[0] = {p}
    BY <1>2, <1>5
  <2>. QED  BY <2>1, KeptTwice
<1>7. ASSUME NEW k \in T PROVE k + 1 \in T
  <2>1. SUFFICES ASSUME k + 1 <= n, NEW t \in h[k + 1]
                 PROVE  Accounts(t, out) /\ Sound(t, None, c, u) /\ Kept(p, t)
    OBVIOUS
  <2>2. k \in Nat /\ Good(h[k])
    BY <1>2, <2>1
  <2>3. k + 1 \in 0 .. n /\ k + 1 # 0 /\ (k + 1) - 1 = k
    BY <1>2, <2>1, <2>2
  <2>4. t \in UNION {{Skipped(r, i) : i \in Useless(r)} : r \in h[k]}
    BY <1>5, <2>1, <2>3 DEF SkippedFrom
  <2>5. PICK r \in h[k] : t \in {Skipped(r, i) : i \in Useless(r)}
    BY <2>4
  <2>6. Accounts(r, out) /\ Sound(r, None, c, u) /\ Kept(p, r)
    BY <2>2
  <2>7. PICK i \in r.heap : t = Skipped(r, i) /\ r.nodes[i].lb >= r.ub
    BY <2>5 DEF Useless, COLORNWTheap_min, Deepest, Lowest
  <2>8. Tree(r) /\ i \in DOMAIN r.nodes /\ Kids(r.nodes[i]) = {}
    BY <2>6, <2>7 DEF Accounts, Open
  <2>9. Accounts(t, out)
    BY <2>6, <2>7, SkippedAccounts
  <2>10. Sound(t, None, c, u) /\ Kept(r, t)
    BY <2>6, <2>7, <2>8, SkippedIsSound
  <2>. QED  BY <2>6, <2>9, <2>10, KeptTwice
<1>8. T = Nat
  <2>. HIDE DEF T
  <2>. QED  BY <1>6, <1>7, SetInduction DEF T
<1>9. PICK k \in 0 .. n : q \in h[k]
  BY <1>5
<1>10. Good(h[k])
  <2>1. k \in T /\ k <= n
    BY <1>2, <1>8
  <2>. QED  BY <2>1
<1>. QED  BY <1>9, <1>10

(* A node is given out, with the global bound. *)
LEMMA SubmittedRewrites ==
  ASSUME NEW p, IsProblem(p), NEW i \in DOMAIN p.nodes
  PROVE  LET r == p.nodes[i]
         IN  Rewritten(p, i, Submitted(p, i), r.lb, p.ub, r.best, submitted_for_branching)
<1> DEFINE heap == p.heap \ {i}
           v == WithHeap(p, heap)
           ub == p.ub
           w == WithUb(v, i, ub)
           q == WithStatus(w, i, submitted_for_branching)
           d == p.nodes[i]
<1>1. Submitted(p, i) = q
  BY DEF Submitted, WithHeap, WithUb, WithStatus
<1>. HIDE DEF heap
<1>4. Rewritten(p, i, v, d.lb, d.ub, d.best, d.status) /\ Changed(p, i, d.status, heap, v)
  BY FieldRewritten, HeapWritten
<1>. HIDE DEF v
<1>5. Rewritten(v, i, w, d.lb, ub, d.best, d.status) /\ IsProblem(w)
  <2>1. IsProblem(v)
    BY <1>4 DEF Changed
  <2>2. v.nodes[i].lb = d.lb /\ v.nodes[i].best = d.best /\ v.nodes[i].status = d.status
    BY <1>4 DEF Rewritten, Writes
  <2>3. IsProblem(w)
    BY <2>1, UbWritten DEF Changed
  <2>. HIDE DEF d, ub
  <2>. QED  BY <2>1, <2>2, <2>3, FieldRewritten
<1>. HIDE DEF w
<1>6. Rewritten(p, i, w, d.lb, ub, d.best, d.status)
  <2>. HIDE DEF d, ub
  <2>. QED  BY <1>4, <1>5, RewrittenTwice
<1>7. Rewritten(p, i, q, d.lb, ub, d.best, submitted_for_branching)
  <2>1. w.nodes[i].lb = d.lb /\ w.nodes[i].ub = ub /\ w.nodes[i].best = d.best
    BY <1>6 DEF Rewritten, Writes
  <2>. HIDE DEF d, ub
  <2>2. Rewritten(w, i, q, d.lb, ub, d.best, submitted_for_branching)
    BY <1>5, <2>1, FieldRewritten
  <2>. HIDE DEF q
  <2>. QED  BY <1>6, <2>2, RewrittenTwice
<1>. QED  BY <1>1, <1>7

(* It stays sound when the bounds of the node have not met.                *)
LEMMA SubmittedIsSound ==
  ASSUME NEW p, Tree(p), NEW c, Sound(p, None, c, p.ub),
         NEW i \in DOMAIN p.nodes, Kids(p.nodes[i]) = {}, p.nodes[i].status < finished,
         p.nodes[i].lb < p.ub
  PROVE  LET q == Submitted(p, i)
             r == p.nodes[i]
         IN  /\ Sound(q, None, c, p.ub) /\ Kept(p, q)
             /\ Rewritten(p, i, q, r.lb, p.ub, r.best, submitted_for_branching)
<1> DEFINE ub == p.ub
           q == Submitted(p, i)
           d == p.nodes[i]
<1>2. IsProblem(p) /\ InPlace(p.nodes, i) /\ Worth(d, c, ub) /\ None \notin DOMAIN p.nodes
      /\ ub \in Nat
  BY DEF Tree, Sound, None
<1>3. Quiet(p.nodes, i)
  BY <1>2 DEF Sound, Calm
<1>7. Rewritten(p, i, q, d.lb, ub, d.best, submitted_for_branching)
  BY <1>2, SubmittedRewrites
<1>. HIDE DEF q
<1>8. /\ submitted_for_branching \in Int /\ submitted_for_branching < finished
      /\ ~(submitted_for_branching >= finished)
      /\ submitted_for_branching <= finished
  BY DEF submitted_for_branching, finished
<1>9. ~(d.status >= finished)
  BY <1>2 DEF InPlace, finished
<1>10. LET e == q.nodes[i]
       IN  /\ e.opt = d.opt /\ e.lp = d.lp /\ e.lb = d.lb /\ e.ub = ub /\ e.best = d.best
           /\ e.status = submitted_for_branching /\ Kids(e) = {}
  BY <1>7 DEF Rewritten, Writes, SamePlace, Kids
<1>11. Worth(q.nodes[i], c, ub)
  BY <1>2, <1>8, <1>10 DEF Worth
<1>12. Restful(q.nodes[i], i)
  BY <1>3, <1>10 DEF Quiet, Restful
<1>13. Allowed(p, None, i, q.nodes[i], c, ub)
  BY <1>8, <1>9, <1>10, <1>11, <1>12 DEF Allowed
<1>14. Sound(q, None, c, ub)
  BY <1>7, <1>8, <1>13, WriteIsSound
<1>15. Kept(p, q)
  <2>1. \A n \in Open(q) : n \in Open(p)
    BY <1>7 DEF Open, Rewritten, Writes, SamePlace, Kids
  <2>2. \A n \in DOMAIN p.nodes : /\ q.nodes[n].opt = p.nodes[n].opt
                                  /\ q.nodes[n].depth = p.nodes[n].depth
                                  /\ q.nodes[n].best = p.nodes[n].best
    BY <1>7 DEF Rewritten, Writes, SamePlace
  <2>. QED  BY <1>7, <2>1, <2>2 DEF Kept, Rewritten, Open
<1>. QED  BY <1>7, <1>14, <1>15 DEF q

(* A bound that a colouring has is adopted. *)
LEMMA AdaptIsSound ==
  ASSUME NEW p, Tree(p), NEW at, NEW c, NEW u, Sound(p, at, c, u), NEW x \in Nat, u <= x
  PROVE  LET q == adapt_global_upper_bound(p, x)
         IN  /\ Tree(q) /\ Sound(q, at, c, u) /\ q.nodes = p.nodes /\ q.next = p.next
             /\ q.ub = IF p.ub <= x THEN p.ub ELSE x
<1> DEFINE q == adapt_global_upper_bound(p, x)
           y == IF p.strategy = hybrid /\ x - p.nodes[Root].lb <= 1 THEN min_lb ELSE p.strategy
<1>1. IsProblem(q) /\ q.nodes = p.nodes /\ q.heap = p.heap /\ q.next = p.next
  BY AdaptKeeps DEF Tree
<1>2. q.ub = IF p.ub <= x THEN p.ub ELSE x
  <2>1. CASE p.ub <= x
    BY <2>1 DEF adapt_global_upper_bound
  <2>2. CASE ~(p.ub <= x)
    <3>1. q = [p EXCEPT !.ub = x, !.strategy = y]
      BY <2>2 DEF adapt_global_upper_bound
    <3>. HIDE DEF y, q
    <3>2. q = [nodes |-> p.nodes, heap |-> p.heap, ub |-> x, next |-> p.next,
               strategy |-> y, files |-> p.files]
      BY <3>1 DEF Tree, IsProblem
    <3>. QED  BY <2>2, <3>2
  <2>. QED  BY <2>1, <2>2
<1>. HIDE DEF q
<1>3. Tree(q)
  BY <1>1 DEF Tree
<1>4. q.ub \in Nat /\ u <= q.ub
  BY <1>2 DEF Sound
<1>5. Sound(q, at, c, u)
  BY <1>1, <1>4 DEF Sound, Calm
<1>. QED  BY <1>1, <1>2, <1>3, <1>5 DEF q

(* Forgetting the backups changes nothing else. *)
LEMMA ForgettingIsSound ==
  ASSUME NEW p, IsProblem(p)
  PROVE  LET q == Forgetting(p)
         IN  /\ q.nodes = p.nodes /\ q.ub = p.ub /\ q.next = p.next /\ q.heap = p.heap
             /\ KeptAll(p, q) /\ \A at, c, u : Sound(p, at, c, u) => Sound(q, at, c, u)
<1> DEFINE q == Forgetting(p)
<1>1. q = [nodes |-> p.nodes, heap |-> p.heap, ub |-> p.ub, next |-> p.next,
           strategy |-> p.strategy, files |-> <<>>]
  BY DEF Forgetting, IsProblem
<1>. HIDE DEF q
<1>2. q.nodes = p.nodes /\ q.ub = p.ub /\ q.next = p.next /\ q.heap = p.heap
  BY <1>1
<1>3. KeptAll(p, q) /\ \A at, c, u : Sound(p, at, c, u) => Sound(q, at, c, u)
  BY <1>2, SameNodesSound
<1>. QED  BY <1>2, <1>3 DEF q

-----------------------------------------------------------------------------
(* A worker reports.                                                       *)

(* The root alone is in memory when nothing is below it.                   *)
LEMMA RootAlone ==
  ASSUME NEW p, Tree(p), NEW c, NEW u, Sound(p, None, c, u), Kids(p.nodes[Root]) = {}
  PROVE  DOMAIN p.nodes = {Root}
<1> DEFINE S == {p.nodes[n].depth : n \in DOMAIN p.nodes \ {Root}}
<1>1. Root \in DOMAIN p.nodes
  BY DEF Sound
<1>2. SUFFICES ASSUME S # {} PROVE FALSE
  BY <1>1
<1>3. \A n \in DOMAIN p.nodes : InPlace(p.nodes, n) /\ Lineage(p.nodes, n, u)
  BY DEF Tree, Sound
<1>4. S \in SUBSET Nat
  BY <1>3 DEF InPlace
<1>5. Min(S) \in S /\ \A x \in S : Min(S) <= x
  <2>. HIDE DEF S
  <2>. QED  BY <1>2, <1>4, MinIsLeast
<1>6. PICK n \in DOMAIN p.nodes \ {Root} : p.nodes[n].depth = Min(S)
  BY <1>5
<1> DEFINE m == p.nodes[n].parent
<1>7. /\ m # None /\ m \in DOMAIN p.nodes /\ n \in Kids(p.nodes[m])
      /\ p.nodes[n].depth = p.nodes[m].depth + 1
  BY <1>3, <1>6 DEF Lineage, InPlace
<1>8. m # Root
  BY <1>7
<1>9. p.nodes[m].depth \in S /\ p.nodes[m].depth \in Nat
  BY <1>3, <1>7, <1>8 DEF InPlace
<1>. HIDE DEF S, m
<1>. QED  BY <1>5, <1>6, <1>7, <1>9

(* The worker's problem: one node, and the number of ids in use.           *)
Single(r, i, next) == [nodes |-> [n \in {i} |-> r], next |-> next]

(* The values of the node when the worker has found an integral solution.  *)
LEMMA GrabValues ==
  ASSUME NEW c, NEW i, NEW next, NEW r, c = Single(r, i, next), IsColordata(r)
  PROVE  LET q == grab_integral_solution(c, i)
         IN  /\ q.next = next
             /\ \E status \in {finished, r.status} :
                  Writes(r, q.nodes[i], r.lb, Min({r.ub, r.opt}), r.opt, status)
<1> DEFINE ub == Min({r.ub, r.opt})
           status == IF ub = r.lb THEN finished ELSE r.status
           opt == r.opt
           a == [r EXCEPT !.best = opt]
           b == [a EXCEPT !.ub = ub]
           d == [b EXCEPT !.status = status]
           q == grab_integral_solution(c, i)
<1>1. c.nodes[i] = r
  BY DEF Single
<1>2. q = WithStatus(WithUb(WithBest(c, i, opt), i, ub), i, status)
  BY <1>1 DEF grab_integral_solution, WithBest, WithUb, WithStatus
<1>0. status \in {finished, r.status}
  OBVIOUS
<1>. HIDE DEF ub, status, opt, q
<1>3. WithBest(Single(r, i, next), i, opt) = Single(a, i, next)
  BY DEF WithBest, Single
<1>. HIDE DEF a
<1>4. WithUb(Single(a, i, next), i, ub) = Single(b, i, next)
  BY DEF WithUb, Single
<1>. HIDE DEF b
<1>5. WithStatus(Single(b, i, next), i, status) = Single(d, i, next)
  BY DEF WithStatus, Single
<1>. HIDE DEF d
<1>6. q.next = next /\ q.nodes[i] = d
  <2>1. q = Single(d, i, next)
    BY <1>2, <1>3, <1>4, <1>5
  <2>. QED  BY <2>1 DEF Single
<1>7. Writes(r, a, r.lb, r.ub, opt, r.status) /\ IsColordata(a)
  BY ValueWritten, FieldWritten DEF a
<1>8. Writes(a, b, a.lb, ub, a.best, a.status) /\ IsColordata(b)
  BY <1>7, ValueWritten, FieldWritten DEF b
<1>9. Writes(b, d, b.lb, b.ub, b.best, status)
  BY <1>8, ValueWritten DEF d
<1>10. Writes(r, d, r.lb, ub, opt, status)
  BY <1>7, <1>8, <1>9 DEF Writes, SamePlace
<1>. QED  BY <1>0, <1>6, <1>10 DEF q, ub, opt

(* The result q of a worker whose node r has got the children kids.        *)
Bears(q, i, next, r, kids) ==
  LET d == q.nodes[i]
  IN  /\ q.next = next + Len(kids.bounds)
      /\ d.depth = r.depth /\ d.status = r.status /\ d.best = r.best
      /\ d.opt = r.opt /\ d.lp = r.lp /\ d.lb = r.lb /\ d.ub = r.ub
      /\ \A k \in next .. q.next - 1 : LET b == kids.bounds[k - next + 1]
           IN q.nodes[k] = Colordata(i, r.depth + 1, b, r.ub)

(* The values of the node and of its new children.                         *)
LEMMA ChildrenValues ==
  ASSUME NEW c, NEW i \in Nat, NEW next \in Nat, i < next,
         NEW r, c = Single(r, i, next), IsColordata(r),
         NEW kids, Len(kids.bounds) \in Nat
  PROVE  Bears(WithChildren(c, i, kids), i, next, r, kids)
<1> DEFINE m == next + Len(kids.bounds)
           ids == next .. m - 1
           same == next .. next + kids.same - 1
           diff == ids \ same
           child(b) == Colordata(i, r.depth + 1, b, r.ub)
           e == [r EXCEPT !.same = same]
           d == [e EXCEPT !.diff = diff]
           node(n) == IF n \in ids THEN child(kids.bounds[n - next + 1])
                      ELSE IF n = i THEN d ELSE r
           nodes == [n \in {i} \cup ids |-> node(n)]
           q == WithChildren(c, i, kids)
<1>1. /\ c.nodes[i] = r /\ c.next = next /\ DOMAIN c.nodes = {i}
      /\ c = [nodes |-> [n \in {i} |-> r], next |-> next]
  BY DEF Single
<1>2. q = [nodes |-> nodes, next |-> m]
  <2>1. \A n \in {i} \cup ids : n \notin ids => n = i
    OBVIOUS
  <2>2. q = [c EXCEPT !.nodes = nodes, !.next = m]
    BY <1>1 DEF WithChildren
  <2>. HIDE DEF q, nodes, m
  <2>3. c = [nodes |-> c.nodes, next |-> c.next]
    BY <1>1
  <2>. QED  BY <2>2, <2>3
<1>. HIDE DEF q
<1>3. i \notin ids
  BY DEF ids
<1>4. q.next = m /\ q.nodes = nodes
  BY <1>2
<1>. HIDE DEF d, child, ids
<1>5. nodes[i] = d /\ \A n \in ids : nodes[n] = child(kids.bounds[n - next + 1])
  BY <1>3
<1>. HIDE DEF nodes, same, diff
<1>6. e = [parent |-> r.parent, depth |-> r.depth, status |-> r.status, lb |-> r.lb,
           ub |-> r.ub, best |-> r.best, same |-> same, diff |-> r.diff,
           opt |-> r.opt, lp |-> r.lp, est |-> r.est,
           deepFirst |-> r.deepFirst, whole |-> r.whole]
  BY DEF IsColordata
<1>. HIDE DEF e
<1>7. d = [parent |-> r.parent, depth |-> r.depth, status |-> r.status, lb |-> r.lb,
           ub |-> r.ub, best |-> r.best, same |-> same, diff |-> diff,
           opt |-> r.opt, lp |-> r.lp, est |-> r.est,
           deepFirst |-> r.deepFirst, whole |-> r.whole]
  BY <1>6 DEF d
<1>8. /\ d.depth = r.depth /\ d.status = r.status /\ d.best = r.best
      /\ d.opt = r.opt /\ d.lp = r.lp /\ d.lb = r.lb /\ d.ub = r.ub
  BY <1>7
<1>9. ids = next .. q.next - 1
  BY <1>4 DEF ids
<1>. QED  BY <1>4, <1>5, <1>8, <1>9 DEF q, child, m, Bears

(* What a worker's answer to its copy cd of the node is worth.             *)
Earned(result, i, next, cdata) ==
  LET r   == result.nodes[i]
      ids == next .. result.next - 1
  IN  /\ r.depth = cdata.depth /\ r.opt = cdata.opt /\ r.lp = cdata.lp /\ r.lb = cdata.lb
      /\ \/ /\ ids = {} /\ r.best = cdata.opt
            /\ r.ub \in {cdata.ub, cdata.opt} /\ r.ub <= cdata.ub /\ r.ub <= cdata.opt
            /\ r.status <= finished
         \/ /\ r.best = 0 /\ r.ub = cdata.ub /\ r.status = submitted_for_branching
            /\ cdata.depth < MaxDepth
            /\ \E k \in ids : result.nodes[k].opt = cdata.opt
      /\ \A k \in ids :
           LET d == result.nodes[k]
           IN  /\ d.depth = cdata.depth + 1 /\ d.opt \in Nat /\ cdata.opt <= d.opt
               /\ d.ub = cdata.ub /\ d.best = 0
               /\ d.status \in {LP_bound_estimated, LP_bound_computed}
               /\ cdata.lp \in Nat => d.lp \in Nat /\ d.lb = d.lp /\ d.lp <= d.opt

(* Every answer is. *)
LEMMA ResultsEarn ==
  ASSUME NEW j, IsJob(j), j.cd.opt \in Nat, j.cd.ub \in Nat,
         NEW i \in Nat, j.id = i,
         NEW next \in Nat, problem.next = next, i < next,
         NEW result \in Results(j)
  PROVE  Earned(result, i, next, j.cd)
<1> DEFINE cdata == j.cd
           r == [cdata EXCEPT !.best = 0]
           c == Single(r, i, next)
<1>1. \/ result = grab_integral_solution(c, i)
      \/ /\ cdata.depth < MaxDepth
         /\ \E kids \in Branchings(cdata, FALSE, 0, FALSE) : result = WithChildren(c, i, kids)
  <2> DEFINE given == [nodes |-> [n \in {j.id} |-> [j.cd EXCEPT !.best = 0]],
                       next |-> problem.next]
  <2>1. given = c
    BY DEF Single
  <2>2. \/ result \in {grab_integral_solution(given, j.id)}
        \/ /\ cdata.depth < MaxDepth
           /\ result \in {WithChildren(given, j.id, kids) : kids \in Branchings(j.cd, FALSE, 0, FALSE)}
    BY ZenonT(30) DEF Results
  <2>. HIDE DEF given, c
  <2>. QED  BY <2>1, <2>2
<1>2. IsColordata(cdata) /\ cdata.depth \in Nat /\ cdata.status = submitted_for_branching
      /\ cdata.opt \in Nat /\ cdata.ub \in Nat
  BY DEF IsJob
<1>. HIDE DEF cdata
<1>3. IsColordata(r) /\ Writes(cdata, r, cdata.lb, cdata.ub, 0, cdata.status)
  BY <1>2, FieldWritten, ValueWritten
<1>. HIDE DEF r
<1>4. /\ r.depth = cdata.depth /\ r.opt = cdata.opt /\ r.lp = cdata.lp /\ r.lb = cdata.lb
      /\ r.ub = cdata.ub /\ r.best = 0 /\ r.status = submitted_for_branching
  BY <1>2, <1>3 DEF Writes, SamePlace
<1>5. c = Single(r, i, next)
  OBVIOUS
<1>. HIDE DEF c
<1>6. CASE result = grab_integral_solution(c, i)
  <2> DEFINE ub == Min({r.ub, r.opt})
  <2>1. /\ result.next = next
        /\ \E status \in {finished, r.status} :
             Writes(r, result.nodes[i], r.lb, ub, r.opt, status)
    BY <1>3, <1>5, <1>6, GrabValues
  <2>4. result.nodes[i].status <= finished
    BY <1>4, <2>1 DEF Writes, finished, submitted_for_branching
  <2>2. ub \in {r.ub, r.opt} /\ ub <= r.ub /\ ub <= r.opt
    <3> DEFINE S == {r.ub, r.opt}
    <3>1. S \in SUBSET Nat /\ S # {}
      BY <1>2, <1>4
    <3>. HIDE DEF S
    <3>2. Min(S) \in S /\ \A x \in S : Min(S) <= x
      BY <3>1, MinIsLeast
    <3>. QED  BY <3>2 DEF S
  <2>. HIDE DEF ub
  <2>3. next .. result.next - 1 = {}
    BY <2>1
  <2>. QED  BY <1>4, <2>1, <2>2, <2>3, <2>4 DEF Earned, Writes, SamePlace, cdata
<1>7. ASSUME cdata.depth < MaxDepth, NEW kids \in Branchings(cdata, FALSE, 0, FALSE),
             result = WithChildren(c, i, kids)
      PROVE  Earned(result, i, next, cdata)
  <2> DEFINE B == ChildBounds(cdata, 0, FALSE)
  <2>0. ASSUME NEW b \in B
        PROVE  /\ b.opt \in Nat /\ cdata.opt <= b.opt
               /\ b.status \in {LP_bound_estimated, LP_bound_computed}
               /\ cdata.lp \in Nat => b.lp \in Nat /\ b.est = b.lp /\ b.lp <= b.opt
    <3>1. PICK g \in ChildGraphs(cdata) : b \in Relaxed(g.opt, g.lp, cdata.depth + 1, 0, FALSE)
      BY DEF ChildBounds
    <3>2. g.opt \in cdata.opt .. cdata.opt + 1 /\ g.lp \in cdata.lp .. cdata.lp + 1
          /\ g.opt - g.lp \in 0 .. MaxDepth - cdata.depth - 1
      BY DEF ChildGraphs
    <3> DEFINE depth == cdata.depth + 1
               only == FALSE
    <3>3. b \in Relaxed(g.opt, g.lp, depth, 0, only)
      BY <3>1
    <3>4. b.opt = g.opt /\ b.status \in {LP_bound_estimated, LP_bound_computed}
      <4>1. b \in [opt : {g.opt}, lp : {g.lp}, est : g.lp .. g.lp + (IF depth = MaxDepth THEN 0 ELSE 0),
                   status : {LP_bound_estimated} \cup (IF only THEN {LP_bound_computed} ELSE {})]
        BY <3>3 DEF Relaxed
      <4>. HIDE DEF only, depth
      <4>. QED  BY <4>1
    <3>5. ASSUME cdata.lp \in Nat PROVE b.lp \in Nat /\ b.est = b.lp /\ b.lp <= b.opt
      <4>1. g.lp \in Nat /\ g.opt \in Nat /\ g.opt - g.lp >= 0
        BY <1>2, <1>7, <3>2, <3>5, ColorNodesAssumption
      <4>2. g.lp \in Int
        BY <4>1
      <4>. HIDE DEF depth, only
      <4>3. b.lp = g.lp /\ b.est = g.lp
        BY <3>3, <4>2, Converged
      <4>. QED  BY <3>4, <4>1, <4>3
    <3>. QED  BY <1>2, <3>2, <3>4, <3>5
  <2>. HIDE DEF B
  <2>1. PICK n \in {<<1, 1>>} : kids \in [same : {n[1]}, bounds : [1 .. n[1] + n[2] -> B]]
    BY DEF Branchings, ChildCounts, B
  <2>2. n[1] = 1 /\ n[1] + n[2] = 2
    OBVIOUS
  <2>3. kids.bounds \in [1 .. 2 -> B] /\ Len(kids.bounds) = 2
    BY SMTT(60), <2>1, <2>2
  <2>4. PICK b \in 1 .. 2 : kids.bounds[b].opt = cdata.opt
    BY <2>3 DEF Branchings
  <2>5. LET d == result.nodes[i]
        IN  /\ result.next = next + 2
            /\ d.depth = r.depth /\ d.status = r.status /\ d.best = r.best
            /\ d.opt = r.opt /\ d.lp = r.lp /\ d.lb = r.lb /\ d.ub = r.ub
            /\ \A k \in next .. result.next - 1 : LET x == kids.bounds[k - next + 1]
                 IN result.nodes[k] = Colordata(i, r.depth + 1, x, r.ub)
    <3>1. Len(kids.bounds) \in Nat /\ Len(kids.bounds) = 2
      BY <2>3
    <3>. HIDE DEF B
    <3>2. Bears(result, i, next, r, kids)
      BY <1>3, <1>5, <1>7, <3>1, ChildrenValues
    <3>. QED  BY <3>1, <3>2 DEF Bears
  <2>6. ASSUME NEW k \in next .. result.next - 1
        PROVE  LET d == result.nodes[k]
                   x == kids.bounds[k - next + 1]
               IN  /\ d.depth = cdata.depth + 1 /\ d.opt \in Nat /\ cdata.opt <= d.opt
                   /\ d.ub = cdata.ub /\ d.best = 0
                   /\ d.status \in {LP_bound_estimated, LP_bound_computed}
                   /\ cdata.lp \in Nat => d.lp \in Nat /\ d.lb = d.lp /\ d.lp <= d.opt
                   /\ d.opt = x.opt
    <3> DEFINE x == kids.bounds[k - next + 1]
               d == result.nodes[k]
               depth == r.depth + 1
               ub == r.ub
    <3>1. k - next + 1 \in 1 .. 2
      BY <2>5
    <3>2. x \in B
      BY <2>3, <3>1
    <3>3. /\ x.opt \in Nat /\ cdata.opt <= x.opt
          /\ x.status \in {LP_bound_estimated, LP_bound_computed}
          /\ cdata.lp \in Nat => x.lp \in Nat /\ x.est = x.lp /\ x.lp <= x.opt
      BY <2>0, <3>2
    <3>4. d = Colordata(i, depth, x, ub)
      BY <2>5
    <3>. HIDE DEF d, x, depth, ub
    <3>5. /\ d.depth = depth /\ d.opt = x.opt /\ d.lp = x.lp /\ d.lb = x.est /\ d.ub = ub
          /\ d.best = 0 /\ d.status = x.status
      BY <3>4 DEF Colordata
    <3>. QED  BY <1>4, <3>3, <3>5 DEF d, x, depth, ub
  <2>7. \E k \in next .. result.next - 1 : result.nodes[k].opt = cdata.opt
    <3> DEFINE k == next + b - 1
    <3>1. k \in next .. result.next - 1 /\ k - next + 1 = b
      BY <2>5
    <3>. HIDE DEF k
    <3>2. result.nodes[k].opt = kids.bounds[b].opt
      BY <2>6, <3>1
    <3>. QED  BY <2>4, <3>1, <3>2
  <2>. QED  BY <1>4, <1>7, <2>5, <2>6, <2>7 DEF Earned
<1>. QED  BY <1>1, <1>6, <1>7 DEF cdata

(* A worker's copy of a node, perhaps an old one.                          *)
Fits(j, p) ==
  /\ j.id \in Nat /\ j.id < p.next
  /\ j.cd.opt \in Nat /\ j.cd.lp \in Nat /\ j.cd.lb \in Nat /\ j.cd.ub \in Nat
  /\ p.ub <= j.cd.ub /\ (j.cd.lb <= j.cd.opt \/ p.ub <= j.cd.opt)
  /\ j.id \in DOMAIN p.nodes => j.cd.opt = p.nodes[j.id].opt
                                /\ j.cd.depth = p.nodes[j.id].depth
  /\ j.id \in Open(p) => p.nodes[j.id].best = 0 \/ j.cd.ub <= p.nodes[j.id].best

(* The problem q is p with a worker's result in the place of node i.       *)
Reported(p, i, result, q) ==
  LET d   == p.nodes[i]
      r   == result.nodes[i]
      s   == q.nodes[i]
      ids == p.next .. result.next - 1
  IN  /\ DOMAIN q.nodes = DOMAIN p.nodes \cup ids /\ q.ub = p.ub /\ q.next = result.next
      /\ \A n \in DOMAIN p.nodes : n # i => q.nodes[n] = p.nodes[n]
      /\ \A n \in ids : q.nodes[n] = result.nodes[n]
      /\ s.parent = d.parent /\ s.depth = r.depth /\ s.same = r.same /\ s.diff = r.diff
      /\ s.opt = r.opt /\ s.lp = r.lp /\ s.lb = r.lb /\ s.ub = r.ub /\ s.status = r.status
      /\ s.best = IF r.best # 0 THEN r.best ELSE d.best

(* The boss adopts all values of the worker, but the node's parent.        *)
LEMMA ReceiveReports ==
  ASSUME NEW p, Tree(p), NEW i \in Open(p), NEW result, IsResult(result, i, p.next)
  PROVE  Reported(p, i, result, receive_colordata(p, i, result))
<1> DEFINE q == receive_colordata(p, i, result)
           r == result.nodes[i]
           parent == p.nodes[i].parent
           best == IF r.best # 0 THEN r.best ELSE p.nodes[i].best
           e == [r EXCEPT !.parent = parent]
           adopted == [e EXCEPT !.best = best]
           node(n) == IF n = i THEN adopted
                      ELSE IF n \in DOMAIN result.nodes THEN result.nodes[n] ELSE p.nodes[n]
           nodes == [n \in DOMAIN p.nodes \cup DOMAIN result.nodes |-> node(n)]
           next == result.next
           ids == p.next .. next - 1
<1>1. q = [p EXCEPT !.nodes = nodes, !.next = next]
  BY DEF receive_colordata
<1>. HIDE DEF nodes, next, q
<1>2. q = [nodes |-> nodes, heap |-> p.heap, ub |-> p.ub, next |-> next,
           strategy |-> p.strategy, files |-> p.files]
  BY <1>1 DEF Tree, IsProblem
<1>3. q.nodes = nodes /\ q.ub = p.ub /\ q.next = next
  BY <1>2
<1>4. /\ i \in DOMAIN p.nodes /\ p.next \in Nat /\ DOMAIN p.nodes \subseteq 0 .. p.next - 1
      /\ next \in Nat /\ DOMAIN result.nodes = {i} \cup ids /\ IsColordata(r)
  BY DEF Open, Tree, IsResult, next
<1>5. i \notin ids /\ \A n \in DOMAIN p.nodes : n \notin ids
  BY <1>4
<1>. HIDE DEF adopted, r, e, best, parent
<1>6. /\ DOMAIN nodes = DOMAIN p.nodes \cup ids /\ nodes[i] = adopted
      /\ \A k \in ids : nodes[k] = result.nodes[k]
      /\ \A n \in DOMAIN p.nodes : n # i => nodes[n] = p.nodes[n]
  BY <1>4, <1>5 DEF nodes
<1>7. e = [parent |-> parent, depth |-> r.depth, status |-> r.status, lb |-> r.lb,
           ub |-> r.ub, best |-> r.best, same |-> r.same, diff |-> r.diff,
           opt |-> r.opt, lp |-> r.lp, est |-> r.est,
           deepFirst |-> r.deepFirst, whole |-> r.whole]
  BY <1>4 DEF IsColordata, e
<1>8. adopted = [parent |-> parent, depth |-> r.depth, status |-> r.status, lb |-> r.lb,
                 ub |-> r.ub, best |-> best, same |-> r.same, diff |-> r.diff,
                 opt |-> r.opt, lp |-> r.lp, est |-> r.est,
           deepFirst |-> r.deepFirst, whole |-> r.whole]
  BY <1>7 DEF adopted
<1>9. /\ adopted.parent = parent /\ adopted.depth = r.depth /\ adopted.same = r.same
      /\ adopted.diff = r.diff /\ adopted.opt = r.opt /\ adopted.lp = r.lp /\ adopted.lb = r.lb
      /\ adopted.ub = r.ub /\ adopted.status = r.status /\ adopted.best = best
  BY <1>8
<1>10. Reported(p, i, result, q)
  BY <1>3, <1>6, <1>9 DEF Reported, r, best, parent, next
<1>. QED  BY <1>10 DEF q

(* What it adopts is sound, with the better of the two upper bounds.       *)
LEMMA ReportIsSound ==
  ASSUME NEW p, Tree(p), NEW i \in Open(p), NEW c, Sound(p, None, c, p.ub),
         NEW j, Fits(j, p), j.id = i,
         NEW result, IsResult(result, i, p.next), Earned(result, i, p.next, j.cd),
         NEW q, Tree(q), Reported(p, i, result, q)
  PROVE  LET x == q.nodes[i].ub
             u == IF p.ub <= x THEN p.ub ELSE x
         IN  x \in Nat /\ Sound(q, i, c, u)
<1> DEFINE d == p.nodes[i]
           s == q.nodes[i]
           ids == p.next .. result.next - 1
           copy == j.cd
           top == p.ub
           u == IF p.ub <= s.ub THEN p.ub ELSE s.ub
<1>1. /\ i \in DOMAIN p.nodes /\ Kids(d) = {} /\ d.status < finished /\ None \notin DOMAIN p.nodes
      /\ \A n \in DOMAIN p.nodes : /\ InPlace(p.nodes, n) /\ Worth(p.nodes[n], c, top)
                                   /\ Lineage(p.nodes, n, top) /\ Quiet(p.nodes, n)
      /\ c \in Nat \ {0} /\ top \in Nat /\ c <= top
      /\ Root \in DOMAIN p.nodes /\ p.nodes[Root].opt = c
  BY DEF Open, Tree, None, Sound, Calm
<1>2. /\ copy.opt = d.opt /\ copy.depth = d.depth
      /\ copy.opt \in Nat /\ copy.lp \in Nat /\ copy.lb \in Nat /\ copy.ub \in Nat
      /\ top <= copy.ub /\ (copy.lb <= d.opt \/ top <= d.opt)
      /\ d.best = 0 \/ copy.ub <= d.best
  BY SMTT(60), <1>1 DEF Fits
<1>3. /\ s.opt = d.opt /\ s.parent = d.parent /\ s.depth = d.depth /\ Kids(s) = ids
      /\ s.lp = copy.lp /\ s.lb = copy.lb /\ s.status \in Int
      /\ DOMAIN q.nodes = DOMAIN p.nodes \cup ids /\ q.ub = top
      /\ \A n \in DOMAIN p.nodes : n # i => q.nodes[n] = p.nodes[n]
  BY <1>2 DEF Reported, Earned, IsResult, Kids
<1>4. c <= d.opt /\ d.opt # 0
  BY SMTT(60), <1>1, <1>2 DEF Worth
<1> DEFINE Grab == /\ ids = {} /\ s.best = d.opt /\ s.ub \in {copy.ub, d.opt}
                   /\ s.ub <= d.opt /\ s.status <= finished
           Branch == /\ s.best = d.best /\ s.ub = copy.ub /\ s.status = submitted_for_branching
                     /\ d.depth < MaxDepth
                     /\ \E k \in ids : q.nodes[k].opt = d.opt
<1>5. Grab \/ Branch
  BY SMTT(60), <1>2, <1>4 DEF Reported, Earned
<1>6. \A k \in ids : LET e == q.nodes[k]
                     IN  /\ e.parent = i /\ Kids(e) = {}
                         /\ e.status \in {LP_bound_estimated, LP_bound_computed}
                         /\ e.same = {} /\ e.diff = {}
                         /\ e.depth = d.depth + 1 /\ e.opt \in Nat /\ e.lp \in Nat /\ e.lb = e.lp
                         /\ d.opt <= e.opt /\ e.lp <= e.opt /\ e.ub = copy.ub /\ e.best = 0
  BY <1>2 DEF Reported, Earned, IsResult, Kids
<1>7. \A n \in DOMAIN p.nodes : n \notin ids
  BY DEF Tree
<1>8. DOMAIN p.nodes \subseteq Nat /\ p.next \in Nat
  BY DEF Tree
<1>9. \A k \in ids : k # Root
  BY <1>1, <1>7
<1>. HIDE DEF ids, d, s, copy, top, u
<1>10. /\ s.ub \in Nat /\ u \in Nat /\ c <= u /\ u <= top /\ u <= s.ub
       /\ Grab => u <= d.opt
       /\ Branch => u = top
       /\ u # top => Grab /\ u = s.ub
  BY <1>1, <1>2, <1>4, <1>5 DEF u, top
<1>11. Worth(s, c, u)
  <2>1. CASE Grab
    BY <1>1, <1>2, <1>3, <1>4, <1>10, <2>1 DEF Worth
  <2>2. CASE Branch
    <3>1. ~(s.status >= finished) /\ s.status <= finished
      BY <2>2 DEF submitted_for_branching, finished
    <3>2. d.best # 0 => u <= d.best /\ s.ub <= d.best /\ d.best \in Nat
      BY <1>1, <1>2, <1>10, <2>2 DEF Worth, d
    <3>3. d.best = 0 \/ d.best = c \/ c < s.ub
      <4>1. SUFFICES ASSUME d.best # 0, ~(c < s.ub) PROVE d.best = c
        OBVIOUS
      <4>2. i = Root
        BY <1>1, <4>1 DEF Quiet, Restful, d
      <4>3. c = top
        BY <1>1, <1>2, <1>10, <2>2, <4>1
      <4>4. PICK n \in DOMAIN p.nodes : p.nodes[n].best = c
        BY <4>3 DEF Sound, top
      <4>5. DOMAIN p.nodes = {Root}
        BY <1>1, <4>2, RootAlone DEF d
      <4>. QED  BY <4>2, <4>4, <4>5 DEF d
    <3>4. d.best \in Nat
      BY <1>1 DEF Worth, d
    <3>. QED  BY <1>1, <1>2, <1>3, <1>4, <1>10, <2>2, <3>1, <3>2, <3>3, <3>4 DEF Worth
  <2>. QED  BY <1>5, <2>1, <2>2
<1>12. ASSUME NEW k \in ids PROVE Worth(q.nodes[k], c, u)
  <2>1. \A status \in {LP_bound_estimated, LP_bound_computed} :
          ~(status >= finished) /\ status <= finished
    BY DEF LP_bound_estimated, LP_bound_computed, finished
  <2>2. d.opt \in Nat /\ u <= copy.ub
    BY <1>1, <1>2, <1>10
  <2>. QED  BY <1>1, <1>2, <1>4, <1>6, <1>10, <2>1, <2>2 DEF Worth
<1>13. ASSUME NEW n \in DOMAIN p.nodes, n # i PROVE Worth(q.nodes[n], c, u)
  <2>1. q.nodes[n] = p.nodes[n] /\ Worth(p.nodes[n], c, top)
    BY <1>1, <1>3, <1>13
  <2>. QED  BY <1>1, <1>10, <2>1 DEF Worth
<1>14. \A n \in DOMAIN p.nodes : /\ q.nodes[n].opt = p.nodes[n].opt
                                 /\ q.nodes[n].depth = p.nodes[n].depth
                                 /\ q.nodes[n].parent = p.nodes[n].parent
  BY <1>3 DEF s, d
<1>15. d.depth \in Nat /\ d.depth <= MaxDepth
  BY <1>1 DEF InPlace, Lineage, d
<1>16. Lineage(q.nodes, i, u)
  <2>1. Kids(s) # {} => \E k \in Kids(s) : q.nodes[k].opt = s.opt
    BY <1>3, <1>5
  <2>2. s.parent = None <=> i = Root
    BY <1>1, <1>3 DEF Lineage, d
  <2>3. i # Root => s.depth = q.nodes[s.parent].depth + 1
    <3>1. SUFFICES ASSUME i # Root PROVE s.depth = q.nodes[s.parent].depth + 1
      OBVIOUS
    <3>2. d.parent \in DOMAIN p.nodes /\ d.depth = p.nodes[d.parent].depth + 1
      BY <1>1, <3>1 DEF Lineage, InPlace, d
    <3>. QED  BY <1>3, <1>14, <3>2
  <2>. QED  BY <1>3, <1>15, <2>1, <2>2, <2>3 DEF Lineage, s
<1>17. ASSUME NEW k \in ids PROVE Lineage(q.nodes, k, u)
  <2>1. Branch
    BY <1>5
  <2>2. i # None
    BY <1>1
  <2>3. d.depth + 1 <= MaxDepth
    BY <1>15, <2>1, ColorNodesAssumption
  <2>. QED  BY <1>3, <1>6, <1>9, <2>2, <2>3 DEF Lineage, s
<1>18. ASSUME NEW n \in DOMAIN p.nodes, n # i PROVE Lineage(q.nodes, n, u)
  <2>1. Lineage(p.nodes, n, top) /\ InPlace(p.nodes, n) /\ q.nodes[n] = p.nodes[n]
    BY <1>1, <1>3, <1>18
  <2>2. \A k \in Kids(p.nodes[n]) : k \in DOMAIN p.nodes
    BY <2>1 DEF InPlace
  <2>3. top <= p.nodes[n].opt => u <= p.nodes[n].opt
    BY <1>1, <1>10 DEF Worth
  <2>4. n # Root => p.nodes[n].parent \in DOMAIN p.nodes
    BY <2>1 DEF Lineage, InPlace
  <2>. QED  BY <1>14, <2>1, <2>2, <2>3, <2>4 DEF Lineage
<1>19. ASSUME NEW n \in DOMAIN q.nodes PROVE Worth(q.nodes[n], c, u) /\ Lineage(q.nodes, n, u)
  BY <1>3, <1>11, <1>12, <1>13, <1>16, <1>17, <1>18 DEF s
<1>20. ASSUME NEW k \in ids PROVE Quiet(q.nodes, k)
  <2>1. \A status \in {LP_bound_estimated, LP_bound_computed} : status # submitted_for_branching
    BY DEF LP_bound_estimated, LP_bound_computed, submitted_for_branching
  <2>. QED  BY <1>6, <2>1 DEF Quiet, Busy, Restful
<1>21. ASSUME NEW n \in DOMAIN p.nodes, n # i, ~(s.status >= finished /\ n = s.parent)
       PROVE  Quiet(q.nodes, n)
  <2>1. q.nodes[n] = p.nodes[n] /\ Quiet(p.nodes, n) /\ InPlace(p.nodes, n)
    BY <1>1, <1>3, <1>21
  <2>2. ASSUME NEW k \in Kids(p.nodes[n]), p.nodes[k].status < finished
        PROVE  q.nodes[k].status < finished
    <3>1. k \in DOMAIN p.nodes /\ p.nodes[k].parent = n
      BY <2>1 DEF InPlace
    <3>2. CASE k # i
      BY <1>3, <2>2, <3>1, <3>2
    <3>3. CASE k = i
      <4>1. ~(s.status >= finished)
        BY <1>3, <1>21, <3>1, <3>3 DEF d
      <4>2. s.status < finished
        BY <1>3, <4>1 DEF finished
      <4>. QED  BY <3>3, <4>2 DEF s
    <3>. QED  BY <3>2, <3>3
  <2>. QED  BY <2>1, <2>2 DEF Quiet, Busy, Kids
<1>22. Calm(q, i)
  BY <1>1, <1>3, <1>20, <1>21 DEF Calm, s
<1>23. u = c => \E n \in DOMAIN q.nodes : q.nodes[n].best = c
  <2>1. SUFFICES ASSUME u = c PROVE \E n \in DOMAIN q.nodes : q.nodes[n].best = c
    OBVIOUS
  <2>2. CASE u # top
    <3>1. s.best = c
      BY <1>1, <1>2, <1>4, <1>10, <2>1, <2>2
    <3>. QED  BY <1>1, <1>3, <3>1 DEF s
  <2>3. CASE u = top
    <3>1. PICK n \in DOMAIN p.nodes : p.nodes[n].best = c
      BY <2>1, <2>3 DEF Sound, top
    <3>2. CASE n # i
      BY <1>3, <3>1, <3>2
    <3>3. CASE n = i
      <4>1. i = Root /\ d.opt = c
        BY <1>1, <3>1, <3>3 DEF Quiet, Restful, d
      <4>2. s.best = c
        BY <1>5, <3>1, <3>3, <4>1 DEF d
      <4>. QED  BY <1>1, <1>3, <4>2 DEF s
    <3>. QED  BY <3>2, <3>3
  <2>. QED  BY <2>2, <2>3
<1>24. Kids(s) = {} => u <= s.opt
  BY <1>3, <1>5, <1>10
<1>25. Root \in DOMAIN q.nodes /\ q.nodes[Root].opt = c
  BY <1>1, <1>3, <1>14
<1>26. Sound(q, i, c, u)
  BY <1>1, <1>3, <1>10, <1>19, <1>22, <1>23, <1>24, <1>25 DEF Sound, s
<1>. QED  BY <1>10, <1>26 DEF u, s, top

(* What a worker may rely on while p becomes q: of the nodes that p had,   *)
(* those that are left have their values, and none of them opens again.    *)
KeptOld(p, q) ==
  /\ p.next <= q.next /\ q.ub <= p.ub
  /\ \A n \in DOMAIN q.nodes : n < p.next =>
       /\ n \in DOMAIN p.nodes
       /\ q.nodes[n].opt = p.nodes[n].opt /\ q.nodes[n].depth = p.nodes[n].depth
       /\ n \in Open(q) => n \in Open(p) /\ q.nodes[n].best = p.nodes[n].best

(* A copy of a node still fits. *)
LEMMA FitsStays ==
  ASSUME NEW p, NEW q, KeptOld(p, q), p.next \in Nat, q.next \in Nat,
         p.ub \in Nat, q.ub \in Nat, NEW j, Fits(j, p)
  PROVE  Fits(j, q)
<1>1. j.id \in Nat /\ j.id < p.next /\ j.id < q.next
  BY DEF Fits, KeptOld
<1>2. q.ub <= j.cd.ub /\ (j.cd.lb <= j.cd.opt \/ q.ub <= j.cd.opt)
  BY DEF Fits, KeptOld
<1>3. j.id \in DOMAIN q.nodes =>
        /\ j.id \in DOMAIN p.nodes
        /\ q.nodes[j.id].opt = p.nodes[j.id].opt /\ q.nodes[j.id].depth = p.nodes[j.id].depth
  BY <1>1 DEF KeptOld
<1>4. j.id \in Open(q) => j.id \in Open(p) /\ q.nodes[j.id].best = p.nodes[j.id].best
  BY <1>1 DEF KeptOld, Open
<1>. QED  BY <1>1, <1>2, <1>3, <1>4 DEF Fits

(* Most steps keep more. *)
LEMMA KeptIsOld ==
  ASSUME NEW p, NEW q, Kept(p, q), p.next \in Nat, p.ub \in Nat
  PROVE  KeptOld(p, q)
BY DEF Kept, KeptOld

(* The whole of COLOR_BOSS_RECEIVE. *)
LEMMA ReceiveIsSound ==
  ASSUME NEW p, Tree(p), NEW i \in Open(p), NEW c, Sound(p, None, c, p.ub),
         NEW j, Fits(j, p), j.id = i,
         NEW result, IsResult(result, i, p.next), Earned(result, i, p.next, j.cd)
  PROVE  LET w == Received(receive_colordata(p, i, result), i)
         IN  Tree(w) /\ Sound(w, None, c, w.ub) /\ KeptOld(p, w)
<1> DEFINE q == receive_colordata(p, i, result)
           kids == InOrder(q.nodes[i])
           t == InsertAll(q, kids)
           y == t.nodes[i].ub
           v == adapt_global_upper_bound(t, y)
           w == remove_finished_subtree(v, i)
           x == q.nodes[i].ub
           u == IF p.ub <= x THEN p.ub ELSE x
           ids == p.next .. result.next - 1
<1>1. Received(q, i) = w
  BY DEF Received, Strictly
<1>2. /\ Tree(q) /\ Reported(p, i, result, q)
      /\ Grown(p, i, result, q)
  BY ReceiveGrows, ReceiveReports
<1>. HIDE DEF q
<1>3. x \in Nat /\ Sound(q, i, c, u)
  BY <1>2, ReportIsSound
<1>4. /\ p.next \in Nat /\ i \in DOMAIN p.nodes /\ i < p.next /\ p.ub \in Nat
      /\ result.next \in Nat /\ p.next <= result.next
      /\ DOMAIN p.nodes \subseteq 0 .. p.next - 1
  BY SMTT(60) DEF Tree, Open, IsResult, Sound
<1>5. /\ DOMAIN q.nodes = DOMAIN p.nodes \cup ids /\ q.ub = p.ub /\ q.next = result.next
      /\ \A n \in DOMAIN p.nodes : n # i => q.nodes[n] = p.nodes[n]
      /\ \A n \in ids : q.nodes[n] = result.nodes[n]
      /\ q.nodes[i].opt = result.nodes[i].opt /\ q.nodes[i].depth = result.nodes[i].depth
      /\ Kids(q.nodes[i]) = ids
  BY <1>2 DEF Reported, Grown
<1>6. q.nodes[i].opt = p.nodes[i].opt /\ q.nodes[i].depth = p.nodes[i].depth
  BY <1>4, <1>5 DEF Earned, Fits
<1>7. Lists(kids, ids)
  <2>1. q.nodes[i].same \cap q.nodes[i].diff = {}
    BY <1>2, <1>4, <1>5 DEF Tree, InPlace
  <2>2. ids \subseteq 0 .. q.next - 1 /\ q.next \in Nat
    BY <1>4, <1>5
  <2>. HIDE DEF ids
  <2>. QED  BY <1>5, <2>1, <2>2, InOrderLists
<1>8. \A k \in ids : k \in DOMAIN q.nodes /\ Kids(q.nodes[k]) = {} /\ q.nodes[k].parent = i
  BY <1>5 DEF IsResult, Kids
<1>. HIDE DEF kids, ids, u, x
<1>9. /\ Len(kids) \in Nat
      /\ \A k \in 1 .. Len(kids) : /\ kids[k] \in DOMAIN q.nodes
                                   /\ Kids(q.nodes[kids[k]]) = {}
                                   /\ q.nodes[kids[k]].parent = i
  BY <1>7, <1>8 DEF Lists
<1>10. Tree(t) /\ Sound(t, i, c, u) /\ KeptAll(q, t)
  BY <1>2, <1>3, <1>9, InsertAllIsSound
<1>. HIDE DEF t
<1>11. y = x /\ i \in DOMAIN t.nodes /\ t.ub = p.ub /\ t.next = result.next
  BY <1>4, <1>5, <1>10 DEF KeptAll, Kept, x
<1>12. u <= y /\ y \in Nat
  BY <1>3, <1>4, <1>11 DEF u
<1>13. /\ Tree(v) /\ Sound(v, i, c, u) /\ v.nodes = t.nodes /\ v.next = t.next
       /\ v.ub = IF t.ub <= y THEN t.ub ELSE y
  <2>. HIDE DEF y
  <2>. QED  BY <1>10, <1>12, AdaptIsSound
<1>14. v.ub = u
  BY <1>11, <1>13 DEF u
<1>. HIDE DEF v
<1>15. Tree(w) /\ Sound(w, None, c, u) /\ Kept(v, w) /\ i \notin Open(w)
  <2>1. i \in DOMAIN v.nodes
    BY <1>11, <1>13
  <2>. QED  BY <1>13, <2>1, RemoveIsSound
<1>. HIDE DEF w, y
<1>16. w.ub = u /\ w.ub <= p.ub /\ w.next = result.next
  BY <1>3, <1>4, <1>11, <1>13, <1>14, <1>15 DEF Kept, u
<1>17. ASSUME NEW n \in DOMAIN w.nodes, n < p.next
       PROVE  /\ n \in DOMAIN p.nodes
              /\ w.nodes[n].opt = p.nodes[n].opt /\ w.nodes[n].depth = p.nodes[n].depth
              /\ n \in Open(w) => n \in Open(p) /\ w.nodes[n].best = p.nodes[n].best
  <2>1. n \in DOMAIN t.nodes /\ n \in DOMAIN q.nodes
    BY <1>10, <1>13, <1>15 DEF Kept, KeptAll
  <2>2. n \in DOMAIN p.nodes
    BY <1>4, <1>5, <1>17, <2>1 DEF ids
  <2>3. /\ w.nodes[n].opt = q.nodes[n].opt /\ w.nodes[n].depth = q.nodes[n].depth
    BY <1>10, <1>13, <1>15, <2>1 DEF Kept, KeptAll
  <2>4. q.nodes[n].opt = p.nodes[n].opt /\ q.nodes[n].depth = p.nodes[n].depth
    BY <1>5, <1>6, <2>2
  <2>5. ASSUME n \in Open(w)
        PROVE  n \in Open(p) /\ w.nodes[n].best = p.nodes[n].best
    <3>1. n \in Open(v) /\ w.nodes[n].best = v.nodes[n].best /\ n # i
      BY <1>15, <2>5 DEF Kept
    <3>2. n \in Open(t)
      BY <1>13, <3>1 DEF Open
    <3>3. n \in Open(q) /\ t.nodes[n].best = q.nodes[n].best
      BY <1>10, <2>1, <3>2 DEF Kept, KeptAll
    <3>4. q.nodes[n] = p.nodes[n]
      BY <1>5, <2>2, <3>1
    <3>. QED  BY <1>13, <2>2, <3>1, <3>3, <3>4 DEF Open
  <2>. QED  BY <2>2, <2>3, <2>4, <2>5
<1>18. KeptOld(p, w)
  BY <1>4, <1>16, <1>17 DEF KeptOld
<1>. QED  BY <1>1, <1>15, <1>16, <1>18 DEF q

-----------------------------------------------------------------------------
(* The whole search.                                                       *)

(* Whatever becomes of results: no graph has fewer than c colours, and the *)
(* root has c.                                                             *)
Sane(p, c) ==
  /\ c \in Nat \ {0} /\ p.ub \in Nat /\ c <= p.ub
  /\ Root \in DOMAIN p.nodes /\ p.nodes[Root].parent = None /\ p.nodes[Root].opt = c
  /\ \A n \in DOMAIN p.nodes : p.nodes[n].opt \in Nat /\ c <= p.nodes[n].opt

(* Neither does a worker know of fewer. *)
Carries(j, c) ==
  /\ j.cd.opt \in Nat /\ c <= j.cd.opt /\ j.cd.ub \in Nat /\ c <= j.cd.ub
  /\ j.id = Root => j.cd.opt = c

Modest ==
  /\ Sane(problem, chi) /\ problem.ub < COLORNWT_MAX
  /\ \A w \in Workers : worker[w] = "busy" => Carries(job[w], chi)

(* When a worker was sent home nothing is given out or waits in the heap.  *)
Left ==
  (\E w \in Workers : worker[w] = "exited") =>
    pc # "serving" /\ joblist = {} /\ problem.heap = {}

(* As long as results arrive whole nothing is left to collect, the bounds  *)
(* are worth what they say, and the copies of the workers fit.             *)
Valued ==
  /\ lost = {} /\ Sound(problem, None, chi, problem.ub)
  /\ \A w \in Workers : worker[w] = "busy" => Fits(job[w], problem)

(* The inductive invariant of the search.                                  *)
Solving == BossInv /\ Modest /\ Left /\ (~cut => Valued)

(* What a step does to the instance and to the best colouring known.       *)
Improving == chi' = chi /\ problem'.ub \in Nat /\ problem'.ub <= problem.ub

(* Everybody but w is left with the job he has. *)
LEMMA OthersWork ==
  ASSUME BossInv, NEW w, NEW state, state # "busy", Becomes(w, state)
  PROVE  /\ \A v \in Workers : worker'[v] = "busy" => worker[v] = "busy" /\ job'[v] = job[v]
         /\ \A v \in Workers : worker'[v] = "exited" => state = "exited" \/ worker[v] = "exited"
<1>1. /\ worker' = [worker EXCEPT ![w] = state]
      /\ job' = [v \in DOMAIN job \ {w} |-> job[v]]
      /\ DOMAIN worker = Workers
      /\ \A v \in Workers : worker[v] = "busy" => v \in DOMAIN job
  BY DEF Becomes, BossInv
<1>2. ASSUME NEW v \in Workers, worker'[v] = "busy"
      PROVE  worker[v] = "busy" /\ job'[v] = job[v]
  <2>1. v # w /\ worker[v] = "busy"
    BY <1>1, <1>2
  <2>. QED  BY <1>1, <2>1
<1>. QED  BY <1>1, <1>2

(* Nodes may go, if the graphs of the others stay. *)
LEMMA SaneStays ==
  ASSUME NEW p, NEW q, Graphs(p, q), NEW c, Sane(p, c)
  PROVE  Sane(q, c)
BY DEF Graphs, Sane

(* What keeps all nodes keeps their graphs. *)
LEMMA KeptGraphs ==
  ASSUME NEW p, NEW q, KeptAll(p, q)
  PROVE  Graphs(p, q)
BY DEF KeptAll, Kept, SamePlace, Graphs

(* New nodes may come, if they are as good. *)
LEMMA GrowsSane ==
  ASSUME NEW p, Tree(p), NEW c, Sane(p, c), NEW i \in Open(p),
         NEW part, NEW q, Reported(p, i, part, q),
         part.nodes[i].opt \in Nat, c <= part.nodes[i].opt,
         i = Root => part.nodes[i].opt = c,
         \A k \in p.next .. part.next - 1 : part.nodes[k].opt \in Nat /\ c <= part.nodes[k].opt
  PROVE  Sane(q, c)
<1> DEFINE ids == p.next .. part.next - 1
<1>1. /\ DOMAIN q.nodes = DOMAIN p.nodes \cup ids /\ q.ub = p.ub
      /\ \A n \in DOMAIN p.nodes : n # i => q.nodes[n] = p.nodes[n]
      /\ \A n \in ids : q.nodes[n] = part.nodes[n]
      /\ q.nodes[i].parent = p.nodes[i].parent /\ q.nodes[i].opt = part.nodes[i].opt
  BY DEF Reported
<1>. HIDE DEF ids
<1>2. \A n \in DOMAIN q.nodes : q.nodes[n].opt \in Nat /\ c <= q.nodes[n].opt
  BY <1>1 DEF Sane, ids
<1>. QED  BY <1>1, <1>2 DEF Sane

(* The results of a worker are. *)
LEMMA ResultsCarry ==
  ASSUME NEW j, IsJob(j), NEW c \in Nat, Carries(j, c), NEW i \in Nat, j.id = i,
         NEW next \in Nat, problem.next = next, i < next,
         NEW result \in Results(j)
  PROVE  /\ result.nodes[i].opt = j.cd.opt
         /\ result.nodes[i].ub \in Nat /\ c <= result.nodes[i].ub
         /\ \A k \in next .. result.next - 1 :
              result.nodes[k].opt \in Nat /\ c <= result.nodes[k].opt
<1>1. Earned(result, i, next, j.cd)
  BY ResultsEarn DEF Carries
<1>2. /\ j.cd.opt \in Nat /\ c <= j.cd.opt /\ j.cd.ub \in Nat /\ c <= j.cd.ub
  BY DEF Carries
<1>3. result.nodes[i].ub \in {j.cd.ub, j.cd.opt}
  BY <1>1 DEF Earned
<1>4. \A k \in next .. result.next - 1 :
        result.nodes[k].opt \in Nat /\ j.cd.opt <= result.nodes[k].opt
  BY <1>1 DEF Earned
<1>5. result.nodes[i].opt = j.cd.opt
  BY <1>1 DEF Earned
<1>. QED  BY <1>2, <1>3, <1>4, <1>5

(* A step that keeps the graphs as they are worth, if the bound improves.  *)
LEMMA StepIsModest ==
  ASSUME Modest, Sane(problem', chi), problem'.ub <= problem.ub,
         \A w \in Workers : worker'[w] = "busy" =>
           (worker[w] = "busy" /\ job'[w] = job[w]) \/ Carries(job'[w], chi)
  PROVE  Modest' /\ Improving
<1>1. chi' = chi
  BY DEF Sane, chi, root
<1>2. problem'.ub \in Nat /\ problem.ub \in Nat /\ problem.ub < COLORNWT_MAX
  BY DEF Sane, Modest
<1>3. problem'.ub < COLORNWT_MAX
  BY <1>2 DEF COLORNWT_MAX
<1>4. \A w \in Workers : worker'[w] = "busy" => Carries(job'[w], chi)
  BY DEF Modest
<1>5. Sane(problem', chi')
  BY <1>1
<1>6. Modest'
  BY <1>1, <1>3, <1>4, <1>5 DEF Modest
<1>. QED  BY <1>1, <1>2, <1>6 DEF Improving

(* A step that leaves the tree alone. *)
LEMMA OthersAreModest ==
  ASSUME Modest, problem' = problem,
         \A v \in Workers : worker'[v] = "busy" => worker[v] = "busy" /\ job'[v] = job[v]
  PROVE  Modest' /\ Improving
<1>1. Sane(problem', chi) /\ problem'.ub <= problem.ub
  BY DEF Modest, Sane
<1>. QED  BY <1>1, StepIsModest

(* The boss forgets the backups of a tree that may have become smaller. *)
LEMMA ForgottenIsSane ==
  ASSUME NEW p, NEW q, IsProblem(q), Graphs(p, q), NEW c, Sane(p, c)
  PROVE  Sane(Forgetting(q), c) /\ Forgetting(q).ub <= p.ub
<1>1. Sane(q, c) /\ q.ub = p.ub
  BY SaneStays DEF Graphs
<1>2. Forgetting(q).nodes = q.nodes /\ Forgetting(q).ub = q.ub
  BY ForgettingIsSound
<1>. QED  BY <1>1, <1>2 DEF Sane

(* A node is sent to a worker. *)
LEMMA SendIsModest ==
  ASSUME BossInv, Modest, NEW w \in Workers, SendJob(w)
  PROVE  Modest' /\ Improving
<1> DEFINE out == joblist \cup lost
           answer(v, i, q) == IF v = w THEN [id |-> i, cd |-> q.nodes[i]] ELSE job[v]
           jobs(i, q) == [v \in DOMAIN job \cup {w} |-> answer(v, i, q)]
<1>1. PICK p \in Pruned(problem) : \E i \in COLORNWTheap_min(p) :
        /\ problem' = Forgetting(Submitted(p, i))
        /\ job' = jobs(i, Submitted(p, i))
  BY DEF SendJob
<1>2. PICK i \in COLORNWTheap_min(p) :
        /\ problem' = Forgetting(Submitted(p, i))
        /\ job' = jobs(i, Submitted(p, i))
  BY <1>1
<1>3. i \in p.heap
  BY DEF COLORNWTheap_min, Deepest, Lowest
<1> DEFINE q == Submitted(p, i)
<1>4. problem' = Forgetting(q) /\ job' = jobs(i, q)
  BY <1>2
<1>5. worker' = [worker EXCEPT ![w] = "busy"]
  BY DEF SendJob
<1>6. /\ Accounts(problem, out) /\ DOMAIN worker = Workers
      /\ \A v \in Workers : worker[v] = "busy" => v \in DOMAIN job
      /\ Sane(problem, chi)
  BY DEF Modest, BossInv
<1>. HIDE DEF q, out
<1>7. Accounts(p, out) /\ Graphs(problem, p)
  BY <1>6, PrunedAccounts
<1>8. Accounts(q, out \cup {i}) /\ Graphs(p, q)
  BY <1>3, <1>7, SubmittedAccounts DEF q
<1>9. Graphs(problem, q) /\ IsProblem(q)
  BY <1>7, <1>8, GraphsTwice DEF Accounts, Tree
<1>10. Sane(problem', chi) /\ problem'.ub <= problem.ub
  BY <1>4, <1>6, <1>9, ForgottenIsSane
<1>11. Sane(q, chi) /\ i \in DOMAIN q.nodes /\ q.nodes[i].ub = q.ub
  <2>1. i \in DOMAIN p.nodes /\ IsProblem(p)
    BY <1>3, <1>7 DEF Accounts, Open, Tree
  <2> DEFINE d == p.nodes[i]
  <2>2. Rewritten(p, i, q, d.lb, p.ub, d.best, submitted_for_branching)
    BY <2>1, SubmittedRewrites DEF q
  <2>. QED  BY <1>6, <1>9, <2>1, <2>2, SaneStays DEF Rewritten, Writes
<1>12. ASSUME NEW v \in Workers, worker'[v] = "busy"
       PROVE  (worker[v] = "busy" /\ job'[v] = job[v]) \/ Carries(job'[v], chi)
  <2>1. v \in DOMAIN job' /\ job'[v] = answer(v, i, q)
    <3>1. v = w \/ v \in DOMAIN job
      BY <1>5, <1>6, <1>12
    <3>. HIDE DEF answer
    <3>. QED  BY <1>4, <3>1
  <2>2. CASE v = w
    <3>1. job'[v].id = i /\ job'[v].cd = q.nodes[i]
      BY <2>1, <2>2
    <3>. QED  BY <1>11, <3>1 DEF Sane, Carries
  <2>3. CASE v # w
    <3>1. job'[v] = job[v] /\ worker[v] = "busy"
      BY <1>5, <1>6, <1>12, <2>1, <2>3
    <3>. QED  BY <3>1
  <2>. QED  BY <2>2, <2>3
<1>. QED  BY <1>10, <1>12, StepIsModest

(* A result is received: its upper bound, too, is that of a colouring.     *)
LEMMA ReceivedIsSane ==
  ASSUME NEW p, NEW out, Accounts(p, out), NEW i \in out, NEW c, Sane(p, c),
         NEW result, IsResult(result, i, p.next),
         result.nodes[i].opt \in Nat, c <= result.nodes[i].opt,
         i = Root => result.nodes[i].opt = c,
         result.nodes[i].ub \in Nat, c <= result.nodes[i].ub,
         \A k \in p.next .. result.next - 1 :
           result.nodes[k].opt \in Nat /\ c <= result.nodes[k].opt
  PROVE  LET w == Received(receive_colordata(p, i, result), i)
         IN  /\ Accounts(w, out \ {i})
             /\ Sane(Forgetting(w), c) /\ Forgetting(w).ub <= p.ub
<1> DEFINE q == receive_colordata(p, i, result)
           kids == InOrder(q.nodes[i])
           t == InsertAll(q, kids)
           x == t.nodes[i].ub
           v == adapt_global_upper_bound(t, x)
           w == Received(q, i)
           ids == p.next .. result.next - 1
<1>1. Accounts(w, out \ {i}) /\ Graphs(v, w)
  BY ReceiveAccounts
<1>2. Tree(p) /\ i \in Open(p) /\ i \in DOMAIN p.nodes
  BY DEF Accounts, Open
<1>3. Tree(q) /\ Reported(p, i, result, q) /\ Grown(p, i, result, q)
  BY <1>2, ReceiveGrows, ReceiveReports
<1>. HIDE DEF q, w
<1>4. Sane(q, c)
  BY <1>2, <1>3, GrowsSane
<1>5. q.ub = p.ub /\ q.nodes[i].ub = result.nodes[i].ub /\ q.next = result.next
      /\ ids \subseteq DOMAIN q.nodes /\ Kids(q.nodes[i]) = ids /\ i \in DOMAIN q.nodes
  BY <1>3 DEF Reported, Grown
<1>6. Lists(kids, ids)
  <2>1. q.nodes[i].same \cap q.nodes[i].diff = {}
    BY <1>3, <1>5 DEF Tree, InPlace
  <2>2. ids \subseteq 0 .. q.next - 1 /\ q.next \in Nat
    BY <1>3, <1>5 DEF Tree
  <2>. HIDE DEF ids
  <2>. QED  BY <1>5, <2>1, <2>2, InOrderLists
<1>. HIDE DEF kids, ids
<1>7. IsProblem(t) /\ KeptAll(q, t)
  <2>1. Len(kids) \in Nat /\ \A k \in 1 .. Len(kids) : kids[k] \in DOMAIN q.nodes
    BY <1>5, <1>6 DEF Lists
  <2>2. IsProblem(q) /\ \A n \in DOMAIN q.nodes : q.nodes[n].depth \in Nat
    BY <1>3 DEF Tree, InPlace
  <2>. QED  BY <2>1, <2>2, InsertAllKept
<1>. HIDE DEF t
<1>9. Sane(t, c) /\ t.ub = p.ub /\ x \in Nat /\ c <= x
  <2>1. Graphs(q, t) /\ t.ub = q.ub /\ t.nodes[i].ub = q.nodes[i].ub
    BY <1>5, <1>7, KeptGraphs DEF KeptAll, Kept
  <2>. QED  BY <1>4, <1>5, <2>1, SaneStays
<1>10. v.nodes = t.nodes /\ v.ub = IF t.ub <= x THEN t.ub ELSE x
  <2>. HIDE DEF x
  <2>. QED  BY <1>7, AdaptKeeps
<1>. HIDE DEF v, x
<1>11. Sane(v, c) /\ v.ub <= p.ub
  BY <1>9, <1>10 DEF Sane
<1>12. IsProblem(w)
  BY <1>1 DEF Accounts, Tree
<1>13. Sane(Forgetting(w), c) /\ Forgetting(w).ub <= v.ub
  BY <1>1, <1>11, <1>12, ForgottenIsSane
<1>14. Forgetting(w).ub <= p.ub
  BY <1>11, <1>13, <1>9 DEF Sane
<1>. QED  BY <1>1, <1>13, <1>14 DEF q, w

(* A worker reports a node and its children. *)
LEMMA ReportIsModest ==
  ASSUME BossInv, Modest, NEW w \in Workers, Receive(w)
  PROVE  Modest' /\ Improving
<1> DEFINE out == joblist \cup lost
           j == job[w]
           i == j.id
           next == problem.next
<1>1. /\ worker[w] = "busy" /\ i \in joblist /\ Becomes(w, "idle")
      /\ Accounts(problem, out) /\ IsJob(j) /\ Sane(problem, chi) /\ Carries(j, chi)
  BY DEF Receive, Located, Reports, Modest, BossInv
<1>2. PICK result \in Results(j) :
        problem' = Forgetting(Received(receive_colordata(problem, i, result), i))
  BY DEF Receive
<1>. HIDE DEF j
<1>3. i \in out /\ i \in Nat /\ next \in Nat /\ i < next
  <2>1. i \in Open(problem) /\ Open(problem) \subseteq 0 .. problem.next - 1 /\ problem.next \in Nat
    BY <1>1 DEF Accounts, Open, Tree
  <2>. QED  BY <1>1, <2>1
<1>4. chi \in Nat /\ (i = Root => j.cd.opt = chi) /\ j.cd.opt \in Nat /\ chi <= j.cd.opt
  BY <1>1 DEF Sane, Carries
<1>. HIDE DEF i, next, out
<1>5. /\ IsResult(result, i, next)
      /\ result.nodes[i].opt = j.cd.opt
      /\ result.nodes[i].ub \in Nat /\ chi <= result.nodes[i].ub
      /\ \A k \in next .. result.next - 1 :
           result.nodes[k].opt \in Nat /\ chi <= result.nodes[k].opt
  <2>1. j.id = i /\ problem.next = next
    BY DEF i, next
  <2>. QED  BY <1>1, <1>3, <1>4, <2>1, ResultsAre, ResultsCarry
<1>6. Sane(problem', chi) /\ problem'.ub <= problem.ub
  <2>1. next = problem.next
    BY DEF next
  <2>. QED  BY <1>1, <1>2, <1>3, <1>4, <1>5, <2>1, ReceivedIsSane
<1>. QED  BY <1>1, <1>6, OthersWork, StepIsModest

(* A result breaks off: what has arrived has the graphs it has. *)
LEMMA FailureIsModest ==
  ASSUME BossInv, Modest, NEW w \in Workers, ReceiveFails(w)
  PROVE  Modest' /\ Improving
<1> DEFINE j == job[w]
           i == j.id
           p == problem
           next == p.next
           old == p.nodes[i]
<1>1. /\ worker[w] = "busy" /\ i \in joblist /\ Becomes(w, "dead")
      /\ Accounts(p, joblist \cup lost) /\ IsJob(j) /\ Sane(p, chi) /\ Carries(j, chi)
  BY DEF ReceiveFails, Located, Reports, Modest, BossInv
<1>2. PICK result \in Results(j) : \E part \in Arrived(old, result, i, next) :
        problem' = receive_colordata(p, i, part)
  BY DEF ReceiveFails
<1>3. PICK part \in Arrived(old, result, i, next) : problem' = receive_colordata(p, i, part)
  BY <1>2
<1>. HIDE DEF j
<1>4. /\ Tree(p) /\ i \in Open(p) /\ i \in DOMAIN p.nodes
      /\ i \in Nat /\ next \in Nat /\ i < next
  <2>1. i \in Open(p) /\ Open(p) \subseteq 0 .. next - 1 /\ next \in Nat /\ Tree(p)
    BY <1>1 DEF Accounts, Open, Tree
  <2>. QED  BY <2>1 DEF Open
<1>5. /\ IsColordata(old) /\ old.depth \in Nat /\ old.same = {} /\ old.diff = {}
      /\ old.status \in Int
  BY <1>4 DEF Open, Tree, IsProblem, InPlace, Kids
<1>6. /\ old.opt \in Nat /\ chi <= old.opt /\ (i = Root => old.opt = chi)
      /\ j.cd.opt \in Nat /\ chi <= j.cd.opt /\ (i = Root => j.cd.opt = chi) /\ chi \in Nat
  BY <1>1, <1>4 DEF Sane, Carries
<1>. HIDE DEF i, next, old, p
<1>7. /\ IsResult(result, i, next)
      /\ result.nodes[i].opt = j.cd.opt
      /\ \A k \in next .. result.next - 1 :
           result.nodes[k].opt \in Nat /\ chi <= result.nodes[k].opt
  <2>1. j.id = i /\ problem.next = next
    BY DEF i, next, p
  <2>. QED  BY <1>1, <1>4, <1>6, <2>1, ResultsAre, ResultsCarry
<1>8. IsResult(part, i, next)
  BY <1>3, <1>4, <1>5, <1>7, ArrivedIsResult
<1>9. /\ part.nodes[i].opt \in Nat /\ chi <= part.nodes[i].opt
      /\ i = Root => part.nodes[i].opt = chi
      /\ \A k \in next .. part.next - 1 : part.nodes[k].opt \in Nat /\ chi <= part.nodes[k].opt
  <2>1. /\ part.nodes[i].opt \in {old.opt, result.nodes[i].opt}
        /\ \A k \in next .. part.next - 1 : /\ k \in next .. result.next - 1
                                            /\ part.nodes[k].opt = result.nodes[k].opt
    BY <1>3, <1>4, <1>5, <1>7, ArrivedGraphs
  <2>. QED  BY <1>6, <1>7, <2>1
<1>10. Reported(p, i, part, problem')
  BY <1>3, <1>4, <1>8, ReceiveReports DEF next
<1>11. Sane(problem', chi) /\ problem'.ub <= problem.ub
  <2>1. Sane(problem', chi)
    BY <1>1, <1>4, <1>9, <1>10, GrowsSane DEF next
  <2>2. problem'.ub = problem.ub /\ problem.ub \in Nat
    BY <1>1, <1>10 DEF Reported, Sane, p
  <2>. QED  BY <2>1, <2>2
<1>. QED  BY <1>1, <1>11, OthersWork, StepIsModest

(* A job is taken back. *)
LEMMA RemoveJobIsModest ==
  ASSUME BossInv, Modest, NEW i \in joblist, RemoveJob(i)
  PROVE  Modest' /\ Improving
<1> DEFINE out == joblist \cup lost
           q == insert_into_branching_heap(problem, i)
<1>1. problem' = Forgetting(q) /\ worker' = worker /\ job' = job
  BY DEF RemoveJob
<1>. HIDE DEF q
<1>2. Accounts(problem, out) /\ i \in out /\ Sane(problem, chi)
  BY DEF BossInv, Modest
<1>. HIDE DEF out
<1>3. Accounts(q, out \ {i}) /\ Keeps(problem, q, {i})
  BY <1>2, InsertAccounts DEF q
<1>4. Graphs(problem, q) /\ IsProblem(q)
  <2>1. Tree(problem) /\ i \in DOMAIN problem.nodes
    BY <1>2 DEF Accounts, Open
  <2>. QED  BY <1>3, <2>1, CollectsGraphs DEF Accounts, Tree
<1>5. Sane(problem', chi) /\ problem'.ub <= problem.ub
  BY <1>1, <1>2, <1>4, ForgottenIsSane
<1>. QED  BY <1>1, <1>5, StepIsModest

(* The boss has nothing to send. *)
LEMMA NothingToSendIsModest ==
  ASSUME BossInv, Modest, NEW w \in Workers, NothingToSend(w), job' = job,
         \A v \in Workers : worker'[v] = "busy" => worker[v] = "busy"
  PROVE  Modest' /\ Improving
<1> DEFINE out == joblist \cup lost
<1>1. PICK p \in Pruned(problem) : problem' = Forgetting(p)
  BY DEF NothingToSend
<1>2. Accounts(problem, out) /\ Sane(problem, chi)
  BY DEF BossInv, Modest
<1>. HIDE DEF out
<1>3. Graphs(problem, p) /\ IsProblem(p)
  BY <1>2, PrunedAccounts DEF Accounts, Tree
<1>4. Sane(problem', chi) /\ problem'.ub <= problem.ub
  BY <1>1, <1>2, <1>3, ForgottenIsSane
<1>. QED  BY <1>4, StepIsModest

(* Whatever happens to results and workers, the boss knows of no colouring *)
(* that is too good.                                                       *)
LEMMA NextIsModest == BossInv /\ Modest /\ [Next]_vars => Modest' /\ Improving
<1>. SUFFICES ASSUME BossInv, Modest, [Next]_vars PROVE Modest' /\ Improving
  OBVIOUS
<1>0. DOMAIN worker = Workers
  BY DEF BossInv
<1>1. ASSUME NEW w \in Workers, SendJob(w) PROVE Modest' /\ Improving
  BY <1>1, SendIsModest
<1>2. ASSUME NEW w \in Workers, SendFails(w) PROVE Modest' /\ Improving
  <2>1. problem' = problem /\ job' = job /\ worker' = [worker EXCEPT ![w] = "dead"]
    BY <1>2 DEF SendFails
  <2>2. \A v \in Workers : worker'[v] = "busy" => worker[v] = "busy" /\ job'[v] = job[v]
    BY <1>0, <2>1
  <2>. QED  BY <2>1, <2>2, OthersAreModest
<1>3. ASSUME NEW w \in Workers, AnswerNo(w) PROVE Modest' /\ Improving
  <2>1. NothingToSend(w) /\ job' = job /\ worker' = worker
    BY <1>3 DEF AnswerNo
  <2>. QED  BY <2>1, NothingToSendIsModest
<1>4. ASSUME NEW w \in Workers, AnswerExit(w) PROVE Modest' /\ Improving
  <2>1. NothingToSend(w) /\ job' = job /\ worker' = [worker EXCEPT ![w] = "exited"]
    BY <1>4 DEF AnswerExit
  <2>2. \A v \in Workers : worker'[v] = "busy" => worker[v] = "busy"
    BY <1>0, <2>1
  <2>. QED  BY <2>1, <2>2, NothingToSendIsModest
<1>5. ASSUME NEW w \in Workers, Receive(w) PROVE Modest' /\ Improving
  BY <1>5, ReportIsModest
<1>6. ASSUME NEW w \in Workers, ReceiveFails(w) PROVE Modest' /\ Improving
  BY <1>6, FailureIsModest
<1>7. ASSUME NEW w \in Workers, ReceiveUnknown(w) PROVE Modest' /\ Improving
  <2>1. problem' = problem /\ Becomes(w, "dead")
    BY <1>7 DEF ReceiveUnknown
  <2>. QED  BY <2>1, OthersWork, OthersAreModest
<1>8. ASSUME NEW w \in Workers, WorkerDies(w) PROVE Modest' /\ Improving
  <2>1. problem' = problem /\ Becomes(w, "dead")
    BY <1>8 DEF WorkerDies
  <2>. QED  BY <2>1, OthersWork, OthersAreModest
<1>9. ASSUME NEW i \in joblist, RemoveJob(i) PROVE Modest' /\ Improving
  BY <1>9, RemoveJobIsModest
<1>10. CASE BadConnection
  <2>1. problem' = problem /\ worker' = worker /\ job' = job
    BY <1>10 DEF BadConnection
  <2>. QED  BY <2>1, OthersAreModest
<1>11. CASE UNCHANGED vars
  <2>1. problem' = problem /\ worker' = worker /\ job' = job
    BY <1>11 DEF vars
  <2>. QED  BY <2>1, OthersAreModest
<1>. QED  BY <1>1, <1>2, <1>3, <1>4, <1>5, <1>6, <1>7, <1>8, <1>9, <1>10, <1>11 DEF Next

(* The boss sends a worker home when nothing is left to be given out.      *)
LEMMA NextLeaves == BossInv /\ Left /\ [Next]_vars => Left'
<1>. SUFFICES ASSUME BossInv, Left, [Next]_vars PROVE Left'
  OBVIOUS
<1>0. DOMAIN worker = Workers
  BY DEF BossInv
<1>1. ASSUME NEW w \in Workers, AnswerExit(w) PROVE Left'
  <2> DEFINE out == joblist \cup lost
  <2>1. PICK p \in Pruned(problem) : p.heap = {} /\ problem' = Forgetting(p)
    BY <1>1 DEF AnswerExit, NothingToSend
  <2>2. Accounts(problem, out) /\ IsFiniteSet(joblist) /\ npending = Cardinality(joblist)
    BY DEF BossInv
  <2>. HIDE DEF out
  <2>3. IsProblem(p)
    BY <2>2, PrunedAccounts DEF Accounts, Tree
  <2>4. problem'.heap = {}
    BY <2>1, <2>3, ForgettingIsSound
  <2>5. pc' = "done" /\ joblist' = joblist /\ npending = 0
    BY <1>1 DEF AnswerExit
  <2>6. joblist' = {}
    BY <2>2, <2>5, FS_EmptySet
  <2>. QED  BY <2>4, <2>5, <2>6 DEF Left
<1>2. CASE UNCHANGED vars
  BY <1>2 DEF vars, Left
<1>3. ASSUME pc = "serving", \A v \in Workers : worker'[v] = "exited" => worker[v] = "exited"
      PROVE  Left'
  BY <1>3 DEF Left
<1>4. ASSUME NEW w, NEW state, state # "busy", state # "exited", Becomes(w, state), pc = "serving"
      PROVE  Left'
  BY <1>3, <1>4, OthersWork
<1>5. ASSUME NEW w \in Workers,
             SendJob(w) \/ SendFails(w) \/ AnswerNo(w) \/ Receive(w) \/ ReceiveFails(w)
               \/ ReceiveUnknown(w) \/ WorkerDies(w)
      PROVE  Left'
  <2>1. CASE SendJob(w)
    BY <1>0, <1>3, <2>1 DEF SendJob, Asks
  <2>2. CASE SendFails(w)
    BY <1>0, <1>3, <2>2 DEF SendFails, Asks
  <2>3. CASE AnswerNo(w)
    BY <1>3, <2>3 DEF AnswerNo, NothingToSend, Asks
  <2>4. CASE Receive(w)
    BY <1>4, <2>4 DEF Receive, Located, Reports
  <2>5. CASE ReceiveFails(w)
    BY <1>4, <2>5 DEF ReceiveFails, Located, Reports
  <2>6. CASE ReceiveUnknown(w)
    BY <1>4, <2>6 DEF ReceiveUnknown, Reports
  <2>7. CASE WorkerDies(w)
    BY <1>4, <2>7 DEF WorkerDies, Reports
  <2>. QED  BY <1>5, <2>1, <2>2, <2>3, <2>4, <2>5, <2>6, <2>7
<1>6. ASSUME NEW i \in joblist, RemoveJob(i) PROVE Left'
  BY <1>3, <1>6 DEF RemoveJob
<1>7. CASE BadConnection
  BY <1>3, <1>7 DEF BadConnection
<1>. QED  BY <1>1, <1>2, <1>5, <1>6, <1>7 DEF Next

(* A step that keeps the tree sound, if the copies of the workers fit. *)
LEMMA StepIsSound ==
  ASSUME BossInv, Valued, BossInv', lost' = lost,
         Sound(problem', None, chi, problem'.ub), KeptOld(problem, problem'),
         \A w \in Workers : worker'[w] = "busy" =>
           (worker[w] = "busy" /\ job'[w] = job[w]) \/ Fits(job'[w], problem')
  PROVE  Valued'
<1>1. /\ problem.ub \in Nat /\ problem'.ub \in Nat
      /\ problem.next \in Nat /\ problem'.next \in Nat
  BY DEF Valued, Sound, BossInv, Accounts, Tree
<1>2. chi' = chi
  BY DEF Sound, chi, root
<1>3. ASSUME NEW w \in Workers, worker'[w] = "busy" PROVE Fits(job'[w], problem')
  <2>1. CASE worker[w] = "busy" /\ job'[w] = job[w]
    <3>1. Fits(job[w], problem)
      BY <2>1 DEF Valued
    <3>. QED  BY <1>1, <2>1, <3>1, FitsStays
  <2>. QED  BY <1>3, <2>1
<1>4. Sound(problem', None, chi', problem'.ub)
  BY <1>2
<1>. QED  BY <1>3, <1>4 DEF Valued

(* The boss forgets the backups of a tree that is sound. *)
LEMMA ForgottenIsOld ==
  ASSUME NEW p, NEW q, IsProblem(q), p.next \in Nat, p.ub \in Nat, KeptOld(p, q), NEW c,
         Sound(q, None, c, q.ub)
  PROVE  LET r == Forgetting(q)
         IN  Sound(r, None, c, r.ub) /\ KeptOld(p, r) /\ r.heap = q.heap
<1> DEFINE r == Forgetting(q)
<1>1. r.nodes = q.nodes /\ r.ub = q.ub /\ r.next = q.next /\ r.heap = q.heap
  BY ForgettingIsSound
<1>2. Sound(r, None, c, q.ub)
  BY ForgettingIsSound
<1>. HIDE DEF r
<1>3. KeptOld(p, r)
  BY <1>1 DEF KeptOld, Open
<1>. QED  BY <1>1, <1>2, <1>3 DEF r

(* What is sent fits. *)
LEMMA SentFits ==
  ASSUME NEW q, Tree(q), NEW c, Sound(q, None, c, q.ub), NEW i \in DOMAIN q.nodes,
         q.nodes[i].ub = q.ub, NEW j, j.id = i, j.cd = q.nodes[i]
  PROVE  Fits(j, q)
<1>1. i \in Nat /\ i < q.next
  BY DEF Tree
<1>2. Worth(q.nodes[i], c, q.ub) /\ q.ub \in Nat
  BY DEF Sound
<1>. QED  BY <1>1, <1>2 DEF Fits, Worth

(* A node is sent to a worker. *)
LEMMA SendIsSound ==
  ASSUME BossInv, Valued, NEW w \in Workers, SendJob(w)
  PROVE  Valued'
<1> DEFINE out == joblist \cup lost
           answer(v, i, q) == IF v = w THEN [id |-> i, cd |-> q.nodes[i]] ELSE job[v]
           jobs(i, q) == [v \in DOMAIN job \cup {w} |-> answer(v, i, q)]
<1>1. PICK p \in Pruned(problem) : \E i \in COLORNWTheap_min(p) :
        /\ p.nodes[i].lb < p.ub
        /\ problem' = Forgetting(Submitted(p, i))
        /\ job' = jobs(i, Submitted(p, i))
  BY DEF SendJob
<1>2. PICK i \in COLORNWTheap_min(p) :
        /\ p.nodes[i].lb < p.ub
        /\ problem' = Forgetting(Submitted(p, i))
        /\ job' = jobs(i, Submitted(p, i))
  BY <1>1
<1>3. i \in p.heap
  BY DEF COLORNWTheap_min, Deepest, Lowest
<1> DEFINE q == Submitted(p, i)
           r == Forgetting(q)
<1>4. problem' = r /\ job' = jobs(i, q) /\ p.nodes[i].lb < p.ub
  BY <1>2
<1>5. worker' = [worker EXCEPT ![w] = "busy"] /\ lost' = lost
  BY DEF SendJob
<1>6. /\ Accounts(problem, out) /\ DOMAIN worker = Workers
      /\ \A v \in Workers : worker[v] = "busy" => v \in DOMAIN job
      /\ Sound(problem, None, chi, problem.ub)
  BY DEF Valued, BossInv
<1>7. BossInv'
  BY SendAccounts
<1>. HIDE DEF q, r, out
<1>8. Accounts(p, out) /\ Sound(p, None, chi, problem.ub) /\ Kept(problem, p)
  BY <1>6, PrunedAccounts, PrunedIsSound
<1>9. p.ub = problem.ub /\ problem.ub \in Nat /\ problem.next \in Nat
  BY <1>6, <1>8 DEF Kept, Sound, Accounts, Tree
<1>10. /\ Tree(p) /\ i \in DOMAIN p.nodes /\ Kids(p.nodes[i]) = {} /\ p.nodes[i].status < finished
  BY <1>3, <1>8 DEF Accounts, Open
<1>11. /\ Sound(q, None, chi, p.ub) /\ Kept(p, q)
       /\ LET d == p.nodes[i]
          IN  Rewritten(p, i, q, d.lb, p.ub, d.best, submitted_for_branching)
  BY <1>4, <1>8, <1>9, <1>10, SubmittedIsSound DEF q
<1>12. Tree(q)
  BY <1>3, <1>8, SubmittedAccounts DEF Accounts, q
<1>13. Kept(problem, q) /\ q.ub = p.ub /\ q.next = problem.next
  BY <1>8, <1>9, <1>11, KeptTwice DEF Kept
<1>14. KeptOld(problem, q) /\ Sound(q, None, chi, q.ub)
  BY <1>9, <1>11, <1>13, KeptIsOld
<1>15. Sound(r, None, chi, r.ub) /\ KeptOld(problem, r)
  BY <1>9, <1>12, <1>14, ForgottenIsOld DEF Tree, r
<1>16. ASSUME NEW v \in Workers, worker'[v] = "busy"
       PROVE  (worker[v] = "busy" /\ job'[v] = job[v]) \/ Fits(job'[v], r)
  <2>1. v \in DOMAIN job' /\ job'[v] = answer(v, i, q)
    <3>1. v = w \/ v \in DOMAIN job
      BY <1>5, <1>6, <1>16
    <3>. HIDE DEF answer
    <3>. QED  BY <1>4, <3>1
  <2>2. CASE v = w
    <3>1. job'[v].id = i /\ job'[v].cd = q.nodes[i]
      BY <2>1, <2>2
    <3>2. i \in DOMAIN q.nodes /\ q.nodes[i].ub = q.ub
      BY <1>10, <1>11, <1>13 DEF Rewritten, Writes
    <3>3. Fits(job'[v], q)
      BY <1>12, <1>14, <3>1, <3>2, SentFits
    <3>4. KeptOld(q, r) /\ q.next \in Nat /\ r.next \in Nat /\ q.ub \in Nat /\ r.ub \in Nat
      <4>1. IsProblem(q) /\ q.next \in Nat /\ q.ub \in Nat
        BY <1>9, <1>12, <1>13 DEF Tree
      <4>2. KeptAll(q, r) /\ r.ub = q.ub /\ r.next = q.next
        BY <4>1, ForgettingIsSound DEF r
      <4>. QED  BY <4>1, <4>2, KeptIsOld DEF KeptAll
    <3>. QED  BY <3>3, <3>4, FitsStays
  <2>3. CASE v # w
    <3>1. job'[v] = job[v] /\ worker[v] = "busy"
      BY <1>5, <1>6, <1>16, <2>1, <2>3
    <3>. QED  BY <3>1
  <2>. QED  BY <2>2, <2>3
<1>. QED  BY <1>4, <1>5, <1>7, <1>15, <1>16, StepIsSound

(* A worker reports a node and its children. *)
LEMMA ReportKeepsValues ==
  ASSUME BossInv, Valued, NEW w \in Workers, Receive(w)
  PROVE  Valued'
<1> DEFINE out == joblist \cup lost
           j == job[w]
           i == j.id
           next == problem.next
<1>1. /\ worker[w] = "busy" /\ i \in joblist /\ Becomes(w, "idle") /\ lost' = lost
      /\ Sound(problem, None, chi, problem.ub) /\ Fits(j, problem)
  BY DEF Receive, Located, Reports, Valued
<1>2. PICK result \in Results(j) :
        problem' = Forgetting(Received(receive_colordata(problem, i, result), i))
  BY DEF Receive
<1> DEFINE q == receive_colordata(problem, i, result)
           r == Received(q, i)
<1>3. problem' = Forgetting(r)
  BY <1>2
<1>4. Accounts(problem, out) /\ IsJob(j) /\ BossInv'
  BY <1>1, ReceiveKeeps DEF BossInv
<1>. HIDE DEF j, q, r
<1>5. /\ i \in Open(problem) /\ Tree(problem) /\ problem.next \in Nat /\ i \in Nat
      /\ i < problem.next /\ problem.ub \in Nat
  <2>1. i \in Open(problem) /\ Open(problem) \subseteq 0 .. problem.next - 1
        /\ problem.next \in Nat /\ Tree(problem) /\ problem.ub \in Nat
    BY <1>1, <1>4 DEF Accounts, Open, Tree, Sound
  <2>. QED  BY <2>1
<1>6. j.cd.opt \in Nat /\ j.cd.ub \in Nat
  BY <1>1 DEF Fits
<1>. HIDE DEF i, next
<1>7. IsResult(result, i, next) /\ Earned(result, i, next, j.cd)
  <2>1. j.id = i /\ next \in Nat /\ i \in Nat /\ i < next /\ problem.next = next
    BY <1>5 DEF i, next
  <2>. QED  BY <1>4, <1>6, <2>1, ResultsAre, ResultsEarn
<1>8. Tree(r) /\ Sound(r, None, chi, r.ub) /\ KeptOld(problem, r)
  <2>1. j.id = i /\ next = problem.next
    BY DEF i, next
  <2>. QED  BY <1>1, <1>5, <1>7, <2>1, ReceiveIsSound DEF q, r
<1>9. Sound(problem', None, chi, problem'.ub) /\ KeptOld(problem, problem')
  BY <1>3, <1>5, <1>8, ForgottenIsOld DEF Tree
<1>10. \A v \in Workers : worker'[v] = "busy" => worker[v] = "busy" /\ job'[v] = job[v]
  BY <1>1, OthersWork
<1>. QED  BY <1>1, <1>4, <1>9, <1>10, StepIsSound

(* A job is taken back: its bounds had not met. *)
LEMMA RemoveJobIsSound ==
  ASSUME BossInv, Valued, NEW i \in joblist, RemoveJob(i)
  PROVE  Valued'
<1> DEFINE q == insert_into_branching_heap(problem, i)
<1>1. problem' = Forgetting(q) /\ worker' = worker /\ job' = job /\ lost' = lost
  BY DEF RemoveJob
<1>. HIDE DEF q
<1>2. /\ Accounts(problem, joblist \cup lost)
      /\ Sound(problem, None, chi, problem.ub)
      /\ problem.nodes[i].status = submitted_for_branching
  BY DEF Valued, BossInv
<1>3. BossInv'
  BY RemoveJobKeeps
<1>4. Tree(problem) /\ i \in Open(problem) /\ problem.next \in Nat /\ problem.ub \in Nat
  BY <1>2 DEF Accounts, Tree, Sound
<1>5. /\ i \in DOMAIN problem.nodes /\ Kids(problem.nodes[i]) = {}
      /\ problem.nodes[i].status < finished /\ None \notin DOMAIN problem.nodes
  BY <1>4 DEF Open, Tree, None
<1>6. problem.nodes[i].lb < problem.nodes[i].ub
  BY <1>2, <1>5 DEF Sound, Calm, Quiet, Restful
<1>7. Tree(q) /\ Sound(q, None, chi, problem.ub) /\ KeptAll(problem, q)
  BY <1>2, <1>4, <1>5, <1>6, InsertIsSound DEF q
<1>8. q.ub = problem.ub /\ KeptOld(problem, q)
  BY <1>4, <1>7, KeptIsOld DEF KeptAll, Kept
<1>9. Sound(problem', None, chi, problem'.ub) /\ KeptOld(problem, problem')
  BY <1>1, <1>4, <1>7, <1>8, ForgottenIsOld DEF Tree
<1>. QED  BY <1>1, <1>3, <1>9, StepIsSound

(* The boss has nothing to send. *)
LEMMA NothingToSendIsSound ==
  ASSUME BossInv, Valued, NEW w \in Workers, NothingToSend(w), BossInv',
         UNCHANGED <<job, lost>>,
         \A v \in Workers : worker'[v] = "busy" => worker[v] = "busy"
  PROVE  Valued'
<1> DEFINE out == joblist \cup lost
<1>1. PICK p \in Pruned(problem) : problem' = Forgetting(p)
  BY DEF NothingToSend
<1>2. Accounts(problem, out) /\ Sound(problem, None, chi, problem.ub)
  BY DEF Valued, BossInv
<1>. HIDE DEF out
<1>3. Accounts(p, out) /\ Sound(p, None, chi, problem.ub) /\ Kept(problem, p)
  BY <1>1, <1>2, PrunedAccounts, PrunedIsSound
<1>4. /\ p.ub = problem.ub /\ problem.ub \in Nat /\ problem.next \in Nat /\ IsProblem(p)
      /\ KeptOld(problem, p)
  BY <1>2, <1>3, KeptIsOld DEF Kept, Sound, Accounts, Tree
<1>5. Sound(problem', None, chi, problem'.ub) /\ KeptOld(problem, problem')
  BY <1>1, <1>3, <1>4, ForgottenIsOld
<1>. QED  BY <1>5, StepIsSound

(* A step that leaves the tree alone. *)
LEMMA OthersAreSound ==
  ASSUME BossInv, Valued, BossInv', problem' = problem, lost' = lost,
         \A v \in Workers : worker'[v] = "busy" => worker[v] = "busy" /\ job'[v] = job[v]
  PROVE  Valued'
<1>1. Sound(problem', None, chi, problem'.ub) /\ problem.ub \in Nat /\ problem.next \in Nat
  BY DEF Valued, Sound, BossInv, Accounts, Tree
<1>2. KeptOld(problem, problem')
  BY <1>1 DEF KeptOld, Open
<1>. QED  BY <1>1, <1>2, StepIsSound

(* Bounds are worth what they say until a result breaks off. *)
LEMMA NextValues ==
  ASSUME BossInv, ~cut => Valued, [Next]_vars, ~cut'
  PROVE  Valued'
<1>0. BossInv' /\ DOMAIN worker = Workers
  BY NextKeeps DEF BossInv
<1>1. ASSUME NEW w \in Workers, SendJob(w) PROVE Valued'
  <2>1. Valued
    BY <1>1 DEF SendJob
  <2>. QED  BY <1>1, <2>1, SendIsSound
<1>2. ASSUME NEW w \in Workers, SendFails(w) PROVE Valued'
  <2>1. Valued /\ problem' = problem /\ lost' = lost /\ job' = job
        /\ worker' = [worker EXCEPT ![w] = "dead"]
    BY <1>2 DEF SendFails
  <2>2. \A v \in Workers : worker'[v] = "busy" => worker[v] = "busy" /\ job'[v] = job[v]
    BY <1>0, <2>1
  <2>. QED  BY <1>0, <2>1, <2>2, OthersAreSound
<1>3. ASSUME NEW w \in Workers, AnswerNo(w) PROVE Valued'
  <2>1. Valued /\ NothingToSend(w) /\ UNCHANGED <<job, lost>> /\ worker' = worker
    BY <1>3 DEF AnswerNo
  <2>. QED  BY <1>0, <2>1, NothingToSendIsSound
<1>4. ASSUME NEW w \in Workers, AnswerExit(w) PROVE Valued'
  <2>1. Valued /\ NothingToSend(w) /\ UNCHANGED <<job, lost>>
        /\ worker' = [worker EXCEPT ![w] = "exited"]
    BY <1>4 DEF AnswerExit
  <2>2. \A v \in Workers : worker'[v] = "busy" => worker[v] = "busy"
    BY <1>0, <2>1
  <2>. QED  BY <1>0, <2>1, <2>2, NothingToSendIsSound
<1>5. ASSUME NEW w \in Workers, Receive(w) PROVE Valued'
  <2>1. Valued
    BY <1>5 DEF Receive
  <2>. QED  BY <1>5, <2>1, ReportKeepsValues
<1>6. ASSUME NEW w \in Workers, ReceiveFails(w) PROVE Valued'
  BY <1>6 DEF ReceiveFails
<1>7. ASSUME NEW w \in Workers, ReceiveUnknown(w) PROVE Valued'
  <2>1. Valued /\ problem' = problem /\ lost' = lost /\ Becomes(w, "dead")
    BY <1>7 DEF ReceiveUnknown
  <2>. QED  BY <1>0, <2>1, OthersWork, OthersAreSound
<1>8. ASSUME NEW w \in Workers, WorkerDies(w) PROVE Valued'
  <2>1. Valued /\ problem' = problem /\ lost' = lost /\ Becomes(w, "dead")
    BY <1>8 DEF WorkerDies
  <2>. QED  BY <1>0, <2>1, OthersWork, OthersAreSound
<1>9. ASSUME NEW i \in joblist, RemoveJob(i) PROVE Valued'
  <2>1. Valued
    BY <1>9 DEF RemoveJob
  <2>. QED  BY <1>9, <2>1, RemoveJobIsSound
<1>10. CASE BadConnection
  <2>1. Valued /\ problem' = problem /\ lost' = lost /\ worker' = worker /\ job' = job
    BY <1>10 DEF BadConnection
  <2>. QED  BY <1>0, <2>1, OthersAreSound
<1>11. CASE UNCHANGED vars
  <2>1. Valued /\ problem' = problem /\ lost' = lost /\ worker' = worker /\ job' = job
    BY <1>11 DEF vars
  <2>. QED  BY <1>0, <2>1, OthersAreSound
<1>. QED  BY <1>1, <1>2, <1>3, <1>4, <1>5, <1>6, <1>7, <1>8, <1>9, <1>10, <1>11 DEF Next

(* The invariant is inductive. *)
LEMMA NextSolves == Solving /\ [Next]_vars => Solving' /\ Improving
<1>. SUFFICES ASSUME Solving, [Next]_vars PROVE Solving' /\ Improving
  OBVIOUS
<1>1. BossInv /\ Modest /\ Left /\ (~cut => Valued)
  BY DEF Solving
<1>2. BossInv'
  BY <1>1, NextKeeps
<1>3. Modest' /\ Improving
  BY <1>1, NextIsModest
<1>4. Left'
  BY <1>1, NextLeaves
<1>5. ~cut' => Valued'
  BY <1>1, NextValues
<1>. QED  BY <1>2, <1>3, <1>4, <1>5 DEF Solving

(* The bounds of the root are worth what they say at the start. *)
LEMMA StartingIsSound ==
  ASSUME NEW p, NEW opt \in Nat \ {0}, NEW ub \in Nat, opt <= ub, Starting(p, opt, ub, ub)
  PROVE  Sound(p, None, opt, ub)
<1> DEFINE r == p.nodes[Root]
<1>1. /\ DOMAIN p.nodes = {Root} /\ p.ub = ub /\ r.parent = None /\ r.depth = 0
      /\ r.status \in {LP_bound_estimated, LP_bound_computed}
      /\ r.same = {} /\ r.diff = {} /\ Kids(r) = {}
      /\ r.opt = opt /\ r.lp \in Nat /\ r.lp <= opt /\ r.lb = r.lp /\ r.ub = ub /\ r.best = ub
  BY DEF Starting, Kids
<1>. HIDE DEF r
<1>2. Worth(r, opt, ub)
  BY <1>1 DEF Worth, LP_bound_estimated, LP_bound_computed, finished
<1>3. Lineage(p.nodes, Root, ub)
  BY <1>1, ColorNodesAssumption DEF Lineage, r
<1>4. Quiet(p.nodes, Root)
  BY <1>1 DEF Quiet, Busy, Restful, r, LP_bound_estimated, LP_bound_computed,
              submitted_for_branching
<1>5. None \notin DOMAIN p.nodes
  BY <1>1 DEF None, Root
<1>. QED  BY <1>1, <1>2, <1>3, <1>4, <1>5 DEF Sound, Calm, r

(* The search starts with the invariant. *)
LEMMA InitSolves == Init => Solving
<1>. SUFFICES ASSUME Init PROVE Solving
  OBVIOUS
<1>1. PICK opt \in 3 .. MaxOpt, excess \in 0 .. DsaturExcess :
        \E p : /\ Starting(p, opt, opt + excess, opt + excess)
               /\ problem = insert_into_branching_heap(p, Root)
  BY InitialRoot
<1>2. PICK p : Starting(p, opt, opt + excess, opt + excess) /\ problem = insert_into_branching_heap(p, Root)
  BY <1>1
<1> DEFINE ub == opt + excess
<1>3. opt \in Nat \ {0} /\ ub \in Nat /\ opt <= ub /\ ub < COLORNWT_MAX
  BY ColorBossAssumption DEF COLORNWT_MAX
<1>. HIDE DEF ub
<1>4. Tree(p) /\ Kids(p.nodes[Root]) = {} /\ Sound(p, None, opt, ub)
  BY <1>2, <1>3, StartingTree, StartingIsSound DEF ub
<1>5. Root \in DOMAIN p.nodes /\ p.nodes[Root].parent = None /\ p.ub = ub
  BY <1>2 DEF Starting, ub
<1>6. Sound(problem, None, opt, ub) /\ KeptAll(p, problem)
  BY <1>2, <1>4, <1>5, InsertIsSound
<1>7. problem.ub = ub /\ chi = opt
  BY <1>5, <1>6 DEF KeptAll, Kept, Sound, chi, root
<1>8. lost = {} /\ \A w \in Workers : worker[w] = "idle"
  BY DEF Init
<1>9. Valued /\ Left
  BY <1>6, <1>7, <1>8 DEF Valued, Left
<1>10. Modest
  <2>1. Sane(p, opt)
    <3>1. p.nodes[Root].opt = opt /\ DOMAIN p.nodes = {Root}
      BY <1>2 DEF Starting
    <3>. QED  BY <1>3, <1>5, <3>1 DEF Sane
  <2>2. Sane(problem, chi)
    BY <1>6, <1>7, <2>1, KeptGraphs, SaneStays
  <2>. QED  BY <1>3, <1>7, <1>8, <2>2 DEF Modest
<1>. QED  BY <1>9, <1>10, InitAccounts DEF Solving

(* Where no node is open the root alone is left, and it is finished: the   *)
(* deepest node with children would have an open child.                    *)
LEMMA AllClosed ==
  ASSUME NEW p, Tree(p), NEW c, Sound(p, None, c, p.ub), Open(p) = {}
  PROVE  p.nodes[Root].status = finished /\ p.nodes[Root].best = c
<1> DEFINE S == {MaxDepth - p.nodes[n].depth : n \in {m \in DOMAIN p.nodes : Kids(p.nodes[m]) # {}}}
<1>1. /\ \A n \in DOMAIN p.nodes : /\ InPlace(p.nodes, n) /\ Lineage(p.nodes, n, p.ub)
                                   /\ Worth(p.nodes[n], c, p.ub) /\ Quiet(p.nodes, n)
      /\ Root \in DOMAIN p.nodes /\ p.nodes[Root].opt = c /\ None \notin DOMAIN p.nodes
      /\ c \in Nat /\ p.ub \in Nat /\ c <= p.ub
  BY DEF Tree, Sound, Calm, None
<1>2. \A n \in DOMAIN p.nodes : p.nodes[n].status < finished => Kids(p.nodes[n]) # {}
  BY DEF Open
<1>3. S \in SUBSET Nat
  BY <1>1, ColorNodesAssumption DEF InPlace, Lineage
<1>4. S = {}
  <2>1. SUFFICES ASSUME S # {} PROVE FALSE
    OBVIOUS
  <2>2. Min(S) \in S /\ \A x \in S : Min(S) <= x
    <3>. HIDE DEF S
    <3>. QED  BY <1>3, <2>1, MinIsLeast
  <2>3. PICK n \in DOMAIN p.nodes : Kids(p.nodes[n]) # {} /\ Min(S) = MaxDepth - p.nodes[n].depth
    BY <2>2
  <2>4. PICK k \in Kids(p.nodes[n]) : p.nodes[k].status < finished
    BY <1>1, <2>3 DEF Quiet, Busy, Kids
  <2>5. k \in DOMAIN p.nodes /\ p.nodes[k].parent = n /\ n # None
    BY <1>1 DEF InPlace
  <2>6. p.nodes[k].depth = p.nodes[n].depth + 1
    BY <1>1, <2>5 DEF Lineage
  <2>7. MaxDepth - p.nodes[k].depth \in S
    BY <1>2, <2>4, <2>5
  <2>8. p.nodes[n].depth \in Nat /\ MaxDepth \in Nat
    BY <1>1, ColorNodesAssumption DEF InPlace
  <2>. HIDE DEF S
  <2>. QED  BY <2>2, <2>3, <2>6, <2>7, <2>8
<1>5. Kids(p.nodes[Root]) = {}
  BY <1>1, <1>4
<1>6. p.nodes[Root].status = finished
  <2>1. ~(p.nodes[Root].status < finished) /\ p.nodes[Root].status \in Int
        /\ p.nodes[Root].status <= finished
    BY <1>1, <1>2, <1>5 DEF InPlace, Worth
  <2>. QED  BY <2>1 DEF finished
<1>7. p.ub = c
  <2>1. p.ub <= p.nodes[Root].opt
    BY <1>1, <1>6 DEF Worth, finished
  <2>. QED  BY <1>1, <2>1
<1>8. p.nodes[Root].best = c
  <2>1. DOMAIN p.nodes = {Root}
    BY <1>5, RootAlone
  <2>. QED  BY <1>7, <2>1 DEF Sound
<1>. QED  BY <1>6, <1>8

(* The optimum is found when everybody was sent home. *)
LEMMA OptimumFound == Solving => OptimumIsFound
<1>. SUFFICES ASSUME Solving, \E w \in Workers : worker[w] = "exited", ~cut
              PROVE  root.status = finished /\ root.best = chi
  BY DEF OptimumIsFound
<1>1. Open(problem) = {} /\ Tree(problem)
  BY DEF Solving, Left, Valued, BossInv, Accounts
<1>2. Sound(problem, None, chi, problem.ub)
  BY DEF Solving, Valued
<1>. QED  BY <1>1, <1>2, AllClosed DEF root

(* Where the bounds of the root agree the global bound is optimal. *)
LEMMA RootDecides ==
  ASSUME NEW p, NEW c, Sound(p, None, c, p.ub), p.nodes[Root].lb = p.nodes[Root].ub
  PROVE  p.ub = c
<1> DEFINE r == p.nodes[Root]
<1>1. /\ Worth(r, c, p.ub) /\ r.opt = c
      /\ c \in Nat /\ p.ub \in Nat /\ c <= p.ub
  BY DEF Sound
<1>. QED  BY <1>1 DEF Worth

(* Every step is one of the abstract solver, or none. *)
LEMMA StepRefines == Solving /\ [Next]_vars => [ES!Next]_ES!esvars
<1>. SUFFICES ASSUME Solving, [Next]_vars PROVE [ES!Next]_ES!esvars
  OBVIOUS
<1>1. Solving' /\ chi' = chi /\ problem'.ub <= problem.ub
  BY NextSolves DEF Improving
<1>2. /\ chi \in Nat \ {0} /\ problem.ub \in Nat /\ problem'.ub \in Nat
      /\ chi <= problem'.ub /\ problem'.ub < COLORNWT_MAX
  BY <1>1 DEF Solving, Modest, Sane
<1>3. Answer' \in {"running", "stopped", "optimal"}
  BY DEF Answer
<1>4. Answer' = "optimal" => problem'.ub = chi'
  <2>1. Answer' = "optimal" => ~cut' /\ problem'.nodes[Root].lb = problem'.nodes[Root].ub
    BY DEF Answer, root
  <2>2. ~cut' => Sound(problem', None, chi', problem'.ub)
    BY <1>1 DEF Solving, Valued
  <2>. QED  BY <2>1, <2>2, RootDecides
<1>5. CASE pc = "serving"
  <2>1. Answer = "running"
    BY <1>5 DEF Answer
  <2>2. problem'.ub = problem.ub \/ problem'.ub \in {v \in chi .. COLORNWT_MAX - 1 : v < problem.ub}
    BY <1>1, <1>2 DEF COLORNWT_MAX
  <2>3. Answer' \in ES!TrueAnswers(problem'.ub)
    BY <1>1, <1>2, <1>3, <1>4 DEF ES!TrueAnswers
  <2>. QED  BY <1>1, <2>1, <2>2, <2>3 DEF ES!Next, ES!Advance, ES!Better
<1>6. CASE pc # "serving"
  <2>1. UNCHANGED <<problem, pc, cut>>
    BY <1>6 DEF Next, vars, SendJob, SendFails, AnswerNo, AnswerExit, NothingToSend, Asks,
                Receive, ReceiveFails, ReceiveUnknown, Located, Reports, WorkerDies,
                RemoveJob, BadConnection
  <2>. QED  BY <2>1 DEF ES!esvars, Answer, chi, root
<1>. QED  BY <1>5, <1>6

(* The initial states are initial states of the abstract solver. *)
LEMMA InitRefines == Init => ES!Init
<1>. SUFFICES ASSUME Init PROVE ES!Init
  OBVIOUS
<1>1. Solving /\ pc = "serving"
  BY InitSolves DEF Init
<1>2. /\ chi \in Nat \ {0} /\ problem.ub \in Nat /\ chi <= problem.ub
      /\ problem.ub < COLORNWT_MAX
  BY <1>1 DEF Solving, Modest, Sane
<1>3. chi \in 1 .. COLORNWT_MAX /\ problem.ub \in chi .. COLORNWT_MAX - 1
  BY <1>2 DEF COLORNWT_MAX
<1>. QED  BY <1>1, <1>3 DEF ES!Init, Answer

(* The bounds of exactcolors' boss are worth what they say when its LPs    *)
(* converge: whatever order results come in, however often a job is given  *)
(* out and whoever dies, no bound or colouring beats the global bound,     *)
(* which some node's colouring has once it is optimal, every lower bound   *)
(* is right unless its node is of no use, and every branch that is still   *)
(* there has a node to work on (COLOR_BOSS_RECEIVE with its insertions,    *)
(* its adoption of the bound and remove_finished_subtree, color.c).  When  *)
(* a result breaks off only this is left: the global bound is not below    *)
(* the chromatic number, and no job promises less.                         *)
THEOREM SolvingInvariant == Spec => []Solving
<1>1. Solving /\ [Next]_vars => Solving'
  BY NextSolves
<1>. QED  BY InitSolves, <1>1, PTL DEF Spec

(* When the boss sends a worker home and no result has broken off, the     *)
(* root has an optimal colouring (the exit answer of parallel_branching,   *)
(* color.c).                                                               *)
THEOREM OptimumIsAlwaysFound == Spec => []OptimumIsFound
BY SolvingInvariant, OptimumFound, PTL

(* The boss with its workers does what an exact solver promises: its bound *)
(* only improves and is never below the chromatic number, and it is        *)
(* optimal when the bounds of the root agree and no result has broken off, *)
(* for any number of workers, depth, faults and branching strategy.        *)
THEOREM BossImplementation == Spec => Refinement
<1>1. Solving /\ [Next]_vars => [ES!Next]_ES!esvars
  BY StepRefines
<1>2. Spec => ES!Spec
  BY <1>1, InitRefines, SolvingInvariant, PTL DEF Spec, ES!Spec
<1>. QED  BY <1>2 DEF Refinement
=============================================================================
