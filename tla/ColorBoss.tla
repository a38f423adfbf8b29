------------------------------ MODULE ColorBoss -----------------------------
(***************************************************************************)
(* The parallel search of exactcolors: the boss, color with the option -p  *)
(* (parallel_branching in exactcolors/color.c), its workers                *)
(* (exactcolors/color_worker.c) and the program that takes a job back      *)
(* (exactcolors/color_jobkiller.c).                                        *)
(*                                                                         *)
(* A client opens a connection, sends a request and waits: the boss serves *)
(* one connection at a time, so that a request with its answer is one      *)
(* step.  Between asking for a job and reporting it a worker branches on   *)
(* its own copy of the node.                                               *)
(*                                                                         *)
(* The LPs converge here: no bound of an LP is above the chromatic number  *)
(* of its graph.  ColorTree has those that do not.                         *)
(***************************************************************************)
EXTENDS ColorNodes, FiniteSets

CONSTANTS
  Workers,
  MaxOpt,        \* bound on the chromatic number of the instance
  DsaturExcess,  \* by how much DSATUR may miss it
  Strategies,    \* the branching strategies the boss may be started with
  MaxFaults      \* bound on the deaths of workers and the jobs taken back

ASSUME ColorBossAssumption ==
  /\ IsFiniteSet(Workers)
  /\ MaxOpt \in Nat /\ MaxOpt >= 3
  /\ DsaturExcess \in Nat
  /\ MaxOpt + DsaturExcess < COLORNWT_MAX  \* the bound of no colouring at all
  /\ Strategies \subseteq {dfs, hybrid, min_lb}
  /\ MaxFaults \in Nat

VARIABLES
  problem,   \* the COLORproblem of the boss
  joblist,   \* ids of the nodes in joblist
  npending,  \* number of jobs the boss waits for
  cd,        \* id of the node that was handled last, or None
  worker,    \* worker -> "idle", "busy", "exited" or "dead"
  job,       \* busy worker -> its copy of a node
  pc,        \* "serving", then "done" or "aborted"
  limit,     \* has the cpu limit ended the search?
  faults,    \* faults so far
  lost,      \* nodes to be branched on that are in the heap and list no more
  cut        \* has a result broken off while it was read?

vars == <<problem, joblist, npending, cd, worker, job, pc, limit, faults, lost, cut>>

root == problem.nodes[Root]
chi == root.opt

\* The root's LP has been solved; the boss listens.
Init ==
  /\ \E opt \in 3 .. MaxOpt, excess \in 0 .. DsaturExcess, strategy \in Strategies :
       \E lp \in Max({3, opt - MaxDepth}) .. opt :  \* no graph here is bipartite
       \E b \in Relaxed(opt, lp, 0, 0, FALSE) :
         problem = insert_into_branching_heap(
           [nodes |-> [n \in {Root} |-> [Colordata(None, 0, b, opt + excess)
                                           EXCEPT !.best = opt + excess]],
            heap |-> {}, ub |-> opt + excess, next |-> 1, strategy |-> strategy,
            files |-> <<>>],
           Root)
  /\ joblist = {} /\ npending = 0 /\ cd = None /\ lost = {} /\ cut = FALSE
  /\ worker = [w \in Workers |-> "idle"] /\ job = <<>>
  /\ pc = "serving" /\ limit = FALSE /\ faults = 0

\* Backups are written and never read by the boss.
Forgetting(p) == [p EXCEPT !.files = <<>>]

(***************************************************************************)
(* COLOR_BOSS_SEND: a worker asks for a job.  The boss drops the nodes     *)
(* that the global bound has made useless and sends the next one.          *)
(***************************************************************************)
Skipped(p, i) ==
  remove_finished_subtree(
    [p EXCEPT !.heap = @ \ {i}, !.nodes[i].status = finished], i)

Useless(p) == {i \in COLORNWTheap_min(p) : p.nodes[i].lb >= p.ub}

\* The problems in which the next node is not useless.
Pruned(p) ==
  LET n == Cardinality(p.heap)
      skipped[k \in 0 .. n] ==
        IF k = 0 THEN {p}
        ELSE UNION {{Skipped(q, i) : i \in Useless(q)} : q \in skipped[k - 1]}
  IN  {q \in UNION {skipped[k] : k \in 0 .. n} :
         q.heap = {} \/ Useless(q) # COLORNWTheap_min(q)}

Asks(w) ==
  /\ pc = "serving" /\ worker[w] = "idle"

Submitted(p, i) ==
  [p EXCEPT !.heap = @ \ {i}, !.nodes[i].ub = p.ub,
            !.nodes[i].status = submitted_for_branching]

SendJob(w) ==
  /\ Asks(w)
  /\ \E p \in Pruned(problem) : \E i \in COLORNWTheap_min(p) :
       /\ p.nodes[i].lb < p.ub
       /\ problem' = Forgetting(Submitted(p, i))
       /\ cd' = i
       /\ joblist' = joblist \cup {i}
       /\ job' = [v \in DOMAIN job \cup {w} |->
                    IF v = w THEN [id |-> i, cd |-> Submitted(p, i).nodes[i]] ELSE job[v]]
  /\ worker' = [worker EXCEPT ![w] = "busy"]
  /\ npending' = npending + 1
  /\ UNCHANGED <<pc, limit, faults, lost, cut>>

\* The boss gives up when it cannot write to the worker.
SendFails(w) ==
  /\ Asks(w) /\ faults < MaxFaults
  /\ \E p \in Pruned(problem) : p.heap # {}
  /\ pc' = "aborted"
  /\ faults' = faults + 1
  /\ worker' = [worker EXCEPT ![w] = "dead"]
  /\ UNCHANGED <<problem, joblist, npending, cd, job, limit, lost, cut>>

NothingToSend(w) ==
  /\ Asks(w)
  /\ \E p \in Pruned(problem) : p.heap = {} /\ problem' = Forgetting(p)
  /\ cd' = None

AnswerNo(w) ==
  /\ NothingToSend(w) /\ npending # 0
  /\ UNCHANGED <<joblist, npending, worker, job, pc, limit, faults, lost, cut>>

\* As a slip: the boss waits until the bounds of the root meet.
AnswerExitWhenClosed(w) ==
  /\ NothingToSend(w) /\ npending = 0 /\ root.lb = root.ub
  /\ worker' = [worker EXCEPT ![w] = "exited"]
  /\ pc' = "done"
  /\ UNCHANGED <<joblist, npending, job, limit, faults, lost, cut>>

\* Nothing is pending and cd is NULL: the loop ends.
AnswerExit(w) ==
  /\ NothingToSend(w) /\ npending = 0
  /\ worker' = [worker EXCEPT ![w] = "exited"]
  /\ pc' = "done"
  /\ UNCHANGED <<joblist, npending, job, limit, faults, lost, cut>>

(***************************************************************************)
(* COLOR_BOSS_RECEIVE: a worker reports.  The bounds, the status and the   *)
(* colouring of the node are overwritten with those of the worker's copy;  *)
(* the children get new ids.                                               *)
(***************************************************************************)
Results(copied) ==
  LET copy == [nodes |-> [n \in {copied.id} |-> [copied.cd EXCEPT !.best = 0]],
               next |-> problem.next]
  IN  (IF MayBeComplete(copied.cd) THEN {grab_integral_solution(copy, copied.id)} ELSE {})
      \cup (IF copied.cd.depth < MaxDepth
            THEN {WithChildren(copy, copied.id, kids) :
                    kids \in Branchings(copied.cd, FALSE, 0, FALSE)}
            ELSE {})

receive_colordata(p, i, result) ==
  LET r == result.nodes[i]
      adopted == [r EXCEPT !.parent = p.nodes[i].parent,
                           !.best = IF r.best # 0 THEN r.best ELSE p.nodes[i].best]
  IN  [p EXCEPT !.nodes = [n \in DOMAIN p.nodes \cup DOMAIN result.nodes |->
                             IF n = i THEN adopted
                             ELSE IF n \in DOMAIN result.nodes THEN result.nodes[n]
                             ELSE p.nodes[n]],
                !.next = result.next]

\* As a slip: a finished node is not collected.
ReceivedOnly(p, i) ==
  Strictly(LAMBDA q : adapt_global_upper_bound(q, q.nodes[i].ub),
           InsertAll(p, InOrder(p.nodes[i])))

Received(p, i) ==
  LET adapt(q) == adapt_global_upper_bound(q, q.nodes[i].ub)
  IN  Strictly(LAMBDA q : remove_finished_subtree(q, i),
               Strictly(adapt, InsertAll(p, InOrder(p.nodes[i]))))

Reports(w) == pc = "serving" /\ worker[w] = "busy"

Becomes(w, state) ==
  /\ worker' = [worker EXCEPT ![w] = state]
  /\ job' = [v \in DOMAIN job \ {w} |-> job[v]]

\* The time of the workers is counted when they report.
Located(w) ==
  /\ Reports(w) /\ job[w].id \in joblist
  /\ joblist' = joblist \ {job[w].id}
  /\ npending' = npending - 1
  /\ cd' = job[w].id
  /\ limit' \in BOOLEAN
  /\ pc' = IF limit' THEN "done" ELSE pc

Receive(w) ==
  /\ Located(w)
  /\ \E result \in Results(job[w]) :
     \E p \in {receive_colordata(problem, job[w].id, result)} :
       problem' = Forgetting(Received(p, job[w].id))
  /\ Becomes(w, "idle")
  /\ UNCHANGED <<faults, lost, cut>>

\* A colordata that has been overwritten with the first fields of another.
Overwritten(old, new) ==
  LET depth  == [old EXCEPT !.depth = new.depth]
      status == [depth EXCEPT !.status = new.status]
      lb     == [status EXCEPT !.lb = new.lb]
      ub     == [lb EXCEPT !.ub = new.ub]
  IN  {old, depth, status, lb, ub, [ub EXCEPT !.best = new.best]}

\* A child before its fields are read.  The others are never used.
init_unique_colordata(new) ==
  [new EXCEPT !.depth = 0, !.status = initialized, !.lb = 1, !.ub = COLORNWT_MAX]

\* What has arrived of a result when the connection breaks: part of the node,
\* or the node and its children up to a last one, of which part is read.
Arrived(old, result, i, next) ==
  {[nodes |-> [n \in {i} |-> r], next |-> next] : r \in Overwritten(old, result.nodes[i])}
  \cup UNION {{[nodes |-> [n \in {i} \cup next .. last |->
                            IF n = i THEN [result.nodes[i] EXCEPT !.same = @ \cap next .. last,
                                                                  !.diff = @ \cap next .. last]
                            ELSE IF n = last THEN child
                            ELSE result.nodes[n]],
                next |-> last + 1] :
               child \in Overwritten(init_unique_colordata(result.nodes[last]),
                                     result.nodes[last])} :
              last \in Kids(result.nodes[i])}

\* The nodes that are still to be branched on.
Unfinished(p) ==
  {i \in DOMAIN p.nodes : Kids(p.nodes[i]) = {} /\ p.nodes[i].status < finished}

\* The connection breaks after the id: the job is in no list any more, and the
\* node keeps what has arrived.
ReceiveFails(w) ==
  /\ Located(w) /\ faults < MaxFaults
  /\ faults' = faults + 1
  /\ \E result \in Results(job[w]) :
     \E part \in Arrived(problem.nodes[job[w].id], result, job[w].id, problem.next) :
       /\ problem' = receive_colordata(problem, job[w].id, part)
       /\ lost' = lost \cup (DOMAIN part.nodes \cap Unfinished(problem'))
  /\ cut' = TRUE
  /\ Becomes(w, "dead")

\* The job was taken back and perhaps reported by another worker.
ReceiveUnknown(w) ==
  /\ Reports(w) /\ job[w].id \notin joblist
  /\ pc' = "aborted"
  /\ Becomes(w, "dead")
  /\ UNCHANGED <<problem, joblist, npending, cd, limit, faults, lost, cut>>

(***************************************************************************)
(* The other requests and faults.                                          *)
(***************************************************************************)
\* As a slip: the boss goes on waiting for the job.
RemoveJobStillPending(i) ==
  /\ pc = "serving" /\ faults < MaxFaults /\ i \in joblist
  /\ faults' = faults + 1
  /\ joblist' = joblist \ {i}
  /\ cd' = i
  /\ problem' = Forgetting(insert_into_branching_heap(problem, i))
  /\ UNCHANGED <<npending, worker, job, pc, limit, lost, cut>>

\* COLOR_BOSS_REMOVE_JOB, sent by color_jobkiller: whoever calls it may take a
\* slow worker for a dead one.
RemoveJob(i) ==
  /\ pc = "serving" /\ faults < MaxFaults /\ i \in joblist
  /\ faults' = faults + 1
  /\ joblist' = joblist \ {i}
  /\ npending' = npending - 1
  /\ cd' = i
  /\ problem' = Forgetting(insert_into_branching_heap(problem, i))
  /\ UNCHANGED <<worker, job, pc, limit, lost, cut>>

\* A connection that fails before its request is ignored, but for the loop's
\* condition, which is false before the first job is sent.
BadConnection ==
  /\ pc = "serving" /\ faults < MaxFaults /\ npending = 0 /\ cd = None
  /\ faults' = faults + 1
  /\ pc' = "done"
  /\ UNCHANGED <<problem, joblist, npending, cd, worker, job, limit, lost, cut>>

WorkerDies(w) ==
  /\ Reports(w) /\ faults < MaxFaults
  /\ faults' = faults + 1
  /\ Becomes(w, "dead")
  /\ UNCHANGED <<problem, joblist, npending, cd, pc, limit, lost, cut>>

Next ==
  \/ \E w \in Workers : \/ SendJob(w) \/ SendFails(w) \/ AnswerNo(w) \/ AnswerExit(w)
                        \/ Receive(w) \/ ReceiveFails(w) \/ ReceiveUnknown(w)
                        \/ WorkerDies(w)
  \/ \E i \in joblist : RemoveJob(i)
  \/ BadConnection

\* A worker that lives asks again after every answer and reports its job.
Fairness == \A w \in Workers :
  /\ WF_vars(SendJob(w) \/ AnswerExit(w))
  /\ WF_vars(Receive(w) \/ ReceiveUnknown(w))

Spec == Init /\ [][Next]_vars /\ Fairness
-----------------------------------------------------------------------------
\* The bookkeeping of the boss: it waits for exactly the jobs of its list, and
\* every node that is still to be branched on is in the heap or in the list,
\* never in both, unless it was lost when its result or that of its parent broke
\* off.
JobsAreAccounted ==
  /\ npending = Cardinality(joblist)
  /\ problem.heap \cap joblist = {}
  /\ Unfinished(problem) = problem.heap \cup joblist \cup lost
  /\ pc = "serving" => \A i \in joblist : problem.nodes[i].status = submitted_for_branching

\* "Opt Colors" is printed when the bounds of the root agree: does it have an
\* optimal colouring then?  Not always at the cpu limit, when three workers have
\* nodes of different ages.
OptColorsIsOptimal == pc = "done" /\ root.lb = root.ub => root.best = chi

\* When the boss sends the last worker home and no result has broken off, the
\* root has an optimal colouring.
OptimumIsFound ==
  (\E w \in Workers : worker[w] = "exited") /\ ~cut =>
    root.status = finished /\ root.best = chi

\* The boss with its workers is an exact solver as ExactSearch promises it: its
\* global bound only improves, whatever order results come in and however often
\* a job is given out, and is optimal when the bounds of the root agree, unless
\* a result has broken off: the bound of the root may have arrived then without
\* the colouring.
Answer == CASE pc = "serving" -> "running"
            [] pc = "done" /\ root.lb = root.ub /\ ~cut -> "optimal"
            [] OTHER -> "stopped"

ES == INSTANCE ExactSearch WITH
        NoColouring <- COLORNWT_MAX, opt <- chi, incumbent <- problem.ub,
        answer <- Answer

Refinement == ES!Spec

\* With workers that do not die the boss ends.
Terminates == [](\A w \in Workers : worker[w] # "dead") => <>(pc # "serving")
=============================================================================
