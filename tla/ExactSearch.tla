---------------------------- MODULE ExactSearch -----------------------------
(***************************************************************************)
(* What an exact solver promises about the colouring problem it is given,  *)
(* whatever search it runs: it improves an incumbent, and when it stops    *)
(* its answer is true; it may also stop without one.  opt is the optimum   *)
(* of the instance, NoColouring when it is infeasible; the incumbent is 0  *)
(* while there is none, and may come from a heuristic before the search.   *)
(***************************************************************************)
EXTENDS Integers

CONSTANT NoColouring    \* above the value of every colouring

VARIABLES opt, incumbent, answer

esvars == <<opt, incumbent, answer>>

Init ==
  /\ opt \in 1 .. NoColouring
  /\ incumbent \in {0} \cup (opt .. NoColouring - 1)
  /\ answer = "running"

Better(v) == incumbent = 0 \/ v < incumbent

(* The answers that are true of an instance when value is the incumbent. *)
TrueAnswers(value) ==
  {"running", "stopped"}
    \cup {a \in {"feasible"}   : value # 0}
    \cup {a \in {"optimal"}    : value # 0 /\ value = opt}
    \cup {a \in {"infeasible"} : value = 0 /\ opt = NoColouring}

(* One step of the solver: it may find a better colouring, and may stop. *)
Advance ==
  /\ answer = "running"
  /\ \/ UNCHANGED incumbent
     \/ incumbent' \in {v \in opt .. NoColouring - 1 : Better(v)}
  /\ answer' \in TrueAnswers(incumbent')
  /\ UNCHANGED opt

Next == Advance

Spec == Init /\ [][Next]_esvars
=============================================================================
