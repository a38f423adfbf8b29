--------------------------- MODULE MCHeuristics --------------------------------
(* The values TLC gives the constants of Heuristics: the problems of       *)
(* MCDpcp, the solvers that use the heuristics and the checks.             *)
EXTENDS Heuristics, MCDpcp

MCByp     == {"byp"}
MCFeas    == {"feas-enum"}
MCAll     == 0 .. 3
MCNone    == {0}
MCEnum    == {1}
MCChecks  == 0 .. 2
=============================================================================
