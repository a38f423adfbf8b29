----------------------------- MODULE MCColorBoss ----------------------------
(* The workers and strategies TLC gives ColorBoss.                         *)
EXTENDS ColorBoss

CONSTANTS w1, w2
MCWorkers == {w1, w2}
MCStrategies == {dfs, hybrid, min_lb}
=============================================================================
