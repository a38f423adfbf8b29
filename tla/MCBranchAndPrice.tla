------------------------- MODULE MCBranchAndPrice ---------------------------
(* The values TLC gives the constants of BranchAndPrice.                   *)
EXTENDS BranchAndPrice

\* Relaxations of value 1, 1.5, 2 with numerical noise, and 2.5.
MCLowerBounds == {1000, 1500, 2001, 2500}
MCTwoLimits   == {"TIME_EXCEEDED_PR", "INIT_FAIL"}
MCOneLimit    == {"TIME_EXCEEDED_LP"}
MCTwoModes    == BOOLEAN
MCOnlyTrue    == {TRUE}
MCOnlyFalse   == {FALSE}
MCNoInitialBound   == {DBLMAX}
MCAllInitialBounds == 1 .. DBLMAX
=============================================================================
