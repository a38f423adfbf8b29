----------------------------- MODULE MCColorTree ----------------------------
(* The values TLC gives the constants of ColorTree.                        *)
EXTENDS ColorTree

Set(bounds, strategies, sequences, only, backups) ==
  [initial_upper_bound : bounds, strategy : strategies, same_sequence : sequences,
   upper_bounds_only : only, backupdir : backups]

\* Every strategy and both ways to branch without backups; backups with the
\* strategy that has a state of its own; an initial bound of 3, which no
\* colouring is below, of 4, and none.
\* Statuses differ with upper_bounds_only, which matters only to restarts.
MCParms ==
  Set({3, 4, COLORNWT_MAX}, {dfs, hybrid, min_lb}, BOOLEAN, {FALSE}, {FALSE})
  \cup Set({3, 4, COLORNWT_MAX}, {hybrid}, {FALSE}, BOOLEAN, {TRUE})

MCLowBound == Set({3}, {hybrid}, {FALSE}, {FALSE}, {FALSE})

\* The defaults of color, without and with a backup directory.
MCDefaults == Set({COLORNWT_MAX}, {dfs}, {FALSE}, {FALSE}, {FALSE})
MCBackups == Set({COLORNWT_MAX}, {dfs}, {FALSE}, {FALSE}, {TRUE})
=============================================================================
