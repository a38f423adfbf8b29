------------------------------ MODULE MCNodeLP ------------------------------
(* The values TLC gives the constants of NodeLP.                           *)
EXTENDS NodeLP

MCVertices   == {"a", "b"}
MCColumns    == {{"a"}, {"b"}, {"a", "b"}}
MCObjectives == {2, 3, 4, 6}
MCPipelines  == {6}
MCInheritance == 0 .. 4
MCColsPerIter == {2}
=============================================================================
