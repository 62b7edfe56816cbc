------------------------ MODULE MCPipelineExecution ------------------------
(***************************************************************************)
(* Small instances of PipelineExecution: what the pipelines share, and the *)
(* symmetry of the identifiers no definition tells apart.                  *)
(***************************************************************************)
EXTENDS PipelineExecution, TLC

CONSTANTS c1, c2   \* connections

\* Every pipeline has connections of its own.
NoConnections == [pl \in Pipelines |-> {}]

\* All pipelines read from one source connection.
SharedConnection == [pl \in Pipelines |-> {c1, c2}]

Symmetry ==
  Permutations(Runs) \cup Permutations(Workers) \cup Permutations(Tasks)
    \cup Permutations(Versions)
=============================================================================
