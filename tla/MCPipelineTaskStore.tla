--------------------------- MODULE MCPipelineTaskStore ---------------------------
(* Small instances of PipelineTaskStore for TLC. *)
EXTENDS PipelineTaskStore, TLC

Symmetry == Permutations(Task) \cup Permutations(Token) \cup Permutations(ExternalId)
            \cup Permutations(Value) \cup Permutations(ErrorCode) \cup Permutations(Arn)

=============================================================================
