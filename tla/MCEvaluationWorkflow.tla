--------------------------- MODULE MCEvaluationWorkflow ---------------------------
(* Small instances of EvaluationWorkflow for TLC: one task, the audio named  *)
(* apart from the two results the model jobs can come to.                    *)
EXTENDS EvaluationWorkflow, TLC

MCTokens == Request

MCTokenOf == [r \in Request |-> r]

MCJobId == [s \in CallbackStep |-> CHOOSE id \in ExternalId : TRUE]

ResultSymmetry == Permutations(Value \ {AudioUri})

=============================================================================
