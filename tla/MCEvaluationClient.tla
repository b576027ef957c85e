---------------------------- MODULE MCEvaluationClient ----------------------------
(* Small instances of EvaluationClient for TLC.                              *)
EXTENDS EvaluationClient

OneStage == <<"transcription">>

NoWork == << >>

OneArtifact == {"transcription"}

=============================================================================
