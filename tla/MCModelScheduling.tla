----------------------------- MODULE MCModelScheduling -----------------------------
(* A small instance of ModelScheduling for TLC: three rounds of a request    *)
(* let it find the key claimed, free again and claimed by itself, and the    *)
(* faults can break off one dispatch of each of three requests.              *)
EXTENDS ModelScheduling

MCAttempts == 3

MCMaxFaults == 3

=============================================================================
