------------------------------ MODULE MCSubmitReview ------------------------------
(* Small instances of SubmitReview for TLC.                                  *)
EXTENDS SubmitReview, TLC

SubmitSymmetry == Permutations(Request) \cup Permutations(Key) \cup Permutations(Token)
                  \cup Permutations(Captcha)

=============================================================================
