----------------------------- MODULE MCAudioConversion -----------------------------
(***************************************************************************)
(* Requests for TLC.  confirm-upload sends the first, one file numbered 0. *)
(* The others are what the worker is written for: several files, listed in *)
(* their order or another, one file played twice, and what it refuses.     *)
(***************************************************************************)
EXTENDS AudioConversion

CONSTANTS first, second, malformed

Two == {first, second}

File(uri, sequence) == [uri |-> uri, sequence |-> sequence]

SomeRequests ==
    { <<File(first, 0)>>, <<File(first, 0), File(second, 1)>>,
      <<File(first, 20), File(second, 10)>>,
      <<File(first, 5), File(second, 3), File(first, 4)>>,
      <<>>, <<File(first, 1), File(second, 1)>>, <<File(malformed, 1)>> }

=============================================================================
