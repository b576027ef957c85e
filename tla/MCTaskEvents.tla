------------------------------- MODULE MCTaskEvents -------------------------------
(* Small instances of TaskEvents for TLC.                                    *)
EXTENDS TaskEvents, TLC

CONSTANTS t1, t2, c1, c2, k1, k2, m1, e0, e1

\* A ticket for each task: one connection presents both of them, and another
\* one of them as well.
TicketForEach == k1 :> t1 @@ k2 :> t2

SharedTicket == {<<c1, k1>>, <<c1, k2>>, <<c2, k1>>}

AnnounceOnce == m1 :> <<t1, e1>>

=============================================================================
