----------------------------- MODULE MCUploadDispatch -----------------------------
(* Small instances of UploadDispatch for TLC: one task. *)
EXTENDS UploadDispatch, TLC

TheTask == CHOOSE t \in Task : TRUE

MCTaskOf == [n \in Notification |-> TheTask]

MCArnOf == [t \in Task |-> CHOOSE arn \in Arn : TRUE]

NotificationSymmetry == Permutations(Notification)

=============================================================================
