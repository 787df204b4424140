----------------------------- MODULE MCAuditPump -----------------------------
(* The pumps of two replicas that share a database. *)
EXTENDS AuditPump, TLC

CONSTANTS r1, r2, w1, w2

TwoReplicaHome == w1 :> r1 @@ w2 :> r2
=============================================================================
