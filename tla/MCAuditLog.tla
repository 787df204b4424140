----------------------------- MODULE MCAuditLog -----------------------------
(* Instances of the audit log: one replica with three request goroutines,
   and two replicas that share a database. *)
EXTENDS AuditLog, TLC

CONSTANTS r1, r2, w1, w2

OneReplicaHome == w1 :> r1 @@ w2 :> r1
TwoReplicaHome == w1 :> r1 @@ w2 :> r2
=============================================================================
