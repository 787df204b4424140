--------------------------- MODULE MCPolicyLoading ---------------------------
(* Requests and loads on one or two replicas. *)
EXTENDS PolicyLoading, TLC

CONSTANTS r1, r2, w1, w2, a, b

OneReplicaHome == w1 :> r1 @@ w2 :> r1
TwoReplicaHome == w1 :> r1 @@ w2 :> r2
NoCollision == {}
BreaksSecond == {<<r2, b>>}
=============================================================================
