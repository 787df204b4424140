-------------------------- MODULE MCTrustMaterial -------------------------
(* Where a server's trust material comes from: a directory that the operator's *)
(* commands rotate, an upstream trust domain, or any trust source at all, the   *)
(* last two behind the durable numbering.  A server has one of them.            *)
EXTENDS UpstreamFeed, CARotation

MCOff == <<0, 0>>

MCMaterials == {1, 3, 4} \X {1, 3}

MaterialInit ==
  \/ FeedInit /\ RotationInit
  \/ Init /\ RotationInit
     /\ kind = "disk" /\ up = <<1, 1>> /\ w = Off /\ updated = FALSE /\ loop = Waiting

MaterialNext ==
  \/ kind # "disk" /\ FeedNext /\ UNCHANGED rvars
  \/ kind = "disk" /\ RotationNext /\ UNCHANGED fvars

MaterialSpec == MaterialInit /\ [][MaterialNext]_<<fvars, rvars>> /\ FeedFairness
=============================================================================
