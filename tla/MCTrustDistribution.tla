----------------------- MODULE MCTrustDistribution ------------------------
(* What a control plane distributes, to its peers and to its agents: trust     *)
(* material to those who verify, and policy to the local PDPs. The two do not  *)
(* touch each other's state, nor do a peer and an agent, so the deployments    *)
(* have them one at a time beside the agent's X.509 stream.                    *)
EXTENDS TrustDistribution, BundleSync

MCDeployments == {{"peer", "x509", "bundles"}, {"x509", "jwt", "jwks"}, {}}

MCServers == {1, 2}
MCOffset == [s \in MCServers |-> IF s = 1 THEN -1 ELSE 1]
MCNever == -4

PolicyOnly == uses = {}

DistributionInit ==
  /\ Init /\ SyncInit
  /\ IF PolicyOnly THEN tdf ELSE mode = [signed |-> TRUE, spool |-> TRUE]

DistributionNext ==
  \/ ~PolicyOnly /\ Next /\ UNCHANGED syncvars
  \/ PolicyOnly /\ SyncNext /\ UNCHANGED vars

DistributionSpec ==
  /\ DistributionInit
  /\ [][DistributionNext]_<<vars, syncvars>>
  /\ WF_vars(runPeer) /\ WF_vars(SetOwnBundle)
=============================================================================
