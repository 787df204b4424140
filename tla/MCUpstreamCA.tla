--------------------------- MODULE MCUpstreamCA ---------------------------
EXTENDS UpstreamCA

\* The first CA expires within the run, the second does not.
MCNotAfter == [c \in CAs |-> IF c = 1 THEN 4 ELSE 9]
\* One replica of each backend, and a fleet of the backends with an overlap.
MCDeployments == {<<Replicas, "vault-pki">>}
  \cup {<<{r}, b>> : r \in Replicas, b \in {"vault-pki", "step-ca", "aws-pca", "gcp-cas"}}
Symmetry == Permutations(Replicas)
=============================================================================
