SPECIFICATION Spec
CONSTANTS
  CAs = {1, 2}
  NotAfter <- MCNotAfter
  Grace = 2
  Replicas = {r1, r2}
  Deployments <- MCDeployments
  BundleTTL = 1
  Backoff = 1
  Validity = 1
  MaxTime = 4
  MaxEvents = 3
  Nobody = Nobody
SYMMETRY Symmetry
INVARIANTS TrustEnds DistrustHolds 
