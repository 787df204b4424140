SPECIFICATION DistributionSpec
CONSTANTS
  Agents = {a1, a2}
  MaxCA = 2
  MaxCerts = 2
  MaxFaults = 0
  Nothing = Nothing
  Deployments <- MCDeployments
  Servers <- MCServers
  Offset <- MCOffset
  Ahead = 1
  Never <- MCNever
  maxClockSkew = 1
  MaxAge = 2
  Timeout = 1
  MaxNow = 5
  MaxRev = 2
  MaxSyncFaults = 1
INVARIANTS
  WorkloadTrusts
CHECK_DEADLOCK FALSE
