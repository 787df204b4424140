SPECIFICATION DistributionSpec
CONSTANTS
  Agents = {a1}
  MaxCA = 2
  MaxCerts = 2
  MaxFaults = 1
  Nothing = Nothing
  Deployments <- MCDeployments
  Servers <- MCServers
  Offset <- MCOffset
  Ahead = 1
  Never <- MCNever
  maxClockSkew = 1
  MaxAge = 2
  Timeout = 1
  MaxNow = 6
  MaxRev = 2
  MaxSyncFaults = 1
INVARIANTS
  TokensVerify
  PeerTrusts
  DecidesFresh
  NoRollback
  CurrentAccepted
PROPERTIES
  PeerCatchesUp
CHECK_DEADLOCK FALSE
