CONSTANTS
  Off <- MCOff
  Materials <- MCMaterials
  MaxFaults = 1
  MaxCrashes = 1
  MaxUpstream = 2
  NoAnchor = {2}
  NoKey = {2}
  MaxCA = 3
  RetireAfter = 1
  MaxTime = 3
  MaxDeaths = 1
SPECIFICATION MaterialSpec
INVARIANTS StartsAgain  SameNumberSameMaterial
PROPERTIES  SequenceMovesForward FollowsUpstream
CHECK_DEADLOCK FALSE
