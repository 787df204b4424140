SPECIFICATION Spec
CONSTANTS
  a = a
  b = b
  Owners = {a, b}
  Proofs <- MCProofs
  Services <- MCServices
  User = u
  Upstream = up
  Unbound = Unbound
  MaxEntries = 3
  Window = 1
  MaxTime = 3
  Leeway = 1
  DefaultTTL = 1
  MaxTTL = 2
  MaxAssertionTTL = 1
  Quota = 1
  Cooldown = 1
  TTLs = {0, 2}
  Lives = {0, 2}
  MaxEvents = 1
INVARIANTS NeverOutlives ProofUsedOnce 
PROPERTIES RefusalExplained
