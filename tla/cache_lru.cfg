SPECIFICATION FairSpec
CONSTANTS
  Names = {"a", "b", "c"}
  QTypes = {"A"}
  Lower <- MCLower
  Records = {"r1"}
  Domains = {}
  IPs = {}
  TTLs = {0, 2}
  NegTTLs = {}
  minTTL = 1
  maxTTL = 2
  negMin = 1
  negMax = 2
  maxEntries = 2
  maxNsEntries = 1
  Second = 1
  SizeMod = 2
  None = None
  MaxTime = 4
INVARIANT TypeOK
INVARIANT LRUConsistent
INVARIANT LRUOrdered
INVARIANT CacheBounded
PROPERTY EvictsLeastRecentlyUsed
PROPERTY LockReleased
