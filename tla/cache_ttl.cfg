SPECIFICATION Spec
CONSTANTS
  Names = {"a", "A"}
  QTypes = {"A"}
  Lower <- MCLower
  Records = {"r1", "r2"}
  Domains = {"d1", "d2"}
  IPs = {"i1"}
  TTLs = {0, 1, 3}
  NegTTLs = {3}
  minTTL = 1
  maxTTL = 2
  negMin = 1
  negMax = 2
  maxEntries = 1
  maxNsEntries = 1
  Second = 1
  SizeMod = 2
  None = None
  MaxTime = 3
INVARIANT StaleBounded
PROPERTY ImplementsPrompt
PROPERTY NoSpuriousLoss
