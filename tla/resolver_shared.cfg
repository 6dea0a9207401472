SPECIFICATION Spec
CONSTANTS
  Threads = {"t", "u"}
  Names = {"w", "h"}
  Types = {"A"}
  Zones = {"com", "net"}
  Servers = {"ra", "tld", "auth"}
  None = None
  A = "A"
  Other = Other
  Roots <- OneRoot
  Chain <- InCom
  EndsWith <- InComOnly
  Internet <- Layered
  MaxDepth = 2
  MaxRequests = 1
INVARIANT CacheHeard
INVARIANT RepliesGrounded
