SPECIFICATION FairSpec
CONSTANTS
  Threads = {"t"}
  Names = {"w", "h", "g"}
  Types = {"A", "MX"}
  Zones = {"com", "net"}
  Servers = {"ra", "rb", "tld", "auth"}
  None = None
  A = "A"
  Other = Other
  Roots <- TwoRoots
  Chain <- InCom
  EndsWith <- InComOnly
  Internet <- Layered
  MaxDepth = 2
  MaxRequests = 1
INVARIANT TypeOK
INVARIANT NoSelfWait
PROPERTY RequestsEnd
PROPERTY RootsTried
