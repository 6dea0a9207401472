SPECIFICATION FairSpec
CONSTANTS
  Threads = {"t"}
  Names = {"w", "h"}
  Types = {"A"}
  Zones = {"com", "net"}
  Servers = {"ra", "tld", "auth"}
  None = None
  A = "A"
  Other = Other
  Roots <- OneRoot
  Chain <- InCom
  EndsWith <- InComOnly
  Internet <- GlueLoop
  MaxDepth = 2
  MaxRequests = 1
PROPERTY RequestsEnd
