SPECIFICATION Spec
CONSTANTS
  Threads = {"t"}
  Names = {"w", "h", "g"}
  Types = {"A"}
  Zones = {"com", "net"}
  Servers = {"ra", "tld", "auth"}
  None = None
  A = "A"
  Other = Other
  Roots <- OneRoot
  Chain <- InCom
  EndsWith <- InComOnly
  Internet <- Layered
  MaxDepth = 3
  MaxRequests = 1
PROPERTY CircularMeansVisiting
