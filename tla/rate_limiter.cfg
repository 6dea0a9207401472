SPECIFICATION FairSpec
CONSTANTS
  Clients = {"c1", "c2"}
  Threads = {"t1", "t2"}
  maxQueriesPerWindow = 2
  windowSeconds = 2
  CountMod = 2
  None = None
  MaxTime = 5
INVARIANT TypeOK
INVARIANT WindowLimit
PROPERTY ImplementsWindow
PROPERTY AllowQueryReturns
