SPECIFICATION FairSpec
CONSTANTS
  Threads = {t1, t2}
  Servers = {s1, s2}
  Ids = {i1, i2}
  Ports = {p1, p2}
  None = None
  MaxDraws = 1
  MaxRetries = 2
  MaxCalls = 1
INVARIANT TypeOK
INVARIANT SocketsAccounted
INVARIANT SuccessLeavesNoTrace
INVARIANT AnswersOwnQuery
PROPERTY ImplementsExchange
PROPERTY CallsReturn
