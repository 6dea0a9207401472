SPECIFICATION FairServer
CONSTANTS
  Workers = {"w1", "w2"}
  Tasks = {"x", "y"}
  NoTask = NoTask
  MaxTasks = 3
INVARIANT TakenInOrder
INVARIANT AtMostOneLate
INVARIANT NoSleeperAtJoin
INVARIANT ThreadsEndFirst
INVARIANT OneAfterSignal
PROPERTY ImplementsContract
PROPERTY SignalEnds
PROPERTY BackgroundServes
