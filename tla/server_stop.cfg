SPECIFICATION ServerSpec
CONSTANTS
  Workers = {"w1"}
  Tasks = {"x", "y"}
  NoTask = NoTask
  MaxTasks = 1
INVARIANT ObjectsOutliveTasks
