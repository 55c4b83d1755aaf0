\* No faults; lost publishes, lost statuses and dropped connections; restarts of either side.
SPECIFICATION FairSpec
CONSTANTS
  c1 = c1
  c2 = c2
  t1 = t1
  t2 = t2
  w1 = w1
  w2 = w2
  NoOne = NoOne
  NoTask = NoTask
  Agent = Agent
  Callers <- MCCallers
  Tasks <- MCTasks
  MissionTasks <- MCMissions
  Known <- MCTasks
  Workers <- MCWorkers
  MaxTracked = 2
  MaxCopies = 1
  MaxReconnects = 1
  MaxCrashes = 1
  FaultSets <- MCFaults
CONSTRAINT MCBound
CHECK_DEADLOCK FALSE
INVARIANT PlaneSound
PROPERTIES
  ImplementsOneTaskAtATime
  TaskCompletes
