\* A redelivery that races the end of Execute.
SPECIFICATION Spec
CONSTANTS
  c1 = c1
  c2 = c2
  t1 = t1
  t2 = t2
  w1 = w1
  w2 = w2
  NoOne = NoOne
  NoTask = NoTask
  Agent = Agent
  Callers <- MCCallers
  Tasks <- MCTasks
  MissionTasks <- MCMissions
  Known <- MCTasks
  Workers <- MCWorkers
  MaxTracked = 2
  MaxCopies = 1
  MaxReconnects = 1
  MaxCrashes = 0
  FaultSets <- MCRelink
CHECK_DEADLOCK FALSE
PROPERTY FinalStays
