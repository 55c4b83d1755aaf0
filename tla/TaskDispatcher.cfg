\* Every interleaving of two callers, the status handler and restarts.
SPECIFICATION LockFairSpec
CONSTANTS
  a1 = a1
  a2 = a2
  c1 = c1
  c2 = c2
  t1 = t1
  t2 = t2
  t3 = t3
  NoOne = NoOne
  Agents <- MCAgents
  Callers <- MCCallers
  Tasks <- MCTasks
  MissionTasks <- MCMissionTasks
  Acks <- MCAcks
INVARIANTS
  TypeOK
  OneUnsettledTaskPerAgent
  SavedBeforePublished
  ToldOverMeansSettled
  CheckStaysTrue
PROPERTY DispatchLockReleased
