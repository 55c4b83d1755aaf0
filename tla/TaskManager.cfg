\* Redelivery and restarts: two published tasks, a cache of one, a reconnect and a crash.
SPECIFICATION FairSpec
CONSTANTS
  t1 = t1
  t2 = t2
  t3 = t3
  w1 = w1
  w2 = w2
  NoTask = NoTask
  Tasks <- MCTasks
  Known <- MCKnown
  Workers <- MCWorkers
  MaxTracked = 1
  MaxCopies = 1
  MaxReconnects = 1
  MaxCrashes = 1
CONSTRAINT MCBound
\* Once every message is acknowledged there is nothing left to do.
CHECK_DEADLOCK FALSE
INVARIANTS
  TypeOK
  CacheConsistent
  ExecutedOnceUnlessEvicted
  TasksAreHeld
  OutcomeOnlyIfExecuted
PROPERTY AcceptedIsExecuted
