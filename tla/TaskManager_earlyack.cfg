\* The doc comment of listenNewTask against a redelivery that races Execute.
SPECIFICATION Spec
CONSTANTS
  t1 = t1
  t2 = t2
  t3 = t3
  w1 = w1
  w2 = w2
  NoTask = NoTask
  Tasks <- MCTwo
  Known <- MCKnown
  Workers <- MCWorkers
  MaxTracked = 2
  MaxCopies = 1
  MaxReconnects = 1
  MaxCrashes = 0
SYMMETRY MCSymmetry
\* Once every message is acknowledged there is nothing left to do.
CHECK_DEADLOCK FALSE
INVARIANT HeldUntilExecuted
