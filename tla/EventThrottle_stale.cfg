\* A late callback against the window reopened under its name.
SPECIFICATION ThrottleSpec
CONSTANTS
  a1 = a1
  s1 = s1
  s2 = s2
  s3 = s3
  Agents <- MCAgents
  Signatures <- MCTwo
  PerAgentCap = 1
  GlobalPerSecond = 0
  MaxRecords = 4
  MaxSecond = 0
\* After MaxRecords violations and MaxSecond seconds the run is over.
CHECK_DEADLOCK FALSE
INVARIANT SuppressedForTheWindow
