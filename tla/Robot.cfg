\* Two skill calls, three runs of the task slot, two brake subscribers, two poses.
SPECIFICATION FairSpec
CONSTANTS
  MaxCalls = 2
  Layouts = {l1, l2}
  NoLayout = NoLayout
  MaxActions = 3
  MaxFaults = 1
  Subs = {s1, s2}
  MaxFlips = 3
  Tasks = {t1, t2, t3, t4}
  Known = {t1, t2, t3}
  MayRepeat = {t1}
  Stuck = {t3}
  MaxRuns = 3
  KeepFor = 1
  MaxTime = 3
  MaxPoses = 2
\* The calls, runs and poses of a behaviour are bounded: it ends.
CHECK_DEADLOCK FALSE
INVARIANTS
  DriverSound
  MonitorSound
  SlotSound
  PoseSound
PROPERTY RobotGoesOn
