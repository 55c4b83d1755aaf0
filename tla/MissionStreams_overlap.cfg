\* A mission is back before its old handler has noticed that it went.
SPECIFICATION Spec
CONSTANTS
  m1 = m1
  m2 = m2
  s1 = s1
  s2 = s2
  s3 = s3
  s4 = s4
  NoStream = NoStream
  NoMission = NoMission
  Missions <- MCMissions
  Streams <- MCStreams
  Patient <- MCNone
\* Once every stream has been used there is nothing left to do.
CHECK_DEADLOCK FALSE
INVARIANT ServedMissionIsOnline
