\* Streams that overlap; an agent that connects twice, stops or dies while the broker and
\* core lose their connections; registrations that overlap and race edits; starts that die;
\* two cores that migrate one database; every topic of short ids.
SPECIFICATION AllSpec
CONSTANTS
  Slices = {"streams", "presence", "registration", "migrations", "store", "topics"}
  m1 = m1
  m2 = m2
  s1 = s1
  s2 = s2
  s3 = s3
  NoStream = NoStream
  NoMission = NoMission
  Missions <- MCMissions
  Streams <- MCStreams
  Patient <- MCPatient
  Stale = 1
  MaxConns = 2
  MaxCoreCuts = 1
  MaxReports = 1
  AgentIds = {a1, a2}
  MissionIds = {n1}
  BadTopic = {a2}
  MaxRequests = 3
  MaxKeyEdits = 1
  MaxReverts = 1
  MaxFailures = 1
  MaxRows = 1
  OldCore = c1
  NewCore = c2
  MaxStarts = 4
  Words = {"task", "status", "agent"}
  MaxWords = 2
\* Streams, connections, requests, starts and topics of a behaviour are bounded: it ends.
CHECK_DEADLOCK FALSE
INVARIANTS
  TypeOK
  TableHoldsLiveStreams
  PatientMissionIsOnline
  PresenceSound
  RegistrationSound
  CollectionsComeUp
  StoreSound
  TopicsReadBack
PROPERTIES
  GoneGoesOffline
  PresenceFollows
