\* Parsed times at both ends of the range of a duration.
SPECIFICATION Spec
CONSTANTS
  Slices = {"contract"}
  MaxMessages = 4
  NotJSON = {3}
  IngestQueue = 2
  StoreQueue = 2
  BatchSize = 2
  MaxRetries = 1
  a1 = a1
  s1 = s1
  s2 = s2
  s3 = s3
  Agents <- MCAgents
  Signatures <- MCSignatures
  PerAgentCap = 2
  GlobalPerSecond = 1
  MaxRecords = 4
  MaxSecond = 1
  g1 = g1
  g2 = g2
  h1 = h1
  h2 = h2
  NoGroup = NoGroup
  NoSchema = NoSchema
  BadSchema = BadSchema
  Groups <- MCGroups
  Hashes <- MCHashes
  MemberOf <- MCMemberOf
  SchemaOf <- MCSchemaOf
  EnabledIn <- MCEnabledIn
  MaxEdits = 2
  Props = {p, q}
  ContractHashes = {c1}
  NoHash = NoHash
  MaxDuration = 3
  SaneWindow = 1
  MaxTime = 8
  ReceivedAt = 5
  Viewers = {v1, v2}
  Slow = {v2}
  LiveAgents = {a1, a2}
  MaxPublishes = 3
  DefaultLimit = 1
  MaxLimit = 2
  Hour = 2
  BucketWidth = 2
  MaxRows = 3
  MaxClock = 4
\* The payloads and rows of a behaviour are bounded: it ends.
CHECK_DEADLOCK FALSE
INVARIANT MappedTimeIsSane
