-------------------------- MODULE ConnectionsProofs --------------------------
(***************************************************************************)
(* Theorems about how the parties of the system come to know each other:   *)
(* the databases core finds at its start (StoreMigrations and              *)
(* CollectionMigrations), the credentials an agent or a mission registers  *)
(* for (Registration), the streams of the missions (MissionStreams), who   *)
(* core believes to be online (Presence) and the topics an agent's         *)
(* messages are known by (TopicLayout).                                    *)
(***************************************************************************)
EXTENDS MissionStreams, Presence, Registration, StoreMigrations, CollectionMigrations,
        TopicLayout, FiniteSetTheorems, SequenceLemmas

(* The streams of the missions, however many of them overlap *)

\* One entry of the table, as an invariant of its own is easier to carry through a
\* step than Handlers' set: the listed stream is served, or about to be detached.
Listed(m) ==
  streams[m] # NoStream =>
    /\ streams[m] \in Streams
    /\ handler[streams[m]].pc \in {"recv", "create", "detach"}
    /\ handler[streams[m]].mission = m

\* A handler that is inside StreamMission knows its mission.
HasMission == \A s \in Streams : handler[s].pc \in Entered => handler[s].mission \in Missions

TableInv == TypeOK /\ HasMission /\ \A m \in Missions : Listed(m)

\* The type invariant of the stream table is inductive: every handler and the table
\* hold what they are declared to hold, for any missions and streams.
THEOREM StreamTypeCorrect == Spec => []TypeOK
<1>1. Init => TypeOK
  BY DEF Init, TypeOK
<1>2. TypeOK /\ [Next]_vars => TypeOK'
  <2> SUFFICES ASSUME TypeOK, [Next]_vars PROVE TypeOK'
    OBVIOUS
  <2>1. ASSUME NEW s \in Streams, NEW m \in Missions, Open(s, m) PROVE TypeOK'
    BY <2>1 DEF Open, TypeOK, Entered
  <2>2. ASSUME NEW s \in Streams, Attach(s) PROVE TypeOK'
    BY <2>2 DEF Attach, TypeOK, Entered
  <2>3. ASSUME NEW s \in Streams, RecvCreateTask(s) PROVE TypeOK'
    BY <2>3 DEF RecvCreateTask, TypeOK, Entered
  <2>4. ASSUME NEW s \in Streams, CreateTaskReturns(s) PROVE TypeOK'
    BY <2>4 DEF CreateTaskReturns, TypeOK, Entered
  <2>5. ASSUME NEW s \in Streams, ClientGoes(s) PROVE TypeOK'
    BY <2>5 DEF ClientGoes, TypeOK, Entered
  <2>6. ASSUME NEW s \in Streams, RecvEnds(s) PROVE TypeOK'
    BY <2>6 DEF RecvEnds, TypeOK, Entered
  <2>7. ASSUME NEW s \in Streams, Detach(s) PROVE TypeOK'
    BY <2>7 DEF Detach, TypeOK, Entered
  <2>8. CASE UNCHANGED vars
    BY <2>8 DEF vars, TypeOK, Entered
  <2> QED
    BY <2>1, <2>2, <2>3, <2>4, <2>5, <2>6, <2>7, <2>8 DEF Next, Serve
<1> QED
  BY <1>1, <1>2, PTL DEF Spec

\* TableInv holds initially and is preserved by every step of every handler.
LEMMA TableInvariant == Spec => []TableInv
<1>1. Init => TableInv
  BY DEF Init, TableInv, TypeOK, HasMission, Listed, Entered
<1>2. TableInv /\ TypeOK' /\ [Next]_vars => TableInv'
  <2> SUFFICES ASSUME TableInv, TypeOK', [Next]_vars
               PROVE  HasMission' /\ (\A m \in Missions : Listed(m))'
    BY DEF TableInv
  <2> USE DEF TableInv
  <2>1. ASSUME NEW s \in Streams, NEW m \in Missions, Open(s, m)
        PROVE  HasMission' /\ (\A k \in Missions : Listed(k))'
    BY <2>1 DEF Open, TypeOK, HasMission, Listed, Entered
  <2>2. ASSUME NEW s \in Streams, Attach(s)
        PROVE  HasMission' /\ (\A k \in Missions : Listed(k))'
    BY <2>2, StreamsAssumption DEF Attach, TypeOK, HasMission, Listed, Entered
  <2>3. ASSUME NEW s \in Streams, RecvCreateTask(s)
        PROVE  HasMission' /\ (\A k \in Missions : Listed(k))'
    BY <2>3 DEF RecvCreateTask, TypeOK, HasMission, Listed, Entered
  <2>4. ASSUME NEW s \in Streams, CreateTaskReturns(s)
        PROVE  HasMission' /\ (\A k \in Missions : Listed(k))'
    BY <2>4 DEF CreateTaskReturns, TypeOK, HasMission, Listed, Entered
  <2>5. ASSUME NEW s \in Streams, ClientGoes(s)
        PROVE  HasMission' /\ (\A k \in Missions : Listed(k))'
    BY <2>5 DEF ClientGoes, HasMission, Listed
  <2>6. ASSUME NEW s \in Streams, RecvEnds(s)
        PROVE  HasMission' /\ (\A k \in Missions : Listed(k))'
    BY <2>6 DEF RecvEnds, TypeOK, HasMission, Listed, Entered
  <2>7. ASSUME NEW s \in Streams, Detach(s)
        PROVE  HasMission' /\ (\A k \in Missions : Listed(k))'
    BY <2>7, StreamsAssumption DEF Detach, TypeOK, HasMission, Listed, Entered
  <2>8. CASE UNCHANGED vars
    BY <2>8 DEF vars, HasMission, Listed
  <2> QED
    BY <2>1, <2>2, <2>3, <2>4, <2>5, <2>6, <2>7, <2>8 DEF Next, Serve
<1> QED
  BY <1>1, <1>2, StreamTypeCorrect, PTL DEF Spec

\* Whatever streams overlap, the table lists only streams of the right mission whose
\* handler has not returned (MissionRegistry.GetStream hands out no dead stream).
THEOREM TableListsLiveStreams == Spec => []TableHoldsLiveStreams
<1>1. TableInv => TableHoldsLiveStreams
  BY DEF TableInv, Listed, TableHoldsLiveStreams, Online, Handlers
<1> QED
  BY <1>1, TableInvariant, PTL
-----------------------------------------------------------------------------
\* A patient mission has one handler inside StreamMission at most, and one that is past
\* AttachStream is the one the table lists.
OneHandler ==
  \A s, t \in Streams :
    (/\ handler[s].pc \in Entered /\ handler[t].pc \in Entered
     /\ handler[s].mission \in Patient /\ handler[s].mission = handler[t].mission) => s = t

ServedIsListed ==
  \A s \in Streams :
    (handler[s].pc \in {"recv", "create", "detach"} /\ handler[s].mission \in Patient)
      => streams[handler[s].mission] = s

SingleInv == OneHandler /\ ServedIsListed

\* A mission that opens a stream only once its earlier handler has returned is online
\* whenever a stream of it is served, however the streams of others overlap.
THEOREM PatientIsOnline == Spec => []PatientMissionIsOnline
<1>1. Init => SingleInv
  BY DEF Init, SingleInv, OneHandler, ServedIsListed, Entered
<1>2. TableInv /\ SingleInv /\ [Next]_vars => SingleInv'
  <2> SUFFICES ASSUME TableInv, SingleInv, [Next]_vars PROVE SingleInv'
    OBVIOUS
  <2> USE DEF TableInv, SingleInv
  <2>1. ASSUME NEW s \in Streams, NEW m \in Missions, Open(s, m) PROVE SingleInv'
    <3>1. m \in Patient =>
            \A t \in Streams : handler[t].pc \in Entered => handler[t].mission # m
      BY <2>1 DEF Open, Handlers
    <3> QED
      BY <2>1, <3>1 DEF Open, TypeOK, OneHandler, ServedIsListed, Entered
  <2>2. ASSUME NEW s \in Streams, Attach(s) PROVE SingleInv'
    BY <2>2 DEF Attach, TypeOK, HasMission, OneHandler, ServedIsListed, Entered
  <2>3. ASSUME NEW s \in Streams, RecvCreateTask(s) PROVE SingleInv'
    BY <2>3 DEF RecvCreateTask, TypeOK, OneHandler, ServedIsListed, Entered
  <2>4. ASSUME NEW s \in Streams, CreateTaskReturns(s) PROVE SingleInv'
    BY <2>4 DEF CreateTaskReturns, TypeOK, OneHandler, ServedIsListed, Entered
  <2>5. ASSUME NEW s \in Streams, ClientGoes(s) PROVE SingleInv'
    BY <2>5 DEF ClientGoes, OneHandler, ServedIsListed
  <2>6. ASSUME NEW s \in Streams, RecvEnds(s) PROVE SingleInv'
    BY <2>6 DEF RecvEnds, TypeOK, OneHandler, ServedIsListed, Entered
  <2>7. ASSUME NEW s \in Streams, Detach(s) PROVE SingleInv'
    BY <2>7 DEF Detach, TypeOK, HasMission, OneHandler, ServedIsListed, Entered
  <2>8. CASE UNCHANGED vars
    BY <2>8 DEF vars, OneHandler, ServedIsListed
  <2> QED
    BY <2>1, <2>2, <2>3, <2>4, <2>5, <2>6, <2>7, <2>8 DEF Next, Serve
<1>3. SingleInv => PatientMissionIsOnline
  BY StreamsAssumption
  DEF SingleInv, ServedIsListed, PatientMissionIsOnline, OnlineWhenServed, Online, Handlers, Serving
<1> QED
  BY <1>1, <1>2, <1>3, TableInvariant, PTL DEF Spec
-----------------------------------------------------------------------------
(* The telemetry schema *)

\* What a core at its loop has behind it: the files before this one are recorded, and a
\* file it runs is one of its own.
LoopInv ==
  \A c \in Cores :
    /\ corePc[c] \in {"check", "exec", "record", "commit"} =>
         \A f \in Files : f < file[c] => f \in recorded
    /\ corePc[c] \in {"exec", "record", "commit"} => file[c] \in Embedded(c)

\* The insert of the record lets one transaction per file through to its commit.
CommitInv ==
  /\ \A c \in Cores : At(c, "commit") => file[c] \notin recorded
  /\ \A c, d \in Cores : At(c, "commit") /\ At(d, "commit") /\ c # d => file[c] # file[d]

\* The inductive invariant of the store's start.
StoreInv == StoreSound /\ LoopInv /\ CommitInv
-----------------------------------------------------------------------------
LEMMA StoreInitInv == StoreInit => StoreInv
BY StoreAssumption, SMT
   DEF StoreInit, StoreInv, StoreSound, StoreTypeOK, LoopInv, CommitInv, At, Cores, Files

LEMMA StoreNextInv == StoreInv /\ [StoreNext]_storeVars => StoreInv'
<1> SUFFICES ASSUME StoreInv, [StoreNext]_storeVars PROVE StoreInv'
    OBVIOUS
<1> USE StoreAssumption DEF StoreInv, StoreSound, StoreTypeOK, LoopInv, CommitInv, At, CoreTo, Files
<1>1. ASSUME NEW c \in Cores, Start(c) PROVE StoreInv'
    BY <1>1 DEF Start
<1>2. ASSUME NEW c \in Cores, CheckFile(c) PROVE StoreInv'
    BY <1>2 DEF CheckFile, Embedded
<1>3. ASSUME NEW c \in Cores, ExecFile(c) PROVE StoreInv'
    BY <1>3 DEF ExecFile
<1>4. ASSUME NEW c \in Cores, RecordFile(c) PROVE StoreInv'
    BY <1>4 DEF RecordFile
<1>5. ASSUME NEW c \in Cores, CommitFile(c) PROVE StoreInv'
    <2> USE <1>5 DEF CommitFile
    <2>1. /\ file[c] \in Embedded(c) /\ file[c] \in Files /\ file[c] \notin recorded
          /\ \A f \in Files : f < file[c] => f \in recorded
          /\ \A d \in Cores \ {c} : At(d, "commit") => file[d] # file[c]
        BY DEF Embedded
    <2>2. recorded' = recorded \cup {file[c]} /\ ran' = [ran EXCEPT ![file[c]] = @ + 1]
        OBVIOUS
    <2>3. corePc' = [corePc EXCEPT ![c] = corePc'[c]] /\ corePc'[c] \in {"check", "down"}
        OBVIOUS
    <2>4. file' = [file EXCEPT ![c] = file'[c]] /\ file'[c] \in {file[c], file[c] + 1}
          /\ (corePc'[c] = "check" => file'[c] = file[c] + 1)
        OBVIOUS
    <2>5. policy' \in {NoPolicy, DefaultPolicy} \cup Cores
          /\ (policy' = NoPolicy => policy = NoPolicy /\ file[c] # 1)
        BY DEF DefaultPolicy, NoPolicy
    <2>6. StoreTypeOK'
      <3>0. recorded' \subseteq Files
        BY <2>1, <2>2
      <3>1. ran' \in [Files -> Nat]
        <4>1. ran[file[c]] + 1 \in Nat
            BY <2>1
        <4>2. QED
            BY <2>1, <2>2, <4>1
      <3>4. corePc' \in [Cores -> {"down", "check", "exec", "record", "commit", "remove", "add", "up"}]
        BY <2>1
      <3>2. file' \in [Cores -> 1..3]
        BY <2>1
      <3>3. QED
        BY <3>0, <3>1, <3>2, <3>4, <2>5
    <2>7. \A f \in Files : ran'[f] = IF f \in recorded' THEN 1 ELSE 0
        BY <2>1, <2>2
    <2>8. \A f \in recorded' : 1..f \subseteq recorded'
        BY <2>1, <2>2
    <2>9. LoopInv' /\ CommitInv'
        BY <2>1, <2>2, <2>3, <2>4
    <2>10. /\ \A d \in Cores : corePc'[d] \in {"remove", "add", "up"} => Embedded(d) \subseteq recorded'
           /\ (1 \in recorded' /\ policy' = NoPolicy) => lost' # {}
        BY <2>1, <2>2, <2>3, <2>5
    <2>11. QED
        BY <2>6, <2>7, <2>8, <2>9, <2>10
<1>6. ASSUME NEW c \in Cores, RemoveRetention(c) PROVE StoreInv'
    BY <1>6 DEF RemoveRetention
<1>7. ASSUME NEW c \in Cores, AddRetention(c) PROVE StoreInv'
    BY <1>7 DEF AddRetention
<1>8. ASSUME NEW c \in Cores, Dies(c) PROVE StoreInv'
    BY <1>8 DEF Dies
<1>9. CASE UNCHANGED storeVars
    BY <1>9 DEF storeVars
<1>10. QED
    BY <1>1, <1>2, <1>3, <1>4, <1>5, <1>6, <1>7, <1>8, <1>9 DEF StoreNext

\* Whatever versions of core start against one telemetry database, overlap and die: every
\* migration is committed once and in order, a core is past its migrations only with all of
\* them, and a migrated database is without a retention policy only where a core that
\* removed it (ApplyRetentionPolicy) has not come to adding its own.
THEOREM MigrationsRunOnce == StoreSpec => []StoreSound
<1>1. StoreInv => StoreSound
    BY DEF StoreInv
<1>2. QED
    BY StoreInitInv, StoreNextInv, <1>1, PTL DEF StoreSpec
-----------------------------------------------------------------------------
(* Registration *)

Pcs == Refusals \cup {"none", "body", "exchange", "register", "topic", "password", "answer", "200"}

\* Requests are numbered as they come.
NumberInv ==
  \E n \in 0..MaxRequests : \A r \in Requests : request[r].pc # "none" <=> r <= n

\* What a request has come past: core's configuration, the check of the topic, the list.
PathInv ==
  \A r \in Requests :
    /\ request[r].pc \in {"topic", "password"} => mqtt /\ request[r].id \in AgentIds
    /\ request[r].pc = "password" => request[r].id \notin BadTopic
    /\ (request[r].pc \in {"answer", "200"} /\ request[r].id \in MissionIds) => request[r].id \in DOMAIN missions
    /\ r \in reporting => request[r].pc = "200" /\ request[r].id \in AgentIds

\* Of two requests for an id, unless they overlapped, the earlier was over first.
SerialInv ==
  \A q, r \in Requests :
    (/\ q < r /\ request[r].pc # "none" /\ request[q].id = request[r].id
     /\ ~(q \in overlaps /\ r \in overlaps)) => Over(q)

\* A later request for the id has taken a token.
Superseded(r) ==
  \E q \in Requests : q > r /\ request[q].id = request[r].id /\ Exchanged(q)

\* What a request holds at each point of its way, not only at its end.
Holds(r) ==
  /\ Exchanged(r) => Authenticates(r)
  /\ (request[r].id \in AgentIds /\ request[r].pc \in {"topic", "password", "answer", "200"}) =>
       skills[request[r].id] = r
  /\ (request[r].id \in AgentIds /\ request[r].pc \in {"answer", "200"} /\ mqtt) =>
       passwords[request[r].id] = r
  /\ (Exchanged(r) \/ ~Over(r)) => \A q \in reporting : request[q].id = request[r].id => q = r

\* A request holds it if it overlapped no other call and none has superseded it.
HeldInv == \A r \in Requests \ overlaps : ~Superseded(r) => Holds(r)

\* The inductive invariant of registration.
RegistrationInv ==
  /\ RegistrationTypeOK /\ NumberInv /\ PathInv /\ SerialInv /\ HeldInv
  /\ TokensAreEarned /\ PasswordsAreTopics
-----------------------------------------------------------------------------
LEMMA RegistrationInvIsEnough == RegistrationInv => RegistrationSound
<1> SUFFICES ASSUME RegistrationInv PROVE RegistrationSound
    OBVIOUS
<1>1. AnswersHold
  <2> SUFFICES ASSUME NEW r \in Requests \ overlaps, request[r].pc = "200",
                      \A q \in For(request[r].id) : q > r => ~Exchanged(q)
               PROVE  /\ Authenticates(r)
                      /\ request[r].id \in AgentIds =>
                           skills[request[r].id] = r /\ (mqtt => passwords[request[r].id] = r)
      BY DEF AnswersHold
  <2>1. Exchanged(r)
      BY DEF Exchanged
  <2>2. ~Superseded(r)
      BY DEF Superseded, For, Exchanged
  <2>3. QED
      BY <2>1, <2>2 DEF RegistrationInv, HeldInv, Holds
<1>2. AnsweredMissionIsListed
    BY DEF AnsweredMissionIsListed, RegistrationInv, PathInv
<1>3. QED
    BY <1>1, <1>2 DEF RegistrationInv, RegistrationSound

LEMMA RegistrationInitInv == RegistrationInit => RegistrationInv
<1> SUFFICES ASSUME RegistrationInit PROVE RegistrationInv
    OBVIOUS
<1> USE DEF RegistrationInit
<1>1. (CHOOSE i \in Ids : TRUE) \in Ids
    BY RegistrationAssumption DEF Ids
<1>2. RegistrationTypeOK
    BY <1>1, RegistrationAssumption DEF RegistrationTypeOK, None, Ids
<1>3. \A r \in Requests : request[r].pc = "none" /\ ~Exchanged(r) /\ Over(r)
    BY DEF Exchanged, Over
<1>4. NumberInv
    BY <1>3, RegistrationAssumption DEF NumberInv, Requests
<1>5. PathInv /\ SerialInv /\ HeldInv
    BY <1>3 DEF PathInv, SerialInv, HeldInv, Holds, Superseded
<1>6. TokensAreEarned /\ PasswordsAreTopics
    BY DEF TokensAreEarned, PasswordsAreTopics
<1>7. QED
    BY <1>2, <1>4, <1>5, <1>6 DEF RegistrationInv

\* The number of requests is the number of the last.
LEMMA StartedIsLast ==
  ASSUME NumberInv
  PROVE  Started \in 0..MaxRequests /\ \A r \in Requests : request[r].pc # "none" <=> r <= Started
<1>1. PICK n \in 0..MaxRequests : \A r \in Requests : request[r].pc # "none" <=> r <= n
    BY DEF NumberInv
<1>2. {r \in Requests : request[r].pc # "none"} = 1..n
    BY <1>1, RegistrationAssumption DEF Requests
<1>3. Started = n
  <2>1. n \in Int /\ n >= 0
      BY RegistrationAssumption
  <2>2. Cardinality(1..n) = IF 1 > n THEN 0 ELSE n - 1 + 1
      BY <2>1, FS_Interval
  <2>3. Started = Cardinality(1..n)
      BY <1>2 DEF Started
  <2>4. QED
      BY <2>1, <2>2, <2>3
<1>4. QED
    BY <1>1, <1>3

\* What no step of request r to p changes: ids, and what is over or has taken its token.
Frame(r, p) ==
  /\ request' \in [Requests -> [id : Ids, pc : Pcs]]
  /\ request'[r].pc = p
  /\ \A q \in Requests : request'[q].id = request[q].id /\ (q # r => request'[q].pc = request[q].pc)
  /\ \A q \in Requests : (request'[q].pc = "none") <=> (request[q].pc = "none")
  /\ \A q \in Requests : Over(q) => Over(q)'
  /\ \A q \in Requests : Exchanged(q) => Exchanged(q)'
  /\ \A q \in Requests : q # r => (Over(q)' => Over(q)) /\ (Exchanged(q)' => Exchanged(q))
  /\ \A q \in Requests : Superseded(q) => Superseded(q)'

LEMMA Moves ==
  ASSUME RegistrationTypeOK, NumberInv, NEW r \in Requests, NEW p \in Pcs, p # "none",
         ~Over(r), Goes(r, p), Exchanged(r) => Exchanged(r)'
  PROVE  Frame(r, p) /\ NumberInv'
<1>1. request \in [Requests -> [id : Ids, pc : Pcs]]
    BY DEF RegistrationTypeOK, Pcs
<1>2. /\ request' \in [Requests -> [id : Ids, pc : Pcs]]
      /\ \A q \in Requests : request'[q].id = request[q].id /\ (q # r => request'[q].pc = request[q].pc)
      /\ request'[r].pc = p
    BY <1>1 DEF Goes
<1>3. \A q \in Requests : (request'[q].pc = "none") <=> (request[q].pc = "none")
    BY <1>2 DEF Over
<1>4. NumberInv'
    BY <1>3 DEF NumberInv
<1>5. \A q \in Requests : Over(q) => Over(q)'
    BY <1>2 DEF Over
<1>6. \A q \in Requests : Exchanged(q) => Exchanged(q)'
    BY <1>2 DEF Exchanged
<1>7. \A q \in Requests : Superseded(q) => Superseded(q)'
    BY <1>2, <1>6 DEF Superseded
<1>8. \A q \in Requests : q # r => (Over(q)' => Over(q)) /\ (Exchanged(q)' => Exchanged(q))
    BY <1>2 DEF Over, Exchanged
<1>9. QED
    BY <1>2, <1>3, <1>4, <1>5, <1>6, <1>7, <1>8 DEF Frame

\* The order of requests for one id outlives every step of a request.
LEMMA SerialStays ==
  ASSUME SerialInv, NEW r \in Requests, NEW p, Frame(r, p), overlaps' = overlaps
  PROVE  SerialInv'
BY DEF SerialInv, Frame

\* A request at work is the last for its id, for one that overlapped nothing.
LEMMA LaterOnly ==
  ASSUME SerialInv, NEW r \in Requests, ~Over(r), NEW k \in Requests \ overlaps, k # r,
         request[k].pc # "none", request[k].id = request[r].id
  PROVE  k < r
BY DEF SerialInv, Requests

\* A step that only moves a request on, taking nothing and coming to nothing it does not
\* hold already, keeps the invariant.
LEMMA OnlyMoves ==
  ASSUME RegistrationInv, NEW r \in Requests, NEW p \in Pcs, p # "none", ~Over(r), Goes(r, p),
         UNCHANGED <<keys, tokens, passwords, skills, missions, edits, mqtt, reporting, overlaps>>,
         Exchanged(r) <=> Exchanged(r)',
         p \in {"topic", "password"} => mqtt /\ request[r].id \in AgentIds,
         p = "password" => request[r].id \notin BadTopic,
         (p \in {"answer", "200"} /\ request[r].id \in MissionIds) => request[r].id \in DOMAIN missions,
         (request[r].id \in AgentIds /\ p \in {"topic", "password", "answer", "200"}) =>
           request[r].pc \in {"topic", "password", "answer", "200"},
         (request[r].id \in AgentIds /\ p \in {"answer", "200"}) => request[r].pc \in {"answer", "200"}
  PROVE  RegistrationInv'
<1>0. RegistrationTypeOK /\ NumberInv /\ PathInv /\ SerialInv /\ HeldInv /\ TokensAreEarned /\ PasswordsAreTopics
    BY DEF RegistrationInv
<1>1. Frame(r, p) /\ NumberInv'
    BY <1>0, Moves
<1>2. RegistrationTypeOK'
    BY <1>0, <1>1 DEF RegistrationTypeOK, Pcs, Frame
<1>3. PathInv'
    BY <1>0, <1>1 DEF PathInv, Frame, Over
<1>4. SerialInv'
    BY <1>0, <1>1, SerialStays
<1>5. HeldInv'
  <2> SUFFICES ASSUME NEW k \in Requests, k \notin overlaps, ~Superseded(k)' PROVE Holds(k)'
      BY DEF HeldInv
  <2>1. Holds(k) /\ (Exchanged(k)' <=> Exchanged(k))
      BY <1>0, <1>1 DEF HeldInv, Frame
  <2>2. CASE k = r
      BY <2>1, <2>2, <1>0, <1>1 DEF Holds, Authenticates, Frame, RegistrationTypeOK
  <2>3. CASE k # r
      BY <2>1, <2>3, <1>0, <1>1 DEF Holds, Authenticates, Frame, RegistrationTypeOK
  <2>4. QED
      BY <2>2, <2>3
<1>6. TokensAreEarned' /\ PasswordsAreTopics'
  <2>1. \A i \in Ids : tokens[i] # None => tokens[i] \in Requests
      BY <1>0, RegistrationAssumption DEF RegistrationTypeOK, None, Requests
  <2>2. QED
      BY <1>0, <1>1, <2>1 DEF TokensAreEarned, PasswordsAreTopics, Frame
<1>7. QED
    BY <1>1, <1>2, <1>3, <1>4, <1>5, <1>6 DEF RegistrationInv

\* Every step of registration keeps its invariant.
LEMMA RegistrationNextInv == RegistrationInv /\ [RegistrationNext]_registrationVars => RegistrationInv'
<1> SUFFICES ASSUME RegistrationInv, [RegistrationNext]_registrationVars PROVE RegistrationInv'
    OBVIOUS
<1> USE RegistrationAssumption
<1>0. RegistrationTypeOK /\ NumberInv /\ PathInv /\ SerialInv /\ HeldInv /\ TokensAreEarned /\ PasswordsAreTopics
    BY DEF RegistrationInv
<1>t. request \in [Requests -> [id : Ids, pc : Pcs]]
    BY <1>0 DEF RegistrationTypeOK, Pcs
<1>d. \A r \in Requests : request[r].id \in MissionIds <=> request[r].id \notin AgentIds
    BY <1>t DEF Ids
<1>1. ASSUME NEW id \in Ids, BeginRegister(id) PROVE RegistrationInv'
  <2>p. PICK n \in Requests : n = Started + 1
      BY <1>0, <1>1, StartedIsLast DEF BeginRegister, Requests
  <2> DEFINE new == [id |-> id, pc |-> IF id \in MissionIds THEN "body" ELSE "exchange"]
  <2>1. n \in Requests /\ \A r \in Requests : request[r].pc # "none" <=> r < n
      BY <1>0, <2>p, StartedIsLast DEF Requests
  <2>2. request' = [request EXCEPT ![n] = new] /\ new \in [id : Ids, pc : Pcs]
      BY <1>1, <2>p DEF BeginRegister, Pcs
  <2>3. /\ overlaps' = overlaps \cup Unanswered(id) \cup
              (IF Unanswered(id) = {} /\ For(id) \cap reporting = {} THEN {} ELSE {n})
        /\ UNCHANGED <<keys, tokens, passwords, skills, missions, edits, mqtt, reporting>>
      BY <1>1, <2>p DEF BeginRegister
  <2>h. n \in Nat /\ Requests \subseteq Nat
      BY <2>1 DEF Requests
  <2>4. /\ request' \in [Requests -> [id : Ids, pc : Pcs]]
        /\ \A q \in Requests : q # n => request'[q] = request[q]
        /\ request'[n].id = id /\ request'[n].pc \in {"body", "exchange"}
        /\ (id \in MissionIds <=> request'[n].pc = "body")
      BY <1>t, <2>1, <2>2
  <2>0. request[n].pc = "none"
      BY <2>1, <2>h
  <2>5. \A q \in Requests : Exchanged(q)' <=> Exchanged(q)
      BY <2>0, <2>1, <2>4 DEF Exchanged
  <2>6. \A q \in Requests : q # n => (Over(q)' <=> Over(q))
      BY <2>4 DEF Over
  <2>7. Over(n) /\ ~Over(n)' /\ ~Exchanged(n)
      BY <2>0, <2>1, <2>4 DEF Over, Exchanged, Refusals
  <2>8. RegistrationTypeOK'
      BY <1>0, <2>1, <2>3, <2>4 DEF RegistrationTypeOK, Pcs, Unanswered, For
  <2>9. NumberInv'
    <3>1. n \in 0..MaxRequests /\ \A r \in Requests : request'[r].pc # "none" <=> r <= n
        BY <2>1, <2>4, <2>h DEF Requests
    <3>2. QED
        BY <3>1 DEF NumberInv
  <2>10. PathInv'
      BY <1>0, <2>1, <2>3, <2>4, <2>h DEF PathInv
  <2>11. SerialInv'
      BY <1>0, <2>1, <2>3, <2>4, <2>6, <2>7, <2>h DEF SerialInv, Unanswered, For
  <2>12. HeldInv'
    <3> SUFFICES ASSUME NEW r \in Requests, r \notin overlaps', ~Superseded(r)' PROVE Holds(r)'
        BY DEF HeldInv
    <3>1. CASE r = n
        BY <3>1, <1>0, <2>1, <2>3, <2>4, <2>5, <2>7, <2>h DEF PathInv, For, RegistrationTypeOK, Holds
    <3>2. CASE r # n
      <4>1. Superseded(r) => Superseded(r)'
          BY <3>2, <2>1, <2>4, <2>5, <2>7, <2>h DEF Superseded
      <4>2. \A q \in reporting : q # n
          BY <1>0, <2>1, <2>h DEF PathInv, RegistrationTypeOK
      <4>3. QED
          BY <1>0, <3>2, <4>1, <4>2, <2>3, <2>4, <2>5, <2>6 DEF HeldInv, Holds, Authenticates, RegistrationTypeOK
    <3>3. QED
        BY <3>1, <3>2
  <2>13. TokensAreEarned' /\ PasswordsAreTopics'
    <3>1. \A i \in Ids : tokens[i] # None => tokens[i] \in Requests
        BY <1>0 DEF RegistrationTypeOK, None, Requests
    <3>2. QED
        BY <1>0, <3>1, <2>3, <2>4, <2>5, <2>7 DEF TokensAreEarned, PasswordsAreTopics
  <2>14. QED
      BY <2>8, <2>9, <2>10, <2>11, <2>12, <2>13 DEF RegistrationInv
<1>2. ASSUME NEW r \in Requests, ExchangeRegToken(r) PROVE RegistrationInv'
  <2>1. /\ request[r].pc = "exchange" /\ ~Over(r) /\ ~Exchanged(r)
        /\ UNCHANGED <<keys, passwords, skills, missions, edits, mqtt, reporting, overlaps>>
      BY <1>2 DEF ExchangeRegToken, Over, Exchanged, Refusals
  <2>2. PICK p \in {"401", "register", "body"} :
          /\ Goes(r, p)
          /\ p = "401" => tokens' = tokens
          /\ p # "401" => tokens' = [tokens EXCEPT ![request[r].id] = r] /\ (p = "register" <=> request[r].id \in MissionIds)
      BY <1>2 DEF ExchangeRegToken
  <2>3. Frame(r, p) /\ NumberInv'
      BY <1>0, <2>1, <2>2, Moves DEF Pcs, Refusals
  <2>4. (p = "401" => ~Exchanged(r)') /\ (p # "401" => Exchanged(r)')
      BY <2>2, <2>3 DEF Exchanged, Frame
  <2>5. RegistrationTypeOK'
    <3>1. r \in 0..MaxRequests
        BY DEF Requests
    <3>2. tokens' \in [Ids -> 0..MaxRequests]
        BY <1>0, <1>t, <2>2, <3>1 DEF RegistrationTypeOK
    <3>3. QED
        BY <1>0, <3>2, <2>1, <2>3 DEF RegistrationTypeOK, Pcs, Frame
  <2>6. PathInv'
      BY <1>0, <2>1, <2>2, <2>3 DEF PathInv, Frame
  <2>7. HeldInv'
    <3> SUFFICES ASSUME NEW k \in Requests, k \notin overlaps, ~Superseded(k)' PROVE Holds(k)'
        BY <2>1 DEF HeldInv
    <3>1. ~Superseded(k)
        BY <2>3 DEF Frame
    <3>2. CASE k = r
        BY <3>1, <3>2, <1>0, <1>t, <2>1, <2>2, <2>3, <2>4
           DEF HeldInv, Holds, Authenticates, Frame, PathInv, RegistrationTypeOK
    <3>3. CASE k # r /\ ~(p # "401" /\ request[k].id = request[r].id)
        BY <3>1, <3>3, <1>0, <1>t, <2>1, <2>2, <2>3, <2>4
           DEF HeldInv, Holds, Authenticates, Frame, PathInv, RegistrationTypeOK
    <3>4. CASE k # r /\ p # "401" /\ request[k].id = request[r].id
      <4>1. request[k].pc = "none"
          BY <3>4, <1>0, <2>1, <2>3, <2>4, LaterOnly DEF Superseded, Frame
      <4>2. QED
          BY <3>4, <4>1, <2>3 DEF Holds, Frame, Exchanged, Over
    <3>5. QED
        BY <3>2, <3>3, <3>4
  <2>8. TokensAreEarned' /\ PasswordsAreTopics'
    <3>1. \A i \in Ids : tokens[i] # None => tokens[i] \in Requests
        BY <1>0 DEF RegistrationTypeOK, None, Requests
    <3>2. QED
        BY <1>0, <1>t, <3>1, <2>1, <2>2, <2>3, <2>4 DEF TokensAreEarned, PasswordsAreTopics, Frame, RegistrationTypeOK
  <2>9. QED
      BY <1>0, <2>1, <2>3, <2>5, <2>6, <2>7, <2>8, SerialStays DEF RegistrationInv
<1>3. ASSUME NEW r \in Requests, DecodeBody(r) PROVE RegistrationInv'
  <2>1. request[r].pc = "body" /\ ~Over(r)
      BY <1>3 DEF DecodeBody, Over, Refusals
  <2>2. PICK p \in {"400", "exchange", "register"} :
          Goes(r, p) /\ (p # "400" => (p = "exchange" <=> request[r].id \in MissionIds))
      BY <1>3 DEF DecodeBody
  <2>3. Exchanged(r) <=> Exchanged(r)'
      BY <1>t, <2>1, <2>2 DEF Exchanged, Goes
  <2>4. QED
      BY <1>3, <2>1, <2>2, <2>3, OnlyMoves DEF DecodeBody, Pcs, Refusals
<1>4. ASSUME NEW r \in Requests, CheckTopic(r) PROVE RegistrationInv'
  <2>1. /\ request[r].pc = "topic" /\ ~Over(r) /\ request[r].id \in AgentIds /\ mqtt
        /\ request[r].id \notin MissionIds
      BY <1>0, <1>4, <1>d DEF CheckTopic, Over, Refusals, PathInv
  <2>2. PICK p \in {"500", "password"} : Goes(r, p) /\ (p = "password" => request[r].id \notin BadTopic)
      BY <1>4 DEF CheckTopic
  <2>3. Exchanged(r) <=> Exchanged(r)'
      BY <1>t, <2>1, <2>2 DEF Exchanged, Goes
  <2>4. QED
      BY <1>4, <2>1, <2>2, <2>3, OnlyMoves DEF CheckTopic, Pcs, Refusals
<1>5. ASSUME NEW r \in Requests, Answer(r) PROVE RegistrationInv'
  <2>1. request[r].pc = "answer" /\ ~Over(r) /\ Goes(r, "200")
      BY <1>5 DEF Answer, Over, Refusals
  <2>2. Exchanged(r) <=> Exchanged(r)'
      BY <1>t, <2>1 DEF Exchanged, Goes
  <2>3. QED
      BY <1>0, <1>5, <2>1, <2>2, OnlyMoves DEF Answer, Pcs, PathInv
<1>6. ASSUME NEW r \in Requests, RegisterAgent(r) PROVE RegistrationInv'
  <2>1. /\ request[r].pc = "register" /\ ~Over(r) /\ Exchanged(r) /\ request[r].id \in AgentIds
        /\ request[r].id \notin MissionIds
        /\ UNCHANGED <<keys, tokens, passwords, missions, edits, mqtt, reporting, overlaps>>
        /\ skills' = [skills EXCEPT ![request[r].id] = r]
      BY <1>6, <1>d DEF RegisterAgent, Over, Exchanged, Refusals
  <2>2. PICK p \in {"topic", "answer"} : Goes(r, p) /\ (p = "topic" <=> mqtt)
      BY <1>6 DEF RegisterAgent
  <2>4. Exchanged(r)'
      BY <1>t, <2>1, <2>2 DEF Exchanged, Goes
  <2>3. Frame(r, p) /\ NumberInv'
      BY <1>0, <2>1, <2>2, <2>4, Moves DEF Pcs, Refusals
  <2>5. RegistrationTypeOK'
    <3>1. r \in 0..MaxRequests
        BY DEF Requests
    <3>2. skills' \in [AgentIds -> 0..MaxRequests]
        BY <1>0, <1>t, <2>1, <3>1 DEF RegistrationTypeOK
    <3>3. QED
        BY <1>0, <3>2, <2>1, <2>3 DEF RegistrationTypeOK, Pcs, Frame
  <2>6. PathInv'
      BY <1>0, <2>1, <2>2, <2>3 DEF PathInv, Frame
  <2>7. HeldInv'
    <3> SUFFICES ASSUME NEW k \in Requests, k \notin overlaps, ~Superseded(k)' PROVE Holds(k)'
        BY <2>1 DEF HeldInv
    <3>1. ~Superseded(k) /\ Holds(k)
        BY <1>0, <2>3 DEF Frame, HeldInv
    <3>2. CASE k = r
        BY <3>1, <3>2, <1>0, <1>t, <2>1, <2>2, <2>3, <2>4
           DEF Holds, Authenticates, Frame, PathInv, RegistrationTypeOK
    <3>3. CASE k # r /\ request[k].id # request[r].id
        BY <3>1, <3>3, <1>0, <1>t, <2>1, <2>2, <2>3, <2>4
           DEF Holds, Authenticates, Frame, PathInv, RegistrationTypeOK
    <3>4. CASE k # r /\ request[k].id = request[r].id
      <4>1. request[k].pc = "none"
          BY <3>4, <1>0, <2>1, <2>3, <2>4, LaterOnly DEF Superseded, Frame
      <4>2. QED
          BY <3>4, <4>1, <2>3 DEF Holds, Frame, Exchanged, Over
    <3>5. QED
        BY <3>2, <3>3, <3>4
  <2>8. TokensAreEarned' /\ PasswordsAreTopics'
    <3>1. \A i \in Ids : tokens[i] # None => tokens[i] \in Requests
        BY <1>0 DEF RegistrationTypeOK, None, Requests
    <3>2. QED
        BY <1>0, <1>t, <3>1, <2>1, <2>2, <2>3, <2>4 DEF TokensAreEarned, PasswordsAreTopics, Frame, RegistrationTypeOK, PathInv
  <2>9. QED
      BY <1>0, <2>1, <2>3, <2>5, <2>6, <2>7, <2>8, SerialStays DEF RegistrationInv
<1>7. ASSUME NEW r \in Requests, RegisterMission(r) PROVE RegistrationInv'
  <2>1. /\ request[r].pc = "register" /\ ~Over(r) /\ Exchanged(r) /\ request[r].id \in MissionIds
        /\ request[r].id \notin AgentIds /\ Goes(r, "answer")
        /\ UNCHANGED <<keys, tokens, passwords, skills, edits, mqtt, reporting, overlaps>>
        /\ DOMAIN missions' = DOMAIN missions \cup {request[r].id}
        /\ \A m \in DOMAIN missions' : missions'[m] \in {edits} \cup {missions[i] : i \in DOMAIN missions}
      BY <1>7, <1>d DEF RegisterMission, Over, Exchanged, Refusals
  <2>2. Exchanged(r)'
      BY <1>t, <2>1 DEF Exchanged, Goes
  <2>3. Frame(r, "answer") /\ NumberInv'
      BY <1>0, <2>1, <2>2, Moves DEF Pcs
  <2>5. RegistrationTypeOK'
    <3>1. DOMAIN missions' \subseteq MissionIds /\ \A m \in DOMAIN missions' : missions'[m] \in 0..MaxKeyEdits
        BY <1>0, <2>1 DEF RegistrationTypeOK
    <3>2. QED
        BY <1>0, <3>1, <2>1, <2>3 DEF RegistrationTypeOK, Pcs, Frame
  <2>6. PathInv'
      BY <1>0, <2>1, <2>3 DEF PathInv, Frame
  <2>7. HeldInv'
    <3> SUFFICES ASSUME NEW k \in Requests, k \notin overlaps, ~Superseded(k)' PROVE Holds(k)'
        BY <2>1 DEF HeldInv
    <3>1. ~Superseded(k) /\ Holds(k)
        BY <1>0, <2>3 DEF Frame, HeldInv
    <3>2. CASE k = r
        BY <1>0, <3>1, <3>2, <2>1, <2>2, <2>3 DEF Holds, Authenticates, Frame, RegistrationTypeOK
    <3>3. CASE k # r
        BY <1>0, <3>1, <3>3, <2>1, <2>2, <2>3 DEF Holds, Authenticates, Frame, RegistrationTypeOK
    <3>4. QED
        BY <3>2, <3>3
  <2>8. TokensAreEarned' /\ PasswordsAreTopics'
    <3>1. \A i \in Ids : tokens[i] # None => tokens[i] \in Requests
        BY <1>0 DEF RegistrationTypeOK, None, Requests
    <3>2. QED
        BY <1>0, <3>1, <2>1, <2>3 DEF TokensAreEarned, PasswordsAreTopics, Frame
  <2>9. QED
      BY <1>0, <2>1, <2>3, <2>5, <2>6, <2>7, <2>8, SerialStays DEF RegistrationInv
<1>8. ASSUME NEW r \in Requests, IssueMQTTCredentials(r) PROVE RegistrationInv'
  <2>1. /\ request[r].pc = "password" /\ ~Over(r) /\ Exchanged(r) /\ request[r].id \in AgentIds
        /\ request[r].id \notin MissionIds
        /\ UNCHANGED <<keys, tokens, skills, missions, edits, mqtt, reporting, overlaps>>
        /\ passwords' = [passwords EXCEPT ![request[r].id] = r]
      BY <1>0, <1>8, <1>d DEF IssueMQTTCredentials, Over, Exchanged, Refusals, PathInv
  <2>2. Goes(r, "answer")
      BY <1>8 DEF IssueMQTTCredentials
  <2>4. Exchanged(r)'
      BY <1>t, <2>1, <2>2 DEF Exchanged, Goes
  <2>3. Frame(r, "answer") /\ NumberInv'
      BY <1>0, <2>1, <2>2, <2>4, Moves DEF Pcs, Refusals
  <2>5. RegistrationTypeOK'
    <3>1. r \in 0..MaxRequests
        BY DEF Requests
    <3>2. passwords' \in [AgentIds -> 0..MaxRequests]
        BY <1>0, <1>t, <2>1, <3>1 DEF RegistrationTypeOK
    <3>3. QED
        BY <1>0, <3>2, <2>1, <2>3 DEF RegistrationTypeOK, Pcs, Frame
  <2>6. PathInv'
      BY <1>0, <2>1, <2>2, <2>3 DEF PathInv, Frame
  <2>7. HeldInv'
    <3> SUFFICES ASSUME NEW k \in Requests, k \notin overlaps, ~Superseded(k)' PROVE Holds(k)'
        BY <2>1 DEF HeldInv
    <3>1. ~Superseded(k) /\ Holds(k)
        BY <1>0, <2>3 DEF Frame, HeldInv
    <3>2. CASE k = r
        BY <3>1, <3>2, <1>0, <1>t, <2>1, <2>2, <2>3, <2>4
           DEF Holds, Authenticates, Frame, PathInv, RegistrationTypeOK
    <3>3. CASE k # r /\ request[k].id # request[r].id
        BY <3>1, <3>3, <1>0, <1>t, <2>1, <2>2, <2>3, <2>4
           DEF Holds, Authenticates, Frame, PathInv, RegistrationTypeOK
    <3>4. CASE k # r /\ request[k].id = request[r].id
      <4>1. request[k].pc = "none"
          BY <3>4, <1>0, <2>1, <2>3, <2>4, LaterOnly DEF Superseded, Frame
      <4>2. QED
          BY <3>4, <4>1, <2>3 DEF Holds, Frame, Exchanged, Over
    <3>5. QED
        BY <3>2, <3>3, <3>4
  <2>8. TokensAreEarned' /\ PasswordsAreTopics'
    <3>1. \A i \in Ids : tokens[i] # None => tokens[i] \in Requests
        BY <1>0 DEF RegistrationTypeOK, None, Requests
    <3>2. QED
        BY <1>0, <1>t, <3>1, <2>1, <2>2, <2>3, <2>4 DEF TokensAreEarned, PasswordsAreTopics, Frame, RegistrationTypeOK, PathInv
  <2>9. QED
      BY <1>0, <2>1, <2>3, <2>5, <2>6, <2>7, <2>8, SerialStays DEF RegistrationInv
<1>9. ASSUME NEW r \in Requests, BeginReport(r) PROVE RegistrationInv'
  <2>1. /\ request[r].pc = "200" /\ request[r].id \in AgentIds /\ Authenticates(r)
        /\ reporting' = reporting \cup {r} /\ overlaps' = overlaps \cup Unanswered(request[r].id)
        /\ UNCHANGED <<keys, tokens, passwords, skills, missions, edits, mqtt, request>>
      BY <1>9 DEF BeginReport
  <2>2. \A q \in Requests : (Over(q)' <=> Over(q)) /\ (Exchanged(q)' <=> Exchanged(q)) /\ (Superseded(q)' <=> Superseded(q))
      BY <2>1 DEF Over, Exchanged, Superseded
  <2>3. RegistrationTypeOK'
      BY <1>0, <2>1 DEF RegistrationTypeOK, Unanswered, For
  <2>4. NumberInv' /\ PathInv' /\ SerialInv' /\ TokensAreEarned' /\ PasswordsAreTopics'
      BY <1>0, <2>1, <2>2 DEF NumberInv, PathInv, SerialInv, TokensAreEarned, PasswordsAreTopics, Over, Exchanged
  <2>5. HeldInv'
    <3> SUFFICES ASSUME NEW k \in Requests, k \notin overlaps', ~Superseded(k)' PROVE Holds(k)'
        BY DEF HeldInv
    <3>1. Holds(k)
        BY <1>0, <2>1, <2>2 DEF HeldInv
    <3>2. ASSUME request[r].id = request[k].id, Exchanged(k) \/ ~Over(k) PROVE r = k
        BY <3>1, <3>2, <2>1 DEF Holds, Authenticates, Unanswered, For, Over
    <3>3. QED
        BY <3>1, <3>2, <2>1, <2>2 DEF Holds, Authenticates
  <2>6. QED
      BY <2>3, <2>4, <2>5 DEF RegistrationInv
<1>10. ASSUME NEW r \in Requests, ReportSkills(r) PROVE RegistrationInv'
  <2>1. /\ r \in reporting /\ reporting' = reporting \ {r} /\ request[r].id \in AgentIds
        /\ skills' \in {skills, [skills EXCEPT ![request[r].id] = r]}
        /\ UNCHANGED <<keys, tokens, passwords, missions, edits, mqtt, request, overlaps>>
      BY <1>0, <1>10 DEF ReportSkills, PathInv
  <2>2. \A q \in Requests : (Over(q)' <=> Over(q)) /\ (Exchanged(q)' <=> Exchanged(q)) /\ (Superseded(q)' <=> Superseded(q))
      BY <2>1 DEF Over, Exchanged, Superseded
  <2>3. RegistrationTypeOK'
    <3>1. r \in 0..MaxRequests
        BY DEF Requests
    <3>2. skills' \in [AgentIds -> 0..MaxRequests]
        BY <1>0, <2>1, <3>1 DEF RegistrationTypeOK
    <3>3. QED
        BY <1>0, <2>1, <3>2 DEF RegistrationTypeOK
  <2>4. NumberInv' /\ PathInv' /\ SerialInv' /\ TokensAreEarned' /\ PasswordsAreTopics'
      BY <1>0, <2>1, <2>2 DEF NumberInv, PathInv, SerialInv, TokensAreEarned, PasswordsAreTopics, Over, Exchanged
  <2>5. HeldInv'
    <3> SUFFICES ASSUME NEW k \in Requests, k \notin overlaps, ~Superseded(k)' PROVE Holds(k)'
        BY <2>1 DEF HeldInv
    <3>1. Holds(k)
        BY <1>0, <2>1, <2>2 DEF HeldInv
    <3>2. ASSUME request[r].id = request[k].id, Exchanged(k) PROVE r = k
        BY <3>1, <3>2, <2>1 DEF Holds
    <3>3. request[k].pc \in {"topic", "password", "answer", "200"} /\ request[k].id \in AgentIds => Exchanged(k)
        BY <1>d DEF Exchanged
    <3>4. ASSUME request[k].pc \in {"topic", "password", "answer", "200"}, request[k].id \in AgentIds,
                 skills[request[k].id] = k
          PROVE  skills'[request[k].id] = k
        BY <1>0, <3>2, <3>3, <3>4, <2>1 DEF RegistrationTypeOK
    <3>5. QED
        BY <3>1, <3>4, <2>1, <2>2 DEF Holds, Authenticates
  <2>6. QED
      BY <2>3, <2>4, <2>5 DEF RegistrationInv
<1>11. ASSUME NEW now \in SUBSET Ids, ResetRegTokens(now) PROVE RegistrationInv'
  <2>1. /\ keys' \subseteq Ids /\ edits' \in 0..MaxKeyEdits
        /\ UNCHANGED <<tokens, passwords, skills, missions, mqtt, request, reporting, overlaps>>
      BY <1>0, <1>11 DEF ResetRegTokens, RegistrationTypeOK
  <2>2. \A q \in Requests : (Over(q)' <=> Over(q)) /\ (Exchanged(q)' <=> Exchanged(q)) /\ (Superseded(q)' <=> Superseded(q))
      BY <2>1 DEF Over, Exchanged, Superseded
  <2>3. QED
      BY <1>0, <2>1, <2>2
         DEF RegistrationInv, RegistrationTypeOK, NumberInv, PathInv, SerialInv, HeldInv, Holds, Authenticates,
             TokensAreEarned, PasswordsAreTopics, Over, Exchanged
<1>12. CASE UNCHANGED registrationVars
    BY <1>0, <1>12
       DEF registrationVars, RegistrationInv, RegistrationTypeOK, NumberInv, PathInv, SerialInv, HeldInv, Holds,
           Authenticates, TokensAreEarned, PasswordsAreTopics, Over, Exchanged, Superseded
<1>13. QED
    BY <1>1, <1>2, <1>3, <1>4, <1>5, <1>6, <1>7, <1>8, <1>9, <1>10, <1>11, <1>12 DEF RegistrationNext

\* However many requests, repeats and edits of the collections race: the last registration
\* that took a token and overlapped no other call for its id holds token, skills and broker
\* password of the same exchange once it is answered; a token authenticates only the id whose
\* key was exchanged for it (ExchangeRegToken); no password goes to an id that is no topic
\* segment (IssueMQTTCredentials); and an answered mission is registered.
THEOREM CredentialsAreSound == RegistrationSpec => []RegistrationSound
<1>1. QED
    BY RegistrationInitInv, RegistrationNextInv, RegistrationInvIsEnough, PTL DEF RegistrationSpec
-----------------------------------------------------------------------------
(* Presence *)

Events == AliveEvents \cup {"offline", "schema"}            \* what the agent publishes
ToldEvents == AliveEvents \cup {"offline", "telemetry"}     \* what reaches core

Has(s, events) == \E i \in 1..Len(s) : s[i] \in events

\* Nothing that marks the agent alive comes after an "offline".
OfflineEnds(s) ==
  \A i, j \in 1..Len(s) : (i < j /\ s[i] = "offline") => s[j] \notin AliveEvents

\* No event is on its way, or the last one is an "offline".
Quiet(s) == \A i \in 1..Len(s) : s[i] = "telemetry"
OfflineIsLast(s) ==
  \E i \in 1..Len(s) : s[i] = "offline" /\ \A j \in 1..Len(s) : j > i => s[j] = "telemetry"

\* Every connection so far has its handleConnect, one of which announces the agent, and a
\* running agent says no "offline".
HooksInv ==
  /\ OneAnnounces
  /\ \A k \in Conns : hook[k] = "none" <=> k > conns
  /\ link = "on" => conns \in Conns
  /\ stopping = "no" => ~Has(outbox, {"offline"})

\* What the handleConnect of the connection has published has arrived or waits in the outbox.
SaidInv ==
  (link = "on" /\ stopping = "no") =>
    /\ hook[conns] # "online" => retained \in AliveEvents \/ Has(outbox, AliveEvents)
    /\ hook[conns] = "over" => announced \/ Has(outbox, {"schema"})

\* Stop's "offline" is the last word: once it has left nothing marks the agent alive.
LastWordInv ==
  (stopping = "wait" /\ ~crossed) =>
    /\ ~Has(outbox, {"offline"}) => retained \notin AliveEvents /\ ~Has(outbox, AliveEvents)
    /\ OfflineEnds(outbox)

\* A retained "offline" is the last event on its way to a subscribed core, or is handled.
OnItsWayInv ==
  /\ core # "on" => toCore = <<>>
  /\ (core = "on" /\ retained = "offline") =>
       OfflineIsLast(toCore) \/ (Quiet(toCore) /\ (~revived => age = Stale))

\* An agent without a connection is not retained as alive, unless a handleConnect crossed Stop.
GoneInv == (link = "off" /\ ~crossed) => retained \notin AliveEvents

\* The inductive invariant of presence.
PresenceInv == PresenceTypeOK /\ HooksInv /\ SaidInv /\ LastWordInv /\ OnItsWayInv /\ GoneInv
-----------------------------------------------------------------------------
LEMMA NothingHas == \A events : ~Has(<<>>, events)
BY EmptySeq DEF Has

LEMMA AppendHas ==
  ASSUME NEW S, NEW s \in Seq(S), NEW e \in S
  PROVE  /\ \A events : Has(Append(s, e), events) <=> Has(s, events) \/ e \in events
         /\ (OfflineEnds(s) /\ (e \notin AliveEvents \/ ~Has(s, {"offline"}))) => OfflineEnds(Append(s, e))
<1>1. /\ Len(s) \in Nat /\ Len(Append(s, e)) = Len(s) + 1 /\ Append(s, e)[Len(s) + 1] = e
      /\ \A i \in 1..Len(s) : Append(s, e)[i] = s[i]
    BY AppendProperties, LenProperties
<1>2. QED
    BY <1>1 DEF Has, OfflineEnds

LEMMA TailHas ==
  ASSUME NEW S, NEW s \in Seq(S), s # <<>>
  PROVE  /\ \A events : Has(s, events) <=> (Head(s) \in events \/ Has(Tail(s), events))
         /\ OfflineEnds(s) => OfflineEnds(Tail(s)) /\ (Head(s) = "offline" => ~Has(Tail(s), AliveEvents))
<1>1. /\ Len(s) \in Nat \ {0} /\ Len(Tail(s)) = Len(s) - 1 /\ Head(s) = s[1]
      /\ \A i \in 1..Len(Tail(s)) : Tail(s)[i] = s[i + 1]
    BY HeadTailProperties, LenProperties, EmptySeq
<1>2. \A i \in 1..Len(s) : i = 1 \/ (i - 1 \in 1..Len(Tail(s)) /\ s[i] = Tail(s)[i - 1])
    BY <1>1
<1>3. ASSUME NEW events PROVE Has(s, events) <=> (Head(s) \in events \/ Has(Tail(s), events))
  <2>1. ASSUME Has(s, events) PROVE Head(s) \in events \/ Has(Tail(s), events)
    <3>1. PICK i \in 1..Len(s) : s[i] \in events
        BY <2>1 DEF Has
    <3>2. QED
        BY <1>1, <1>2, <3>1 DEF Has
  <2>2. ASSUME Head(s) \in events PROVE Has(s, events)
      BY <1>1, <2>2 DEF Has
  <2>3. ASSUME Has(Tail(s), events) PROVE Has(s, events)
    <3>1. PICK i \in 1..Len(Tail(s)) : Tail(s)[i] \in events
        BY <2>3 DEF Has
    <3>2. i + 1 \in 1..Len(s) /\ s[i + 1] \in events
        BY <1>1, <3>1
    <3>3. QED
        BY <3>2 DEF Has
  <2>4. QED
      BY <2>1, <2>2, <2>3
<1>4. OfflineEnds(s) => OfflineEnds(Tail(s)) /\ (Head(s) = "offline" => ~Has(Tail(s), AliveEvents))
    BY <1>1 DEF Has, OfflineEnds
<1>5. QED
    BY <1>3, <1>4

\* What the broker hands on comes last.
LEMMA ReachingProperties ==
  ASSUME PresenceTypeOK, OnItsWayInv, NEW e \in ToldEvents
  PROVE  /\ Reaching(<<e>>) \in Seq(ToldEvents)
         /\ core # "on" => Reaching(<<e>>) = <<>>
         /\ core = "on" /\ e = "offline" => OfflineIsLast(Reaching(<<e>>))
         /\ core = "on" /\ e = "telemetry" /\ Quiet(toCore) => Quiet(Reaching(<<e>>))
         /\ core = "on" /\ e = "telemetry" /\ OfflineIsLast(toCore) => OfflineIsLast(Reaching(<<e>>))
<1>0. toCore \in Seq(ToldEvents)
    BY DEF PresenceTypeOK, ToldEvents
<1>1. CASE core # "on"
    BY <1>0, <1>1 DEF Reaching, OnItsWayInv
<1>2. CASE core = "on"
  <2> DEFINE t == toCore \o <<e>>
  <2>1. <<e>> \in Seq(ToldEvents) /\ Len(<<e>>) = 1 /\ <<e>>[1] = e
      OBVIOUS
  <2>2. /\ t \in Seq(ToldEvents) /\ Len(t) = Len(toCore) + 1 /\ Len(toCore) \in Nat
        /\ \A i \in 1..(Len(toCore) + 1) : t[i] = IF i <= Len(toCore) THEN toCore[i] ELSE <<e>>[i - Len(toCore)]
      BY <1>0, <2>1, ConcatProperties, LenProperties
  <2>3. t[Len(toCore) + 1] = e /\ \A i \in 1..Len(toCore) : t[i] = toCore[i]
      BY <2>1, <2>2
  <2>4. Reaching(<<e>>) = t
      BY <1>2 DEF Reaching
  <2> HIDE DEF t
  <2>5. QED
      BY <1>2, <2>2, <2>3, <2>4 DEF OfflineIsLast, Quiet
<1>3. QED
    BY <1>1, <1>2

\* What core takes from the front.
LEMMA TakenProperties ==
  ASSUME PresenceTypeOK, toCore # <<>>
  PROVE  /\ Head(toCore) \in ToldEvents /\ Tail(toCore) \in Seq(ToldEvents)
         /\ Quiet(toCore) => Head(toCore) = "telemetry" /\ Quiet(Tail(toCore))
         /\ OfflineIsLast(toCore) =>
              OfflineIsLast(Tail(toCore)) \/ (Head(toCore) = "offline" /\ Quiet(Tail(toCore)))
<1>0. toCore \in Seq(ToldEvents)
    BY DEF PresenceTypeOK, ToldEvents
<1>1. /\ Head(toCore) \in ToldEvents /\ Tail(toCore) \in Seq(ToldEvents)
      /\ Len(toCore) \in Nat \ {0} /\ Len(Tail(toCore)) = Len(toCore) - 1 /\ Head(toCore) = toCore[1]
      /\ \A i \in 1..Len(Tail(toCore)) : Tail(toCore)[i] = toCore[i + 1]
    BY <1>0, HeadTailProperties, LenProperties, EmptySeq
<1>2. \A i \in 1..Len(toCore) : i = 1 \/ (i - 1 \in 1..Len(Tail(toCore)) /\ toCore[i] = Tail(toCore)[i - 1])
    BY <1>1
<1>3. Quiet(toCore) => Head(toCore) = "telemetry" /\ Quiet(Tail(toCore))
    BY <1>1 DEF Quiet
<1>4. ASSUME OfflineIsLast(toCore)
      PROVE  OfflineIsLast(Tail(toCore)) \/ (Head(toCore) = "offline" /\ Quiet(Tail(toCore)))
  <2>1. PICK i \in 1..Len(toCore) :
          toCore[i] = "offline" /\ \A j \in 1..Len(toCore) : j > i => toCore[j] = "telemetry"
      BY <1>4 DEF OfflineIsLast
  <2>2. CASE i = 1
      BY <1>1, <2>1, <2>2 DEF Quiet
  <2>3. CASE i # 1
    <3>1. i - 1 \in 1..Len(Tail(toCore)) /\ Tail(toCore)[i - 1] = "offline"
        BY <1>1, <1>2, <2>1, <2>3
    <3>2. \A j \in 1..Len(Tail(toCore)) : j > i - 1 => Tail(toCore)[j] = "telemetry"
        BY <1>1, <2>1
    <3>3. QED
        BY <3>1, <3>2 DEF OfflineIsLast
  <2>4. QED
      BY <2>2, <2>3
<1>5. QED
    BY <1>1, <1>3, <1>4

LEMMA PresenceInvIsEnough == PresenceInv => PresenceSound
<1> SUFFICES ASSUME PresenceInv PROVE PresenceSound
    OBVIOUS
<1> USE DEF PresenceInv
<1>1. ASSUME Settled PROVE retained \in AliveEvents /\ announced
  <2>1. conns \in Conns /\ hook[conns] = "over"
    <3>1. conns \in Conns /\ conns \in Nat
        BY <1>1 DEF HooksInv, Settled, Conns
    <3>2. hook[conns] # "none"
        BY <3>1 DEF HooksInv
    <3>3. QED
        BY <1>1, <3>1, <3>2 DEF Settled
  <2>2. QED
      BY <1>1, <2>1, NothingHas DEF SaidInv, Settled
<1>2. RetainedIsTrue
    BY <1>1 DEF RetainedIsTrue, GoneInv
<1>3. OfflineIsHeard
  <2> SUFFICES ASSUME core = "on", retained = "offline", toCore = <<>>, ~revived PROVE ~IsOnline
      BY DEF OfflineIsHeard
  <2>1. ~OfflineIsLast(toCore)
      BY EmptySeq DEF OfflineIsLast
  <2>2. age = Stale
      BY <2>1 DEF OnItsWayInv
  <2>3. QED
      BY <2>2, PresenceAssumption DEF IsOnline
<1>4. QED
    BY <1>2, <1>3 DEF PresenceSound, HooksInv

LEMMA PresenceInitInv == PresenceInit => PresenceInv
<1> SUFFICES ASSUME PresenceInit PROVE PresenceInv
    OBVIOUS
<1> USE PresenceAssumption DEF PresenceInit
<1>1. PresenceTypeOK
  <2>1. <<>> \in Seq(AliveEvents \cup {"offline", "schema"}) /\ <<>> \in Seq(AliveEvents \cup {"offline", "telemetry"})
      BY EmptySeq
  <2>2. Stale \in 0..Stale /\ 0 \in 0..MaxConns /\ 0 \in 0..MaxCoreCuts /\ 0 \in 0..MaxReports
      OBVIOUS
  <2>3. QED
      BY <2>1, <2>2 DEF PresenceTypeOK, Never
<1>2. HooksInv /\ SaidInv /\ LastWordInv /\ OnItsWayInv /\ GoneInv
    BY NothingHas DEF HooksInv, SaidInv, LastWordInv, OnItsWayInv, GoneInv, Conns, AliveEvents, OneAnnounces
<1>3. QED
    BY <1>1, <1>2 DEF PresenceInv

\* Every step of the agent, the broker and core keeps the invariant.
LEMMA PresenceNextInv == PresenceInv /\ [PresenceNext]_presenceVars => PresenceInv'
<1> SUFFICES ASSUME PresenceInv, [PresenceNext]_presenceVars PROVE PresenceInv'
    OBVIOUS
<1> USE PresenceAssumption
<1>0. PresenceTypeOK /\ HooksInv /\ SaidInv /\ LastWordInv /\ OnItsWayInv /\ GoneInv
    BY DEF PresenceInv
<1>t. /\ conns \in 0..MaxConns /\ hook \in [Conns -> {"none", "online", "first", "registered", "hooks", "over"}]
      /\ outbox \in Seq(Events) /\ toCore \in Seq(ToldEvents)
    BY <1>0 DEF PresenceTypeOK, Events, ToldEvents
<1>e. \A e \in Events : Append(outbox, e) \in Seq(Events)
    BY <1>t, AppendProperties
<1>a. \A e \in Events :
        /\ \A events : Has(Append(outbox, e), events) <=> Has(outbox, events) \/ e \in events
        /\ (OfflineEnds(outbox) /\ (e \notin AliveEvents \/ ~Has(outbox, {"offline"}))) => OfflineEnds(Append(outbox, e))
    BY <1>t, AppendHas
<1>n. /\ \A events : ~Has(<<>>, events)
      /\ OfflineEnds(<<>>) /\ ~OfflineIsLast(<<>>) /\ Quiet(<<>>) /\ <<>> \in Seq(Events) /\ <<>> \in Seq(ToldEvents)
    BY NothingHas, EmptySeq DEF OfflineEnds, OfflineIsLast, Quiet
<1>1. CASE Connect
  <2> USE <1>1 DEF Connect
  <2>1. conns + 1 \in Conns /\ conns' = conns + 1 /\ hook' = [hook EXCEPT ![conns + 1] = "online"] /\ conns \in Nat
      BY <1>t DEF Conns
  <2>2. retained' \in {retained, "offline"} /\ toCore' \in Seq(ToldEvents)
      BY <1>0, <1>t, ReachingProperties DEF ToldEvents
  <2>3. PresenceTypeOK'
      BY <1>0, <1>t, <2>1, <2>2 DEF PresenceTypeOK, ToldEvents, Conns
  <2>4. HooksInv' /\ SaidInv'
      BY <1>0, <1>t, <2>1 DEF HooksInv, OneAnnounces, SaidInv, Conns
  <2>5. LastWordInv' /\ GoneInv'
      BY <1>0 DEF LastWordInv, GoneInv, AliveEvents
  <2>6. OnItsWayInv'
      BY <1>0, ReachingProperties DEF OnItsWayInv, ToldEvents
  <2>7. QED
      BY <2>3, <2>4, <2>5, <2>6 DEF PresenceInv
<1>2. ASSUME NEW k \in Conns, PublishOnline(k) PROVE PresenceInv'
  <2> USE <1>2 DEF PublishOnline
  <2>1. "online" \in Events /\ "online" \in AliveEvents
      BY DEF Events, AliveEvents
  <2>2. outbox' \in Seq(Events) /\ hook' = [hook EXCEPT ![k] = "first"] /\ hook[k] = "online" /\ crossed' \in BOOLEAN
      BY <1>0, <1>t, <1>e, <2>1 DEF PresenceTypeOK
  <2>3. PresenceTypeOK'
      BY <1>0, <1>t, <2>2 DEF PresenceTypeOK, Events
  <2>4. HooksInv' /\ SaidInv'
      BY <1>0, <1>t, <1>a, <2>1, <2>2 DEF HooksInv, OneAnnounces, SaidInv
  <2>5. LastWordInv' /\ GoneInv' /\ OnItsWayInv'
      BY <1>0 DEF LastWordInv, GoneInv, OnItsWayInv, PresenceTypeOK
  <2>6. QED
      BY <2>3, <2>4, <2>5 DEF PresenceInv
<1>3. ASSUME NEW k \in Conns, TestFirst(k) PROVE PresenceInv'
  <2> USE <1>3 DEF TestFirst
  <2>1. PICK h \in {"hooks", "registered"} : hook' = [hook EXCEPT ![k] = h]
      OBVIOUS
  <2>2. PresenceTypeOK'
      BY <1>0, <1>t, <2>1 DEF PresenceTypeOK
  <2>3. HooksInv' /\ SaidInv'
      BY <1>0, <1>t, <2>1 DEF HooksInv, OneAnnounces, SaidInv
  <2>4. LastWordInv' /\ GoneInv' /\ OnItsWayInv'
      BY <1>0 DEF LastWordInv, GoneInv, OnItsWayInv
  <2>5. QED
      BY <2>2, <2>3, <2>4 DEF PresenceInv
<1>4. ASSUME NEW k \in Conns, PublishRegistered(k) PROVE PresenceInv'
  <2> USE <1>4 DEF PublishRegistered
  <2>1. "registered" \in Events /\ "registered" \in AliveEvents
      BY DEF Events, AliveEvents
  <2>2. outbox' \in Seq(Events) /\ hook' = [hook EXCEPT ![k] = "hooks"] /\ hook[k] = "registered" /\ crossed' \in BOOLEAN
      BY <1>0, <1>t, <1>e, <2>1 DEF PresenceTypeOK
  <2>3. PresenceTypeOK'
      BY <1>0, <1>t, <2>2 DEF PresenceTypeOK, Events
  <2>4. HooksInv' /\ SaidInv'
      BY <1>0, <1>t, <1>a, <2>1, <2>2 DEF HooksInv, OneAnnounces, SaidInv
  <2>5. LastWordInv' /\ GoneInv' /\ OnItsWayInv'
      BY <1>0 DEF LastWordInv, GoneInv, OnItsWayInv, PresenceTypeOK
  <2>6. QED
      BY <2>3, <2>4, <2>5 DEF PresenceInv
<1>5. ASSUME NEW k \in Conns, RunHooks(k) PROVE PresenceInv'
  <2> USE <1>5 DEF RunHooks
  <2>1. "schema" \in Events /\ "schema" \notin AliveEvents /\ "schema" # "offline"
      BY DEF Events, AliveEvents
  <2>2. outbox' \in Seq(Events) /\ hook' = [hook EXCEPT ![k] = "over"] /\ hook[k] = "hooks"
      BY <1>0, <1>t, <1>e, <2>1 DEF PresenceTypeOK
  <2>3. PresenceTypeOK'
      BY <1>0, <1>t, <2>2 DEF PresenceTypeOK, Events
  <2>4. HooksInv' /\ SaidInv'
      BY <1>0, <1>t, <1>a, <2>1, <2>2 DEF HooksInv, OneAnnounces, SaidInv
  <2>5. LastWordInv'
      BY <1>0, <1>a, <2>1 DEF LastWordInv
  <2>6. GoneInv' /\ OnItsWayInv'
      BY <1>0 DEF GoneInv, OnItsWayInv
  <2>7. QED
      BY <2>3, <2>4, <2>5, <2>6 DEF PresenceInv
<1>6. CASE Report
  <2> USE <1>6 DEF Report
  <2>1. toCore' \in Seq(ToldEvents)
      BY <1>0, ReachingProperties DEF ToldEvents
  <2>2. PresenceTypeOK'
      BY <1>0, <2>1 DEF PresenceTypeOK, ToldEvents
  <2>3. HooksInv' /\ SaidInv' /\ LastWordInv' /\ GoneInv'
      BY <1>0 DEF HooksInv, OneAnnounces, SaidInv, LastWordInv, GoneInv
  <2>4. OnItsWayInv'
      BY <1>0, ReachingProperties DEF OnItsWayInv, ToldEvents
  <2>5. QED
      BY <2>2, <2>3, <2>4 DEF PresenceInv
<1>7. CASE StopAgent
  <2> USE <1>7 DEF StopAgent
  <2>1. "offline" \in Events /\ "offline" \notin AliveEvents
      BY DEF Events, AliveEvents
  <2>2. PresenceTypeOK'
      BY <1>0, <1>e, <2>1 DEF PresenceTypeOK, Events
  <2>3. OfflineEnds(outbox)
      BY <1>0 DEF HooksInv, Has, OfflineEnds
  <2>4. HooksInv' /\ SaidInv' /\ LastWordInv'
      BY <1>0, <1>a, <2>1, <2>3 DEF HooksInv, OneAnnounces, SaidInv, LastWordInv
  <2>5. GoneInv' /\ OnItsWayInv'
      BY <1>0 DEF GoneInv, OnItsWayInv
  <2>6. QED
      BY <2>2, <2>4, <2>5 DEF PresenceInv
<1>8. CASE Disconnect
  <2> USE <1>8 DEF Disconnect
  <2>1. ~Has(outbox, {"offline"})
      BY <1>t, LenProperties DEF Has, ToSet
  <2>2. PresenceTypeOK'
      BY <1>0, <1>n DEF PresenceTypeOK, Events
  <2>3. HooksInv' /\ SaidInv' /\ LastWordInv'
      BY <1>0 DEF HooksInv, OneAnnounces, SaidInv, LastWordInv
  <2>4. GoneInv' /\ OnItsWayInv'
      BY <1>0, <2>1 DEF GoneInv, OnItsWayInv, LastWordInv
  <2>5. QED
      BY <2>2, <2>3, <2>4 DEF PresenceInv
<1>9. CASE Crash
  <2> USE <1>9 DEF Crash
  <2>1. hook' \in [Conns -> {"none", "over"}] /\ \A k \in Conns : hook'[k] = "none" <=> hook[k] = "none"
      BY <1>t
  <2>2. PresenceTypeOK'
      BY <1>0, <1>n, <2>1 DEF PresenceTypeOK, Events
  <2>3. HooksInv' /\ SaidInv' /\ LastWordInv'
      BY <1>0, <2>1 DEF HooksInv, OneAnnounces, SaidInv, LastWordInv
  <2>4. GoneInv' /\ OnItsWayInv'
      BY <1>0 DEF GoneInv, OnItsWayInv
  <2>5. QED
      BY <2>2, <2>3, <2>4 DEF PresenceInv
<1>10. CASE Deliver
  <2>1. PICK e \in Events : e = Head(outbox)
      BY <1>t, <1>10, HeadTailProperties DEF Deliver
  <2>2. /\ link = "on" /\ outbox' = Tail(outbox)
        /\ retained' = IF e = "schema" THEN retained ELSE e
        /\ announced' = IF e = "schema" THEN TRUE ELSE announced
        /\ toCore' = IF e = "schema" THEN toCore ELSE Reaching(<<e>>)
        /\ UNCHANGED <<link, conns, once, hook, stopping, core, cuts, ingestq, reports, age, crossed, revived>>
      BY <1>10, <2>1 DEF Deliver
  <2>3. /\ outbox' \in Seq(Events)
        /\ \A events : Has(outbox, events) <=> e \in events \/ Has(outbox', events)
        /\ OfflineEnds(outbox) => OfflineEnds(outbox') /\ (e = "offline" => ~Has(outbox', AliveEvents))
      BY <1>t, <1>10, <2>1, <2>2, TailHas, HeadTailProperties DEF Deliver
  <2>4. "schema" \notin AliveEvents /\ "offline" \notin AliveEvents /\ (e \in AliveEvents => e # "schema" /\ e # "offline")
        /\ (e # "schema" => e \in ToldEvents) /\ (e # "schema" /\ e # "offline" => e \in AliveEvents)
      BY DEF Events, ToldEvents, AliveEvents
  <2>5. toCore' \in Seq(ToldEvents)
      BY <1>0, <1>t, <2>2, <2>4, ReachingProperties
  <2>6. PresenceTypeOK'
      BY <1>0, <2>2, <2>3, <2>4, <2>5 DEF PresenceTypeOK, Events, ToldEvents
  <2>7. HooksInv' /\ SaidInv'
      BY <1>0, <2>2, <2>3, <2>4 DEF HooksInv, OneAnnounces, SaidInv
  <2>8. LastWordInv' /\ GoneInv'
      BY <1>0, <2>2, <2>3, <2>4 DEF LastWordInv, GoneInv
  <2>9. OnItsWayInv'
      BY <1>0, <2>2, <2>4, ReachingProperties DEF OnItsWayInv
  <2>10. QED
      BY <2>6, <2>7, <2>8, <2>9 DEF PresenceInv
<1>11. CASE LoseConnection
    BY <1>0, <1>11
       DEF LoseConnection, PresenceInv, PresenceTypeOK, HooksInv, OneAnnounces, SaidInv, LastWordInv, OnItsWayInv, GoneInv
<1>12. CASE SendWill
  <2> USE <1>12 DEF SendWill
  <2>1. toCore' \in Seq(ToldEvents)
      BY <1>0, ReachingProperties DEF ToldEvents
  <2>2. PresenceTypeOK'
      BY <1>0, <2>1 DEF PresenceTypeOK, ToldEvents
  <2>3. HooksInv' /\ SaidInv' /\ LastWordInv' /\ GoneInv'
      BY <1>0 DEF HooksInv, OneAnnounces, SaidInv, LastWordInv, GoneInv, AliveEvents
  <2>4. OnItsWayInv'
      BY <1>0, ReachingProperties DEF OnItsWayInv, ToldEvents
  <2>5. QED
      BY <2>2, <2>3, <2>4 DEF PresenceInv
<1>13. CASE BrokerRestarts
  <2> USE <1>13 DEF BrokerRestarts
  <2>0. cuts' \in 0..MaxCoreCuts /\ toCore' \in Seq(ToldEvents)
      BY <1>0, <1>n DEF PresenceTypeOK
  <2>1. PresenceTypeOK'
      BY <1>0, <2>0 DEF PresenceTypeOK, ToldEvents
  <2>2. HooksInv' /\ SaidInv' /\ LastWordInv' /\ OnItsWayInv' /\ GoneInv'
      BY <1>0 DEF HooksInv, OneAnnounces, SaidInv, LastWordInv, OnItsWayInv, GoneInv, AliveEvents
  <2>3. QED
      BY <2>1, <2>2 DEF PresenceInv
<1>14. CASE CoreConnects
    BY <1>0, <1>14
       DEF CoreConnects, PresenceInv, PresenceTypeOK, HooksInv, OneAnnounces, SaidInv, LastWordInv, OnItsWayInv, GoneInv
<1>15. CASE Subscribe
  <2> USE <1>15 DEF Subscribe
  <2>0. ASSUME retained # "none" PROVE <<retained>> \in Seq(ToldEvents)
    <3>1. retained \in ToldEvents
        BY <1>0, <2>0 DEF PresenceTypeOK, ToldEvents
    <3>2. QED
        BY <3>1
  <2>1. toCore' \in Seq(ToldEvents)
      BY <1>n, <2>0
  <2>2. PresenceTypeOK'
      BY <1>0, <2>1 DEF PresenceTypeOK, ToldEvents
  <2>3. HooksInv' /\ SaidInv' /\ LastWordInv' /\ GoneInv'
      BY <1>0 DEF HooksInv, OneAnnounces, SaidInv, LastWordInv, GoneInv
  <2>4. OnItsWayInv'
      BY DEF OnItsWayInv, OfflineIsLast
  <2>5. QED
      BY <2>2, <2>3, <2>4 DEF PresenceInv
<1>16. CASE CoreLosesConnection
    BY <1>0, <1>n, <1>16
       DEF CoreLosesConnection, PresenceInv, PresenceTypeOK, HooksInv, OneAnnounces, SaidInv, LastWordInv, OnItsWayInv, GoneInv, ToldEvents
<1>17. CASE PresenceHandler
  <2> USE <1>17 DEF PresenceHandler
  <2>0. age' \in 0..Stale /\ Tail(toCore) \in Seq(ToldEvents)
      BY <1>0, TakenProperties DEF Never
  <2>1. PresenceTypeOK'
      BY <1>0, <2>0 DEF PresenceTypeOK, ToldEvents
  <2>2. HooksInv' /\ SaidInv' /\ LastWordInv' /\ GoneInv'
      BY <1>0 DEF HooksInv, OneAnnounces, SaidInv, LastWordInv, GoneInv
  <2>3. OnItsWayInv'
      BY <1>0, TakenProperties DEF OnItsWayInv, Never
  <2>4. QED
      BY <2>1, <2>2, <2>3 DEF PresenceInv
<1>18. CASE QueueReport
  <2> USE <1>18 DEF QueueReport
  <2>1. PresenceTypeOK'
      BY <1>0, TakenProperties DEF PresenceTypeOK, ToldEvents
  <2>2. HooksInv' /\ SaidInv' /\ LastWordInv' /\ GoneInv'
      BY <1>0 DEF HooksInv, OneAnnounces, SaidInv, LastWordInv, GoneInv
  <2>3. OnItsWayInv'
      BY <1>0, TakenProperties DEF OnItsWayInv
  <2>4. QED
      BY <2>1, <2>2, <2>3 DEF PresenceInv
<1>19. CASE IngestReport
  <2> USE <1>19 DEF IngestReport
  <2>1. PresenceTypeOK'
      BY <1>0 DEF PresenceTypeOK
  <2>2. HooksInv' /\ SaidInv' /\ LastWordInv' /\ GoneInv'
      BY <1>0 DEF HooksInv, OneAnnounces, SaidInv, LastWordInv, GoneInv
  <2>3. ~revived' => ~revived /\ age < Stale
      BY DEF IsOnline
  <2>4. age < Stale => age # Stale
      BY <1>0 DEF PresenceTypeOK
  <2>5. OnItsWayInv'
      BY <1>0, <2>3, <2>4, Zenon DEF OnItsWayInv, OfflineIsLast, Quiet
  <2>6. QED
      BY <2>1, <2>2, <2>5 DEF PresenceInv
<1>20. CASE Tick
  <2> USE <1>20 DEF Tick
  <2>1. PresenceTypeOK'
      BY <1>0 DEF PresenceTypeOK
  <2>2. HooksInv' /\ SaidInv' /\ LastWordInv' /\ GoneInv'
      BY <1>0 DEF HooksInv, OneAnnounces, SaidInv, LastWordInv, GoneInv
  <2>3. OnItsWayInv'
      BY <1>0 DEF OnItsWayInv, PresenceTypeOK
  <2>4. QED
      BY <2>1, <2>2, <2>3 DEF PresenceInv
<1>21. CASE UNCHANGED presenceVars
    BY <1>0, <1>21
       DEF presenceVars, PresenceInv, PresenceTypeOK, HooksInv, OneAnnounces, SaidInv, LastWordInv, OnItsWayInv, GoneInv
<1>22. QED
    BY <1>1, <1>2, <1>3, <1>4, <1>5, <1>6, <1>7, <1>8, <1>9, <1>10, <1>11, <1>12, <1>13, <1>14, <1>15, <1>16,
       <1>17, <1>18, <1>19, <1>20, <1>21 DEF PresenceNext, PresenceWork

\* However connections, Stops, crashes, cuts and telemetry interleave: what the broker
\* retains of an agent whose handleConnects have run is true, an agent without a connection
\* is not retained as alive unless a handleConnect crossed its Stop, and a core that has
\* handled all that came (presenceHandler) has an agent that is retained as offline offline,
\* unless telemetry that was still queued revived it.
THEOREM PresenceIsSound == PresenceSpec => []PresenceSound
<1>1. QED
    BY PresenceInitInv, PresenceNextInv, PresenceInvIsEnough, PTL DEF PresenceSpec

-----------------------------------------------------------------------------
(* The collections of core *)

\* The file that brings each part of the schema.
Born(part) ==
  CASE part \in {"pixel_file", "gis_bound"} -> 3
    [] part = "layout_id_optional"          -> 4
    [] part = "file_10KB"                   -> 5
    [] part = "file_10MB"                   -> 6
    [] part = "group_schema"                -> 7
    [] part = "group_mapping"               -> 8
    [] part = "agent_events"                -> 9
    [] part = "telemetry_settings"          -> 10
    [] part = "event_paths"                 -> 11
    [] OTHER                                -> 1
SchemaAt(n) == {part \in FullSchema : Born(part) <= n}

Database == [schema : SUBSET FullSchema, applied : 0..Len(Migrations),
             rows : [Filled -> SUBSET {"own", "fixture"}]]

\* After so many files a database has exactly their parts, but for a new one, which may have
\* some of the first file's; the second file leaves no collection without a row.
DatabaseInv(d) ==
  /\ d \in Database
  /\ d.applied = 0 => d.schema \subseteq SchemaAt(1)
  /\ d.applied > 0 => d.schema = SchemaAt(d.applied)
  /\ \A c \in Seeded : c \notin d.schema => d.rows[c] = {}
  /\ d.applied > 1 => \A c \in Filled : d.rows[c] # {}

MigrationInv ==
  /\ MigrationTypeOK
  /\ DatabaseInv(data) /\ DatabaseInv(committed)
  /\ phase = "reverting" => command <= data.applied
  /\ phase \in {"loading", "serving"} => data.applied = Len(Migrations)
  /\ ~refused /\ ~trampled

LEMMA FilesByNumber ==
  /\ Len(Migrations) = 11
  /\ Migrations[1] = "init_schema" /\ Migrations[2] = "seed_dev_data"
  /\ Migrations[3] = "layout_files" /\ Migrations[4] = "layout_id_optional"
  /\ Migrations[5] = "file_10KB" /\ Migrations[6] = "file_10MB"
  /\ Migrations[7] = "group_schema" /\ Migrations[8] = "group_mapping"
  /\ Migrations[9] = "agent_events" /\ Migrations[10] = "telemetry_settings"
  /\ Migrations[11] = "event_paths"
BY DEF Migrations

LEMMA ConfigCollectionsSet ==
  ToSet(ConfigCollections) = {"agent_groups", "agents", "missions", "layouts", "agent_layouts"}
<1>1. /\ DOMAIN ConfigCollections = 1..5
      /\ ConfigCollections[1] = "agent_groups" /\ ConfigCollections[2] = "agents"
      /\ ConfigCollections[3] = "missions" /\ ConfigCollections[4] = "layouts"
      /\ ConfigCollections[5] = "agent_layouts"
    BY DEF ConfigCollections
<1>2. 1..5 = {1, 2, 3, 4, 5}
    OBVIOUS
<1>3. QED
    BY <1>1, <1>2 DEF ToSet

LEMMA PartsOfTheSchema ==
  FullSchema = {"users.username", "users.role", "telemetry_settings", "agents", "agents.agent_group",
                "agent_groups", "group_schema", "group_mapping", "layouts", "pixel_file", "gis_bound",
                "layout_id_optional", "file_10KB", "file_10MB", "agent_events", "event_paths",
                "missions", "agent_layouts"}
<1>1. /\ PartsOf("agents") = {"agents", "agents.agent_group"}
      /\ PartsOf("agent_groups") = {"agent_groups", "group_schema", "group_mapping"}
      /\ PartsOf("layouts") = {"layouts", "pixel_file", "gis_bound", "layout_id_optional", "file_10KB",
                               "file_10MB"}
      /\ PartsOf("agent_events") = {"agent_events", "event_paths"}
      /\ PartsOf("missions") = {"missions"} /\ PartsOf("agent_layouts") = {"agent_layouts"}
    BY DEF PartsOf
<1>2. UNION {PartsOf(c) : c \in ToSet(ConfigCollections) \cup {"agent_events"}}
        = PartsOf("agents") \cup PartsOf("agent_groups") \cup PartsOf("layouts")
            \cup PartsOf("agent_events") \cup PartsOf("missions") \cup PartsOf("agent_layouts")
    BY ConfigCollectionsSet
<1>3. QED
    BY <1>1, <1>2 DEF FullSchema, UserFields

\* What the first file makes, and how the schema grows.
LEMMA SchemaGrows ==
  /\ SchemaAt(1) = UserFields \cup ToSet(ConfigCollections) \cup {"agents.agent_group"}
  /\ SchemaAt(2) = SchemaAt(1)
  /\ SchemaAt(11) = FullSchema
  /\ \A n \in Nat : n >= 1 => SchemaAt(1) \subseteq SchemaAt(n)
  /\ Seeded \subseteq SchemaAt(1)
<1>1. \A part \in FullSchema : Born(part) \in Nat /\ Born(part) <= 11 /\ Born(part) # 2
    BY DEF Born
<1>2. SchemaAt(2) = SchemaAt(1) /\ SchemaAt(11) = FullSchema
    BY <1>1 DEF SchemaAt
<1>3. \A n \in Nat : n >= 1 => SchemaAt(1) \subseteq SchemaAt(n)
    BY <1>1 DEF SchemaAt
<1>4. SchemaAt(1) = UserFields \cup ToSet(ConfigCollections) \cup {"agents.agent_group"}
    BY PartsOfTheSchema, ConfigCollectionsSet DEF SchemaAt, Born, UserFields
<1>5. Seeded \subseteq SchemaAt(1)
    BY <1>4, ConfigCollectionsSet DEF Seeded
<1>6. QED
    BY <1>2, <1>3, <1>4, <1>5

\* Each later file finds what it looks up, adds its own parts and takes out those and, if
\* any, younger ones.
FileFits(n) ==
  LET f == FileOf[Migrations[n]] IN
  /\ f.needs \subseteq SchemaAt(n - 1)
  /\ SchemaAt(n) = SchemaAt(n - 1) \cup f.adds
  /\ SchemaAt(n) \ f.takes = SchemaAt(n - 1)

LEMMA FilesAreRecords ==
  /\ FileOf["layout_files"] = [needs |-> {"layouts"}, adds |-> {"pixel_file", "gis_bound"}, takes |-> {"pixel_file", "gis_bound"}]
  /\ FileOf["layout_id_optional"] = [needs |-> {"layouts"}, adds |-> {"layout_id_optional"}, takes |-> {"layout_id_optional"}]
  /\ FileOf["file_10KB"] = [needs |-> {"layouts"}, adds |-> {"file_10KB"}, takes |-> {"file_10KB"}]
  /\ FileOf["file_10MB"] = [needs |-> {"layouts"}, adds |-> {"file_10MB"}, takes |-> {"file_10MB"}]
  /\ FileOf["group_schema"] = [needs |-> {"agent_groups"}, adds |-> {"group_schema"}, takes |-> {"group_schema"}]
  /\ FileOf["group_mapping"] = [needs |-> {"agent_groups"}, adds |-> {"group_mapping"}, takes |-> {"group_mapping"}]
  /\ FileOf["agent_events"] = [needs |-> {}, adds |-> {"agent_events"}, takes |-> {"agent_events", "event_paths"}]
  /\ FileOf["telemetry_settings"] = [needs |-> {"agent_groups"}, adds |-> {"telemetry_settings"}, takes |-> {"telemetry_settings"}]
  /\ FileOf["event_paths"] = [needs |-> {"agent_events"}, adds |-> {"event_paths"}, takes |-> {"event_paths"}]
<1>1. PartsOf("agent_events") = {"agent_events", "event_paths"}
    BY DEF PartsOf
<1>2. AgentEvents = [needs |-> {}, adds |-> {"agent_events"}, takes |-> {"agent_events", "event_paths"}]
    BY <1>1 DEF AgentEvents, File
<1>3. QED
    BY <1>2
    DEF FileOf, LayoutFiles, LayoutIdOptional, LayoutFile10KB, LayoutFile10MB, GroupSchema,
        GroupMapping, TelemetrySettings, EventPaths, File

LEMMA FilesFit == \A n \in 3..11 : FileFits(n)
<1>1. FileFits(3)
    BY FilesByNumber, FilesAreRecords, PartsOfTheSchema DEF FileFits, SchemaAt, Born
<1>2. FileFits(4)
    BY FilesByNumber, FilesAreRecords, PartsOfTheSchema DEF FileFits, SchemaAt, Born
<1>3. FileFits(5)
    BY FilesByNumber, FilesAreRecords, PartsOfTheSchema DEF FileFits, SchemaAt, Born
<1>4. FileFits(6)
    BY FilesByNumber, FilesAreRecords, PartsOfTheSchema DEF FileFits, SchemaAt, Born
<1>5. FileFits(7)
    BY FilesByNumber, FilesAreRecords, PartsOfTheSchema DEF FileFits, SchemaAt, Born
<1>6. FileFits(8)
    BY FilesByNumber, FilesAreRecords, PartsOfTheSchema DEF FileFits, SchemaAt, Born
<1>7. FileFits(9)
    BY FilesByNumber, FilesAreRecords, PartsOfTheSchema DEF FileFits, SchemaAt, Born
<1>8. FileFits(10)
    BY FilesByNumber, FilesAreRecords, PartsOfTheSchema DEF FileFits, SchemaAt, Born
<1>9. FileFits(11)
    BY FilesByNumber, FilesAreRecords, PartsOfTheSchema DEF FileFits, SchemaAt, Born
<1>10. \A n \in 3..11 : n \in {3, 4, 5, 6, 7, 8, 9, 10, 11}
    OBVIOUS
<1>11. QED
    BY <1>1, <1>2, <1>3, <1>4, <1>5, <1>6, <1>7, <1>8, <1>9, <1>10

LEMMA LaterFiles ==
  ASSUME NEW n \in 3..11, NEW d
  PROVE  /\ Needs(Migrations[n]) = FileOf[Migrations[n]].needs
         /\ Up(Migrations[n], d) = AddParts(d, FileOf[Migrations[n]].adds)
         /\ Down(Migrations[n], d) = DropParts(d, FileOf[Migrations[n]].takes)
<1>1. n \in {3, 4, 5, 6, 7, 8, 9, 10, 11}
    OBVIOUS
<1>2. Migrations[n] # "init_schema" /\ Migrations[n] # "seed_dev_data"
    BY <1>1, FilesByNumber
<1>3. QED
    BY <1>2 DEF Needs, Up, Down

LEMMA DatabaseTyped ==
  ASSUME NEW d \in Database
  PROVE  /\ d.schema \subseteq FullSchema /\ d.applied \in 0..11
         /\ d.rows \in [Filled -> SUBSET {"own", "fixture"}]
         /\ d = [schema |-> d.schema, applied |-> d.applied, rows |-> d.rows]
BY FilesByNumber DEF Database

\* The fields of a database that an operator changes.
LEMMA PartsOnly ==
  ASSUME NEW d, d = [schema |-> d.schema, applied |-> d.applied, rows |-> d.rows], NEW s
  PROVE  /\ AddParts(d, s) = [schema |-> d.schema \cup s, applied |-> d.applied, rows |-> d.rows]
         /\ DropParts(d, s) = [schema |-> d.schema \ s, applied |-> d.applied, rows |-> d.rows]
         /\ [d EXCEPT !.rows = s] = [schema |-> d.schema, applied |-> d.applied, rows |-> s]
<1>1. PICK x, n, r : x = d.schema /\ n = d.applied /\ r = d.rows
    OBVIOUS
<1>2. d = [schema |-> x, applied |-> n, rows |-> r]
    BY <1>1
<1>3. AddParts(d, s) = [schema |-> x \cup s, applied |-> n, rows |-> r]
    BY <1>2 DEF AddParts
<1>4. DropParts(d, s) = [schema |-> x \ s, applied |-> n, rows |-> r]
    BY <1>2 DEF DropParts
<1>5. [d EXCEPT !.rows = s] = [schema |-> x, applied |-> n, rows |-> s]
    BY <1>2
<1>6. QED
    BY <1>1, <1>3, <1>4, <1>5

LEMMA DatabaseMade ==
  ASSUME NEW s \in SUBSET FullSchema, NEW n \in 0..11, NEW r \in [Filled -> SUBSET {"own", "fixture"}]
  PROVE  [schema |-> s, applied |-> n, rows |-> r] \in Database
BY FilesByNumber DEF Database

\* What DatabaseInv asks of the open transaction and of the database is MigrationTypeOK's.
LEMMA InvOfParts ==
  ASSUME NEW d, DatabaseInv(d)
  PROVE  /\ d.schema \subseteq FullSchema /\ d.applied \in 0..Len(Migrations)
         /\ d.rows \in [Filled -> SUBSET {"own", "fixture"}]
         /\ \A c \in Seeded : c \notin d.schema => d.rows[c] = {}
BY DEF DatabaseInv, Database

\* The first file on a database that has some of its parts already.
LEMMA InitSchemaUp ==
  ASSUME NEW d, DatabaseInv(d), d.applied = 0,
         NEW e, e = [Up("init_schema", d) EXCEPT !.applied = 1]
  PROVE  DatabaseInv(e) /\ e.rows = d.rows
<1>1. /\ d \in Database /\ d.schema \subseteq SchemaAt(1)
      /\ \A c \in Seeded : c \notin d.schema => d.rows[c] = {}
    BY DEF DatabaseInv
<1>2. e = [schema |-> SchemaAt(1), applied |-> 1, rows |-> d.rows]
  <2>1. Up("init_schema", d) = AddParts(AddParts(AddParts(d, UserFields), ToSet(ConfigCollections)), {"agents.agent_group"})
      BY DEF Up, InitUsers, InitConfigCollections, InitAgentGroupRelation
  <2>2. PICK s : s = d.schema \cup UserFields \cup ToSet(ConfigCollections) \cup {"agents.agent_group"}
      OBVIOUS
  <2>3. s = SchemaAt(1)
      BY <1>1, <2>2, SchemaGrows
  <2>4. Up("init_schema", d) = [schema |-> s, applied |-> d.applied, rows |-> d.rows]
    <3>1. PICK t : t = AddParts(d, UserFields)
        OBVIOUS
    <3>2. t = [schema |-> d.schema \cup UserFields, applied |-> d.applied, rows |-> d.rows]
        BY <1>1, <3>1, DatabaseTyped, PartsOnly
    <3>3. PICK u : u = AddParts(t, ToSet(ConfigCollections))
        OBVIOUS
    <3>9. /\ t = [schema |-> t.schema, applied |-> t.applied, rows |-> t.rows]
          /\ t.schema = d.schema \cup UserFields /\ t.applied = d.applied /\ t.rows = d.rows
        BY <3>2
    <3>4. u = [schema |-> d.schema \cup UserFields \cup ToSet(ConfigCollections), applied |-> d.applied, rows |-> d.rows]
        BY <3>9, <3>3, PartsOnly
    <3>10. /\ u = [schema |-> u.schema, applied |-> u.applied, rows |-> u.rows]
           /\ u.schema = d.schema \cup UserFields \cup ToSet(ConfigCollections)
           /\ u.applied = d.applied /\ u.rows = d.rows
        BY <3>4
    <3>5. AddParts(u, {"agents.agent_group"})
            = [schema |-> d.schema \cup UserFields \cup ToSet(ConfigCollections) \cup {"agents.agent_group"},
               applied |-> d.applied, rows |-> d.rows]
        BY <3>10, PartsOnly
    <3>6. QED
        BY <2>1, <2>2, <3>1, <3>3, <3>5
  <2>5. QED
      BY <2>3, <2>4
<1>3. e \in Database
    BY <1>1, <1>2, DatabaseTyped, DatabaseMade DEF SchemaAt
<1>4. \A c \in Seeded : c \in e.schema
    BY <1>2, SchemaGrows
<1>5. QED
    BY <1>2, <1>3, <1>4 DEF DatabaseInv

\* The fixtures go where no row is.
LEMMA SeedUp ==
  ASSUME NEW d, DatabaseInv(d), d.applied = 1,
         NEW e, e = [Up("seed_dev_data", d) EXCEPT !.applied = 2]
  PROVE  DatabaseInv(e) /\ \A c \in Filled : d.rows[c] # {} => e.rows[c] = d.rows[c]
<1>1. d \in Database /\ d.schema = SchemaAt(1)
    BY DEF DatabaseInv
<1>2. PICK r \in [Filled -> SUBSET {"own", "fixture"}] :
        r = [c \in Filled |-> IF d.rows[c] = {} THEN {"fixture"} ELSE d.rows[c]]
  <2> DEFINE r == [c \in Filled |-> IF d.rows[c] = {} THEN {"fixture"} ELSE d.rows[c]]
  <2>1. d.rows \in [Filled -> SUBSET {"own", "fixture"}]
      BY <1>1, DatabaseTyped
  <2>2. r \in [Filled -> SUBSET {"own", "fixture"}]
      BY <2>1
  <2>3. QED
      BY <2>2
<1>3. e = [schema |-> SchemaAt(1), applied |-> 2, rows |-> r]
  <2>1. Up("seed_dev_data", d) = [d EXCEPT !.rows = r]
      BY <1>2 DEF Up, SeedIfEmpty
  <2>2. Up("seed_dev_data", d) = [schema |-> SchemaAt(1), applied |-> 1, rows |-> r]
      BY <1>1, <2>1, DatabaseTyped, PartsOnly
  <2>3. QED
      BY <2>2
<1>4. e \in Database
    BY <1>3, DatabaseMade DEF SchemaAt
<1>5. \A c \in Seeded : c \in e.schema
    BY <1>3, SchemaGrows
<1>6. \A c \in Filled : e.rows[c] # {} /\ (d.rows[c] # {} => e.rows[c] = d.rows[c])
    BY <1>2, <1>3
<1>7. QED
    BY <1>3, <1>4, <1>5, <1>6, SchemaGrows DEF DatabaseInv

LEMMA LaterUp ==
  ASSUME NEW n \in 3..11, NEW d, DatabaseInv(d), d.applied = n - 1,
         NEW e, e = [Up(Migrations[n], d) EXCEPT !.applied = n]
  PROVE  DatabaseInv(e) /\ e.rows = d.rows
<1>1. /\ d \in Database /\ d.schema = SchemaAt(n - 1)
      /\ \A c \in Filled : d.rows[c] # {}
    BY DEF DatabaseInv
<1>2. SchemaAt(n) = SchemaAt(n - 1) \cup FileOf[Migrations[n]].adds
    BY FilesFit DEF FileFits
<1>3. e = [schema |-> SchemaAt(n), applied |-> n, rows |-> d.rows]
  <2>1. Up(Migrations[n], d) = AddParts(d, FileOf[Migrations[n]].adds)
      BY LaterFiles
  <2>2. PICK s : s = FileOf[Migrations[n]].adds
      OBVIOUS
  <2>3. Up(Migrations[n], d) = [schema |-> d.schema \cup s, applied |-> d.applied, rows |-> d.rows]
      BY <1>1, <2>1, <2>2, DatabaseTyped, PartsOnly
  <2>4. SchemaAt(n) = d.schema \cup s
      BY <1>1, <1>2, <2>2
  <2>5. QED
      BY <2>3, <2>4
<1>4. e \in Database
    BY <1>1, <1>3, DatabaseTyped, DatabaseMade DEF SchemaAt
<1>5. \A c \in Seeded : c \in e.schema
    BY <1>3, SchemaGrows
<1>6. QED
    BY <1>1, <1>3, <1>4, <1>5 DEF DatabaseInv

\* Nothing a collection is referred to by is left when its turn comes to be dropped.
LEMMA DropOrderFits ==
  ASSUME NEW d \in Database, d.schema = SchemaAt(1)
  PROVE  /\ Len(DropOrder) = 5
         /\ \A i \in 1..5 : Refers[DropOrder[i]] \cap (d.schema \ PartsOfFirst(i - 1)) = {}
         /\ Seeded \subseteq ToSet(DropOrder) /\ "users" \notin ToSet(DropOrder)
<1>1. /\ Len(DropOrder) = 5 /\ DOMAIN DropOrder = 1..5
      /\ DropOrder[1] = "agent_layouts" /\ DropOrder[2] = "agents" /\ DropOrder[3] = "missions"
      /\ DropOrder[4] = "layouts" /\ DropOrder[5] = "agent_groups"
    BY DEF DropOrder
<1>2. /\ Refers["agent_layouts"] = {} /\ Refers["agents"] = {} /\ Refers["missions"] = {}
      /\ Refers["layouts"] = {} /\ Refers["agent_groups"] = {"agents.agent_group", "telemetry_settings"}
    BY DEF Refers
<1>3. PartsOf("agents") = {"agents", "agents.agent_group"}
    BY DEF PartsOf
<1>4. "agents.agent_group" \in PartsOfFirst(4)
  <2>1. 2 \in 1..4
      OBVIOUS
  <2>2. QED
      BY <1>1, <1>3, <2>1 DEF PartsOfFirst
<1>5. "telemetry_settings" \notin d.schema
    BY DEF SchemaAt, Born
<1>6. Refers[DropOrder[5]] \cap (d.schema \ PartsOfFirst(4)) = {}
    BY <1>1, <1>2, <1>4, <1>5
<1>7. \A i \in 1..5 : i \in {1, 2, 3, 4} \/ (i = 5 /\ i - 1 = 4)
    OBVIOUS
<1>8. \A i \in {1, 2, 3, 4} : Refers[DropOrder[i]] = {}
    BY <1>1, <1>2
<1>9. \A i \in 1..5 : Refers[DropOrder[i]] \cap (d.schema \ PartsOfFirst(i - 1)) = {}
    BY <1>6, <1>7, <1>8
<1>10. ToSet(DropOrder) = {"agent_layouts", "agents", "missions", "layouts", "agent_groups"}
  <2>1. 1..5 = {1, 2, 3, 4, 5}
      OBVIOUS
  <2>2. QED
      BY <1>1, <2>1 DEF ToSet
<1>11. QED
    BY <1>1, <1>9, <1>10 DEF Seeded

LEMMA InitSchemaDown ==
  ASSUME NEW d, DatabaseInv(d), d.applied = 1
  PROVE  /\ Down("init_schema", d).applied = 1
         /\ DatabaseInv([Down("init_schema", d) EXCEPT !.applied = 0])
         /\ [Down("init_schema", d) EXCEPT !.applied = 0].applied = 0
<1>1. d \in Database /\ d.schema = SchemaAt(1)
    BY DEF DatabaseInv
<1>2. PICK r \in [Filled -> SUBSET {"own", "fixture"}] :
        r = [c \in Filled |-> IF c \in ToSet(DropOrder) THEN {} ELSE d.rows[c]]
  <2> DEFINE r == [c \in Filled |-> IF c \in ToSet(DropOrder) THEN {} ELSE d.rows[c]]
  <2>1. d.rows \in [Filled -> SUBSET {"own", "fixture"}]
      BY <1>1, DatabaseTyped
  <2>2. r \in [Filled -> SUBSET {"own", "fixture"}]
      BY <2>1
  <2>3. QED
      BY <2>2
<1>3. PICK s \in SUBSET SchemaAt(1) : s = (d.schema \ PartsOfFirst(Len(DropOrder))) \ UserFields
    BY <1>1
<1>4. Down("init_schema", d) = [schema |-> s, applied |-> 1, rows |-> r]
  <2>1. ~ \E i \in 1..Len(DropOrder) : Refers[DropOrder[i]] \cap (d.schema \ PartsOfFirst(i - 1)) # {}
      BY <1>1, DropOrderFits
  <2>2. PICK t : t = d.schema \ PartsOfFirst(Len(DropOrder))
      OBVIOUS
  <2>3. DropCollections(d) = [DropParts(d, PartsOfFirst(Len(DropOrder))) EXCEPT !.rows = r]
      BY <1>2, <2>1 DEF DropCollections
  <2>4. DropCollections(d) = [schema |-> t, applied |-> 1, rows |-> r]
    <3>1. PICK q : q = PartsOfFirst(Len(DropOrder))
        OBVIOUS
    <3>2. DropParts(d, q) = [schema |-> t, applied |-> 1, rows |-> d.rows]
      <4>1. d = [schema |-> d.schema, applied |-> d.applied, rows |-> d.rows]
          BY <1>1, DatabaseTyped
      <4>2. DropParts(d, q) = [schema |-> d.schema \ q, applied |-> d.applied, rows |-> d.rows]
          BY <4>1, PartsOnly
      <4>3. QED
          BY <2>2, <3>1, <4>2
    <3>3. QED
        BY <2>3, <3>1, <3>2
  <2>5. DropParts(DropCollections(d), UserFields) = [schema |-> t \ UserFields, applied |-> 1, rows |-> r]
      BY <2>4 DEF DropParts
  <2>6. QED
      BY <1>3, <2>2, <2>5 DEF Down
<1>5. PICK e : e = [schema |-> s, applied |-> 0, rows |-> r]
    OBVIOUS
<1>6. [Down("init_schema", d) EXCEPT !.applied = 0] = e
    BY <1>4, <1>5
<1>7. e \in Database
    BY <1>5, DatabaseMade DEF SchemaAt
<1>8. \A c \in Seeded : e.rows[c] = {}
    BY <1>1, <1>2, <1>5, DropOrderFits DEF Filled
<1>9. DatabaseInv(e)
    BY <1>5, <1>7, <1>8 DEF DatabaseInv
<1>10. QED
    BY <1>4, <1>5, <1>6, <1>9

LEMMA SeedDown ==
  ASSUME NEW d, DatabaseInv(d), d.applied = 2,
         NEW e, e = [Down("seed_dev_data", d) EXCEPT !.applied = 1]
  PROVE  /\ Down("seed_dev_data", d).applied = 2 /\ e.applied = 1
         /\ DatabaseInv(e) /\ \A c \in Filled : "own" \in d.rows[c] => "own" \in e.rows[c]
<1>1. d \in Database /\ d.schema = SchemaAt(2)
    BY DEF DatabaseInv
<1>2. PICK r \in [Filled -> SUBSET {"own", "fixture"}] : r = [c \in Filled |-> d.rows[c] \ {"fixture"}]
  <2> DEFINE r == [c \in Filled |-> d.rows[c] \ {"fixture"}]
  <2>1. d.rows \in [Filled -> SUBSET {"own", "fixture"}]
      BY <1>1, DatabaseTyped
  <2>2. r \in [Filled -> SUBSET {"own", "fixture"}]
      BY <2>1
  <2>3. QED
      BY <2>2
<1>3. Down("seed_dev_data", d) = [schema |-> SchemaAt(1), applied |-> 2, rows |-> r]
  <2>1. Down("seed_dev_data", d) = [d EXCEPT !.rows = r]
      BY <1>2 DEF Down, DeleteFixtures
  <2>2. QED
      BY <1>1, <2>1, DatabaseTyped, PartsOnly, SchemaGrows
<1>4. e = [schema |-> SchemaAt(1), applied |-> 1, rows |-> r]
    BY <1>3
<1>5. e \in Database
    BY <1>4, DatabaseMade DEF SchemaAt
<1>6. \A c \in Seeded : c \in e.schema
    BY <1>4, SchemaGrows
<1>7. QED
    BY <1>2, <1>3, <1>4, <1>5, <1>6 DEF DatabaseInv

LEMMA LaterDown ==
  ASSUME NEW d, DatabaseInv(d), d.applied \in 3..11,
         NEW after, after = Down(Migrations[d.applied], d),
         NEW e, e = [after EXCEPT !.applied = d.applied - 1]
  PROVE  /\ after.applied = d.applied /\ e.applied = d.applied - 1
         /\ DatabaseInv(e) /\ e.rows = d.rows
<1>0. PICK n \in 3..11 : n = d.applied
    OBVIOUS
<1>1. /\ d \in Database /\ d.schema = SchemaAt(n) /\ n - 1 \in 2..10
      /\ after = Down(Migrations[n], d) /\ e = [after EXCEPT !.applied = n - 1]
      /\ \A c \in Filled : d.rows[c] # {}
    BY <1>0 DEF DatabaseInv
<1>2. PICK s : s = FileOf[Migrations[n]].takes
    OBVIOUS
<1>3. SchemaAt(n) \ s = SchemaAt(n - 1)
    BY <1>2, FilesFit DEF FileFits
<1>4. after = [schema |-> SchemaAt(n - 1), applied |-> n, rows |-> d.rows]
  <2>1. Down(Migrations[n], d) = DropParts(d, s)
      BY <1>2, LaterFiles
  <2>2. DropParts(d, s) = [schema |-> d.schema \ s, applied |-> d.applied, rows |-> d.rows]
      BY <1>1, DatabaseTyped, PartsOnly
  <2>3. QED
      BY <1>0, <1>1, <1>3, <2>1, <2>2
<1>5. e = [schema |-> SchemaAt(n - 1), applied |-> n - 1, rows |-> d.rows]
    BY <1>1, <1>4
<1>6. e \in Database
    BY <1>1, <1>5, DatabaseTyped, DatabaseMade DEF SchemaAt
<1>7. \A c \in Seeded : c \in e.schema
    BY <1>1, <1>5, SchemaGrows
<1>8. QED
    BY <1>0, <1>1, <1>4, <1>5, <1>6, <1>7 DEF DatabaseInv

\* The types follow for any step from the two databases and the control variables.
LEMMA TypesFollow ==
  (/\ DatabaseInv(data) /\ DatabaseInv(committed)
   /\ phase \in {"stopped", "migrating", "loading", "serving", "reverting"}
   /\ command \in 0..Len(Migrations)
   /\ reverts \in 0..MaxReverts /\ failures \in 0..MaxFailures /\ added \in 0..MaxRows
   /\ refused \in BOOLEAN /\ trampled \in BOOLEAN)
  => MigrationTypeOK
BY InvOfParts DEF MigrationTypeOK

LEMMA MigrationBegins == MigrationInit => MigrationInv
<1> SUFFICES ASSUME MigrationInit PROVE MigrationInv
    OBVIOUS
<1>1. DatabaseInv(committed)
  <2>1. PICK s \in SUBSET {"users.username", "users.role", "agent_groups", "agents", "layouts",
                           "agents.agent_group"},
             r \in {{}, {"own"}, {"fixture"}}, u \in {{}, {"own"}, {"fixture"}} :
          committed = [schema |-> s, applied |-> 0,
                       rows |-> [c \in Filled |-> IF c = "users" THEN u ELSE IF c \in s THEN r ELSE {}]]
      BY DEF MigrationInit, Provisioned
  <2>2. PICK rows \in [Filled -> SUBSET {"own", "fixture"}] :
          rows = [c \in Filled |-> IF c = "users" THEN u ELSE IF c \in s THEN r ELSE {}]
    <3> DEFINE rows == [c \in Filled |-> IF c = "users" THEN u ELSE IF c \in s THEN r ELSE {}]
    <3>1. \A c \in Filled : (IF c = "users" THEN u ELSE IF c \in s THEN r ELSE {}) \in SUBSET {"own", "fixture"}
        OBVIOUS
    <3>2. rows \in [Filled -> SUBSET {"own", "fixture"}]
        BY <3>1
    <3>3. QED
        BY <3>2
  <2>3. s \in SUBSET SchemaAt(1)
      BY ConfigCollectionsSet, SchemaGrows DEF UserFields
  <2>4. s \in SUBSET FullSchema
      BY <2>3 DEF SchemaAt
  <2>5. committed = [schema |-> s, applied |-> 0, rows |-> rows]
      BY <2>1, <2>2
  <2>6. committed \in Database
      BY <2>4, <2>5, DatabaseMade
  <2>7. \A c \in Seeded : c \notin s => rows[c] = {}
      BY <2>2 DEF Filled, Seeded
  <2>8. QED
      BY <2>3, <2>5, <2>6, <2>7 DEF DatabaseInv
<1>2. data = committed
    BY DEF MigrationInit
<1>3. MigrationTypeOK
  <2>1. \A d \in {data, committed} : DatabaseInv(d)
      BY <1>1, <1>2
  <2>2. /\ command \in 0..Len(Migrations) /\ reverts \in 0..MaxReverts /\ failures \in 0..MaxFailures
        /\ added \in 0..MaxRows
      BY FilesByNumber, MigrationAssumption DEF MigrationInit
  <2>3. QED
      BY <2>1, <2>2, TypesFollow DEF MigrationInit
<1>4. QED
    BY <1>1, <1>2, <1>3 DEF MigrationInit, MigrationInv

LEMMA TypesFollowNext ==
  (/\ DatabaseInv(data') /\ DatabaseInv(committed')
   /\ phase' \in {"stopped", "migrating", "loading", "serving", "reverting"}
   /\ command' \in 0..Len(Migrations)
   /\ reverts' \in 0..MaxReverts /\ failures' \in 0..MaxFailures /\ added' \in 0..MaxRows
   /\ refused' \in BOOLEAN /\ trampled' \in BOOLEAN)
  => MigrationTypeOK'
BY InvOfParts DEF MigrationTypeOK

\* A file that is applied fits and leaves the rows there are alone.
LEMMA ApplyFits ==
  ASSUME MigrationInv, data.applied < Len(Migrations),
         NEW pending, pending = Migrations[data.applied + 1],
         NEW e, e = [Up(pending, data) EXCEPT !.applied = data.applied + 1]
  PROVE  /\ Needs(pending) \subseteq data.schema
         /\ DatabaseInv(e) /\ \A c \in Filled : data.rows[c] # {} => e.rows[c] = data.rows[c]
<1>1. PICK n \in 0..10 : n = data.applied
    BY FilesByNumber DEF MigrationInv, MigrationTypeOK
<1>2. DatabaseInv(data)
    BY DEF MigrationInv
<1>3. CASE n = 0
  <2>1. pending = "init_schema" /\ e = [Up("init_schema", data) EXCEPT !.applied = 1]
      BY <1>1, <1>3, FilesByNumber
  <2>2. Needs(pending) = {}
      BY <2>1 DEF Needs
  <2>3. DatabaseInv(e) /\ e.rows = data.rows
      BY <1>1, <1>2, <1>3, <2>1, InitSchemaUp
  <2>4. QED
      BY <2>2, <2>3
<1>4. CASE n = 1
  <2>1. pending = "seed_dev_data" /\ e = [Up("seed_dev_data", data) EXCEPT !.applied = 2]
      BY <1>1, <1>4, FilesByNumber
  <2>2. Needs(pending) = Seeded
      BY <2>1 DEF Needs
  <2>3. data.schema = SchemaAt(1)
      BY <1>1, <1>2, <1>4 DEF DatabaseInv
  <2>4. DatabaseInv(e) /\ \A c \in Filled : data.rows[c] # {} => e.rows[c] = data.rows[c]
    <3>1. data.applied = 1
        BY <1>1, <1>4
    <3>2. QED
        BY <1>2, <2>1, <3>1, SeedUp, ZenonT(30)
  <2>5. QED
      BY <2>2, <2>3, <2>4, SchemaGrows
<1>5. CASE n > 1
  <2>1. PICK m \in 3..11 : m = n + 1
      BY <1>5
  <2>2. data.applied = m - 1 /\ pending = Migrations[m] /\ data.applied + 1 = m
      BY <1>1, <2>1
  <2>3. Needs(pending) = FileOf[pending].needs
      BY <2>2, LaterFiles
  <2>4. FileOf[pending].needs \subseteq SchemaAt(m - 1)
      BY <2>2, FilesFit DEF FileFits
  <2>5. data.schema = SchemaAt(m - 1)
      BY <1>1, <1>2, <1>5, <2>2 DEF DatabaseInv
  <2>6. e = [Up(Migrations[m], data) EXCEPT !.applied = m]
      BY <2>2
  <2>7. DatabaseInv(e) /\ e.rows = data.rows
      BY <1>2, <2>2, <2>6, LaterUp, ZenonT(30)
  <2>8. QED
      BY <2>3, <2>4, <2>5, <2>7
<1>6. QED
    BY <1>3, <1>4, <1>5

LEMMA ApplyKeeps ==
  ASSUME MigrationInv, ApplyNext
  PROVE  MigrationInv'
<1>1. PICK pending : pending = Migrations[data.applied + 1]
    OBVIOUS
<1>2. PICK e : e = [Up(pending, data) EXCEPT !.applied = data.applied + 1]
    OBVIOUS
<1>3. phase = "migrating" /\ data.applied < Len(Migrations)
    BY DEF ApplyNext
<1>4. /\ Needs(pending) \subseteq data.schema
      /\ DatabaseInv(e) /\ \A c \in Filled : data.rows[c] # {} => e.rows[c] = data.rows[c]
    BY <1>1, <1>2, <1>3, ApplyFits
<1>5. /\ data' = e /\ phase' = phase /\ refused' = refused
      /\ trampled' = (trampled \/ \E c \in Filled : data.rows[c] # {} /\ e.rows[c] # data.rows[c])
      /\ command' = command /\ committed' = committed /\ reverts' = reverts /\ failures' = failures
      /\ added' = added
    BY <1>1, <1>2, <1>4 DEF ApplyNext
<1>6. ~trampled' /\ trampled' \in BOOLEAN
    BY <1>4, <1>5 DEF MigrationInv
<1>7. DatabaseInv(data') /\ DatabaseInv(committed')
    BY <1>4, <1>5 DEF MigrationInv
<1>8. MigrationTypeOK'
    BY <1>3, <1>5, <1>6, <1>7, TypesFollowNext DEF MigrationInv, MigrationTypeOK
<1>9. QED
    BY <1>3, <1>5, <1>6, <1>7, <1>8 DEF MigrationInv

\* The last file applied can be taken back, and but for the first leaves the operator's rows.
LEMMA RevertFits ==
  ASSUME MigrationInv, data.applied > 0,
         NEW after, after = Down(Migrations[data.applied], data),
         NEW e, e = [after EXCEPT !.applied = data.applied - 1]
  PROVE  /\ after.applied <= Len(Migrations) /\ DatabaseInv(e) /\ e.applied = data.applied - 1
         /\ data.applied > 1 => \A c \in Filled : "own" \in data.rows[c] => "own" \in e.rows[c]
<1>1. PICK n \in 1..11 : n = data.applied
    BY FilesByNumber DEF MigrationInv, MigrationTypeOK
<1>2. DatabaseInv(data)
    BY DEF MigrationInv
<1>3. CASE n = 1
  <2>1. after = Down("init_schema", data) /\ e = [Down("init_schema", data) EXCEPT !.applied = 0]
      BY <1>1, <1>3, FilesByNumber
  <2>2. after.applied = 1 /\ DatabaseInv(e) /\ e.applied = 0
      BY <1>1, <1>2, <1>3, <2>1, InitSchemaDown
  <2>4. QED
      BY <1>1, <1>3, <2>2, FilesByNumber
<1>4. CASE n = 2
  <2>1. after = Down("seed_dev_data", data) /\ e = [Down("seed_dev_data", data) EXCEPT !.applied = 1]
      BY <1>1, <1>4, FilesByNumber
  <2>2. /\ after.applied = 2 /\ DatabaseInv(e) /\ e.applied = 1
        /\ \A c \in Filled : "own" \in data.rows[c] => "own" \in e.rows[c]
      BY <1>1, <1>2, <1>4, <2>1, SeedDown
  <2>3. QED
      BY <1>1, <1>4, <2>2, FilesByNumber
<1>5. CASE n > 2
  <2>1. data.applied \in 3..11
      BY <1>1, <1>5
  <2>2. /\ after.applied = data.applied /\ e.applied = data.applied - 1 /\ DatabaseInv(e)
        /\ e.rows = data.rows
      BY <1>2, <2>1, LaterDown
  <2>3. QED
      BY <2>1, <2>2, FilesByNumber
<1>6. QED
    BY <1>3, <1>4, <1>5

LEMMA RevertKeeps ==
  ASSUME MigrationInv, RevertLast
  PROVE  MigrationInv'
<1>1. PICK after : after = Down(Migrations[data.applied], data)
    OBVIOUS
<1>2. PICK e : e = [after EXCEPT !.applied = data.applied - 1]
    OBVIOUS
<1>3. /\ phase = "reverting" /\ command > 0 /\ command <= data.applied /\ command \in 0..11
      /\ data.applied \in 0..11
    BY FilesByNumber DEF RevertLast, MigrationInv, MigrationTypeOK
<1>4. /\ after.applied <= Len(Migrations) /\ DatabaseInv(e) /\ e.applied = data.applied - 1
      /\ data.applied > 1 => \A c \in Filled : "own" \in data.rows[c] => "own" \in e.rows[c]
  <2>1. data.applied > 0
      BY <1>3
  <2>2. QED
      BY <1>1, <1>2, <2>1, RevertFits
<1>5. /\ data' = e /\ command' = command - 1 /\ phase' = phase /\ refused' = refused
      /\ trampled' = (trampled \/ (data.applied > 1 /\ \E c \in Filled :
                         "own" \in data.rows[c] /\ "own" \notin e.rows[c]))
      /\ committed' = committed /\ reverts' = reverts /\ failures' = failures /\ added' = added
    BY <1>1, <1>2, <1>4 DEF RevertLast
<1>6. ~trampled' /\ trampled' \in BOOLEAN
    BY <1>4, <1>5 DEF MigrationInv
<1>7. DatabaseInv(data') /\ DatabaseInv(committed')
    BY <1>4, <1>5 DEF MigrationInv
<1>8. command' \in 0..Len(Migrations) /\ command' <= data'.applied
    BY <1>3, <1>4, <1>5, FilesByNumber
<1>9. MigrationTypeOK'
    BY <1>3, <1>5, <1>6, <1>7, <1>8, TypesFollowNext DEF MigrationInv, MigrationTypeOK
<1>10. QED
    BY <1>3, <1>5, <1>6, <1>7, <1>8, <1>9 DEF MigrationInv

LEMMA AddRowKeeps ==
  ASSUME MigrationInv, NEW c \in Filled, AddRow(c)
  PROVE  MigrationInv'
<1>1. /\ DatabaseInv(data) /\ phase = "serving" /\ data.applied = 11 /\ data \in Database
    BY FilesByNumber DEF MigrationInv, AddRow, DatabaseInv
<1>2. PICK r \in {data.rows[c] \cup {"own"}, {"own"}} :
        data' = [data EXCEPT !.rows[c] = r] /\ committed' = data'
    BY DEF AddRow
<1>3. r \in SUBSET {"own", "fixture"} /\ r # {}
    BY <1>1, <1>2, DatabaseTyped
<1>4. PICK rows \in [Filled -> SUBSET {"own", "fixture"}] : rows = [data.rows EXCEPT ![c] = r]
    BY <1>1, <1>3, DatabaseTyped
<1>5. data' = [schema |-> data.schema, applied |-> 11, rows |-> rows]
  <2>1. data' = [data EXCEPT !.rows = rows]
      BY <1>2, <1>4
  <2>2. data = [schema |-> data.schema, applied |-> data.applied, rows |-> data.rows]
      BY <1>1, DatabaseTyped
  <2>3. QED
      BY <1>1, <2>1, <2>2, PartsOnly
<1>6. DatabaseInv(data')
  <2>1. data' \in Database
      BY <1>1, <1>5, DatabaseTyped, DatabaseMade
  <2>2. data.schema = SchemaAt(11)
      BY <1>1 DEF DatabaseInv
  <2>3. \A b \in Seeded : b \in data'.schema
      BY <1>5, <2>2, SchemaGrows
  <2>4. \A b \in Filled : rows[b] # {}
      BY <1>1, <1>3, <1>4, DatabaseTyped DEF DatabaseInv
  <2>5. QED
      BY <1>5, <2>1, <2>2, <2>3, <2>4 DEF DatabaseInv
<1>7. /\ phase' = phase /\ command' = command /\ reverts' = reverts /\ failures' = failures
      /\ refused' = refused /\ trampled' = trampled /\ added' \in 0..MaxRows
    BY MigrationAssumption DEF AddRow, MigrationInv, MigrationTypeOK
<1>8. MigrationTypeOK'
    BY <1>2, <1>6, <1>7, TypesFollowNext DEF MigrationInv, MigrationTypeOK
<1>9. QED
    BY <1>1, <1>2, <1>5, <1>6, <1>7, <1>8, FilesByNumber DEF MigrationInv

LEMMA ControlKeeps ==
  ASSUME MigrationInv,
         \/ \E n \in 0..Len(Migrations) : StartCore(n)
         \/ CommitMigrations \/ MigrationsApplied \/ CommandExits \/ StartFails \/ LoadCollections
         \/ StopCore \/ UNCHANGED migrationVars
  PROVE  MigrationInv'
<1>1. /\ DatabaseInv(data) /\ DatabaseInv(committed) /\ ~refused /\ ~trampled
      /\ command \in 0..11 /\ data.applied \in 0..11 /\ Len(Migrations) = 11
      /\ reverts \in 0..MaxReverts /\ failures \in 0..MaxFailures /\ added \in 0..MaxRows
      /\ phase \in {"stopped", "migrating", "loading", "serving", "reverting"}
      /\ refused \in BOOLEAN /\ trampled \in BOOLEAN
      /\ phase = "reverting" => command <= data.applied
      /\ phase \in {"loading", "serving"} => data.applied = 11
    BY FilesByNumber DEF MigrationInv, MigrationTypeOK
<1>2. /\ data' \in {data, committed} /\ committed' \in {data, committed}
      /\ refused' = refused /\ trampled' = trampled /\ added' = added
    BY DEF StartCore, CommitMigrations, MigrationsApplied, CommandExits, StartFails,
           LoadCollections, StopCore, migrationVars
<1>3. DatabaseInv(data') /\ DatabaseInv(committed')
    BY <1>1, <1>2
<1>4. /\ command' \in 0..11 /\ reverts' \in 0..MaxReverts /\ failures' \in 0..MaxFailures
      /\ phase' \in {"stopped", "migrating", "loading", "serving", "reverting"}
  <2>1. CASE \E n \in 0..Len(Migrations) : StartCore(n)
      BY <1>1, <2>1, MigrationAssumption DEF StartCore
  <2>2. CASE StartFails
      BY <1>1, <2>2, MigrationAssumption DEF StartFails
  <2>3. CASE CommitMigrations \/ MigrationsApplied \/ CommandExits \/ LoadCollections
             \/ StopCore \/ UNCHANGED migrationVars
      BY <1>1, <2>3
      DEF CommitMigrations, MigrationsApplied, CommandExits, LoadCollections, StopCore, migrationVars
  <2>4. QED
      BY <2>1, <2>2, <2>3
<1>5. /\ phase' = "reverting" => command' <= data'.applied
      /\ phase' \in {"loading", "serving"} => data'.applied = 11
    BY <1>1
    DEF StartCore, CommitMigrations, MigrationsApplied, CommandExits, StartFails, LoadCollections,
        StopCore, migrationVars
<1>6. MigrationTypeOK'
    BY <1>1, <1>2, <1>3, <1>4, TypesFollowNext
<1>7. QED
    BY <1>1, <1>2, <1>3, <1>5, <1>6 DEF MigrationInv

LEMMA MigrationStep ==
  MigrationInv /\ [MigrationNext]_migrationVars => MigrationInv'
<1> SUFFICES ASSUME MigrationInv, [MigrationNext]_migrationVars PROVE MigrationInv'
    OBVIOUS
<1>1. CASE ApplyNext
    BY <1>1, ApplyKeeps
<1>2. CASE RevertLast
    BY <1>2, RevertKeeps
<1>3. CASE \E c \in Filled : AddRow(c)
    BY <1>3, AddRowKeeps
<1>4. CASE \/ \E n \in 0..Len(Migrations) : StartCore(n)
           \/ CommitMigrations \/ MigrationsApplied \/ CommandExits \/ StartFails \/ LoadCollections
           \/ StopCore \/ UNCHANGED migrationVars
    BY <1>4, ControlKeeps
<1>5. QED
    BY <1>1, <1>2, <1>3, <1>4 DEF MigrationNext

LEMMA MigrationInvIsSound == MigrationInv => CollectionsComeUp
<1> SUFFICES ASSUME MigrationInv PROVE CollectionsComeUp
    OBVIOUS
<1>1. phase \in {"loading", "serving"} => data.schema = FullSchema /\ data.rows["users"] # {}
  <2>1. SUFFICES ASSUME phase \in {"loading", "serving"}
                 PROVE  data.schema = FullSchema /\ data.rows["users"] # {}
      OBVIOUS
  <2>2. data.applied = 11 /\ DatabaseInv(data)
      BY <2>1, FilesByNumber DEF MigrationInv
  <2>3. "users" \in Filled
      BY DEF Filled
  <2>4. QED
      BY <2>2, <2>3, SchemaGrows DEF DatabaseInv
<1>2. QED
    BY <1>1 DEF MigrationInv, CollectionsComeUp

\* Whatever the imperative code had provisioned, however often and far `migrate down` goes and
\* however many starts die half way: setupPocketBase finds what each file looks up, a core
\* that serves has the whole schema and a user, and no file touches rows that were there.
THEOREM CollectionsAlwaysComeUp == MigrationSpec => []CollectionsComeUp
<1>1. MigrationInv => CollectionsComeUp
    BY MigrationInvIsSound
<1>2. QED
    BY <1>1, MigrationBegins, MigrationStep, PTL DEF MigrationSpec
-----------------------------------------------------------------------------
(* Topics, published and read back *)

\* Every token of a topic: words of ids and prefixes, and those of the layout.
Tokens == Words \cup {"/", "+", "agent", "task", "new", "status"} \cup Kinds
Lists == Seq(Seq(Tokens))

LEMMA LayoutIsTokens ==
  /\ Slash \in Seq(Tokens) /\ Len(Slash) = 1 /\ Slash[1] = "/"
  /\ \A w \in Tokens : <<w>> \in Seq(Tokens)
  /\ \A v, w \in Tokens : <<v, w>> \in Seq(Tokens)
  /\ \A u, v, w \in Tokens : <<u, v, w>> \in Seq(Tokens)
  /\ {"/", "+", "agent", "task", "new", "status"} \subseteq Tokens /\ Kinds \subseteq Tokens
BY DEF Tokens, Slash

\* One token more: it begins a level, or lengthens the last.
Lengthened(levels, w) ==
  IF w = "/" THEN Append(levels, <<>>)
  ELSE [levels EXCEPT ![Len(levels)] = Append(levels[Len(levels)], w)]

LEMMA LengthenedIsLevels ==
  ASSUME NEW levels \in Lists, NEW w \in Tokens
  PROVE  /\ Lengthened(levels, w) \in Lists
         /\ levels # <<>> => Lengthened(levels, w) # <<>>
<1>1. CASE w = "/"
  <2>1. <<>> \in Seq(Tokens)
      OBVIOUS
  <2>2. QED
      BY <1>1, <2>1, AppendProperties DEF Lengthened, Lists
<1>2. CASE w # "/" /\ levels = <<>>
  <2>1. Lengthened(levels, w) = [levels EXCEPT ![Len(levels)] = Append(levels[Len(levels)], w)]
      BY <1>2 DEF Lengthened
  <2>2. DOMAIN levels = {} /\ DOMAIN Lengthened(levels, w) = {}
      BY <1>2, <2>1
  <2>3. Lengthened(levels, w) = levels
      BY <1>2, <2>1, <2>2 DEF Lists
  <2>4. QED
      BY <1>2, <2>3
<1>3. CASE w # "/" /\ levels # <<>>
  <2>1. Len(levels) \in 1..Len(levels)
      BY <1>3 DEF Lists
  <2>2. Append(levels[Len(levels)], w) \in Seq(Tokens)
    <3>1. levels[Len(levels)] \in Seq(Tokens)
        BY <2>1 DEF Lists
    <3>2. QED
        BY <3>1, AppendProperties
  <2>3. Lengthened(levels, w) \in Lists /\ Len(Lengthened(levels, w)) = Len(levels)
      BY <1>3, <2>1, <2>2, ExceptSeq DEF Lengthened, Lists
  <2>4. QED
      BY <1>3, <2>1, <2>3
<1>4. QED
    BY <1>1, <1>2, <1>3

LEMMA LevelsByRounds ==
  ASSUME NEW text, text \in Seq(Tokens)
  PROVE  \E f :
           /\ f \in [0..Len(text) -> Lists]
           /\ f[0] = << <<>> >> /\ Levels(text) = f[Len(text)]
           /\ \A n \in 1..Len(text) : f[n] = Lengthened(f[n - 1], text[n])
<1> DEFINE step == [a \in Lists \X Tokens |-> Lengthened(a[1], a[2])]
           Body(f) == [n \in 0..Len(text) |->
                        IF n = 0 THEN << <<>> >>
                        ELSE IF text[n] = "/" THEN Append(f[n - 1], <<>>)
                        ELSE [f[n - 1] EXCEPT ![Len(f[n - 1])] = Append(f[n - 1][Len(f[n - 1])], text[n])]]
           h == CHOOSE f : f = Body(f)
<1>1. Len(text) \in Nat /\ \A n \in 1..Len(text) : text[n] \in Tokens
    OBVIOUS
<1>2. step \in [Lists \X Tokens -> Lists]
    BY LengthenedIsLevels
<1>3. PICK f : /\ f \in [0..Len(text) -> Lists] /\ f[0] = << <<>> >>
               /\ \A n \in 1..Len(text) : f[n] = step[f[n - 1], text[n]]
  <2> HIDE DEF step
  <2>1. << <<>> >> \in Lists
      BY DEF Lists
  <2>2. \E f : IsLoop(f, text, Lists, << <<>> >>, step)
      BY <1>2, <2>1, LoopHasValues
  <2>3. QED
      BY <2>2 DEF IsLoop
<1>4. \A n \in 1..Len(text) : n - 1 \in 0..Len(text) /\ n \in 0..Len(text) /\ n # 0
    BY <1>1
<1>5. \A n \in 1..Len(text) : f[n] = Lengthened(f[n - 1], text[n])
  <2> SUFFICES ASSUME NEW n \in 1..Len(text) PROVE f[n] = Lengthened(f[n - 1], text[n])
      OBVIOUS
  <2>1. f[n - 1] \in Lists /\ text[n] \in Tokens
      BY <1>1, <1>3, <1>4
  <2>2. QED
      BY <1>3, <2>1
<1>6. f = Body(f)
  <2>1. \A n \in 0..Len(text) : n # 0 => n \in 1..Len(text)
      BY <1>1
  <2>2. \A n \in 0..Len(text) : f[n] = Body(f)[n]
      BY <1>3, <1>5, <2>1 DEF Lengthened
  <2>3. QED
      BY <1>3, <2>2
<1>7. h = Body(h)
  <2> HIDE DEF Body
  <2> QED
      BY <1>6
<1>8. Levels(text) = h[Len(text)]
    BY DEF Levels
<1> HIDE DEF h
<1>9. h[0] = << <<>> >> /\ \A n \in 1..Len(text) : h[n] = Lengthened(h[n - 1], text[n])
  <2>1. 0 \in 0..Len(text)
      BY <1>1
  <2>2. QED
      BY <1>4, <1>7, <2>1 DEF Lengthened
<1>10. \A n \in 0..Len(text) : h[n] = f[n]
  <2> HIDE DEF Body
  <2>1. \A n \in 1..Len(text) : h[n - 1] = f[n - 1] => h[n] = f[n]
      BY <1>5, <1>9
  <2>2. Len(text) \in Nat /\ h[0] = f[0]
      BY <1>1, <1>3, <1>9
  <2>3. QED
      BY <2>1, <2>2, LoopsAgree
<1>11. Levels(text) = f[Len(text)]
    BY <1>1, <1>8, <1>10
<1>12. QED
    BY <1>3, <1>5, <1>11

LEMMA LevelsOfNone == Levels(<<>>) = << <<>> >>
<1>1. <<>> \in Seq(Tokens) /\ Len(<<>>) = 0
    OBVIOUS
<1>2. QED
    BY <1>1, LevelsByRounds

LEMMA LevelsOfAppend ==
  ASSUME NEW text \in Seq(Tokens), NEW w \in Tokens
  PROVE  Levels(Append(text, w)) = Lengthened(Levels(text), w)
<1> DEFINE more == Append(text, w)
           L == Len(text)
<1>1. /\ more \in Seq(Tokens) /\ Len(more) = L + 1 /\ L \in Nat
      /\ \A n \in 1..L : more[n] = text[n]
      /\ more[L + 1] = w
    BY AppendProperties
<1>2. PICK f : /\ f[0] = << <<>> >> /\ Levels(text) = f[L]
               /\ \A n \in 1..L : f[n] = Lengthened(f[n - 1], text[n])
    BY LevelsByRounds
<1> HIDE DEF more
<1>3. PICK g : /\ g[0] = << <<>> >> /\ Levels(more) = g[Len(more)]
               /\ \A n \in 1..Len(more) : g[n] = Lengthened(g[n - 1], more[n])
    BY <1>1, LevelsByRounds
<1> HIDE DEF L
<1>4. \A n \in 1..L : f[n - 1] = g[n - 1] => f[n] = g[n]
  <2>1. \A n \in 1..L : n \in 1..Len(more)
      BY <1>1
  <2>2. QED
      BY <1>1, <1>2, <1>3, <2>1
<1>5. f[L] = g[L]
  <2>1. L \in 0..L
      BY <1>1
  <2>2. L \in Nat /\ f[0] = g[0]
      BY <1>1, <1>2, <1>3
  <2>3. \A n \in 0..L : f[n] = g[n]
      BY <1>4, <2>2, LoopsAgree, ZenonT(30)
  <2>4. QED
      BY <2>1, <2>3
<1>6. g[L + 1] = Lengthened(g[(L + 1) - 1], more[L + 1])
  <2>1. L + 1 \in 1..Len(more)
      BY <1>1
  <2>2. QED
      BY <1>3, <2>1
<1>7. (L + 1) - 1 = L
    BY <1>1
<1>8. QED
    BY <1>1, <1>2, <1>3, <1>5, <1>6, <1>7 DEF more

LEMMA LevelsAreTexts ==
  ASSUME NEW text \in Seq(Tokens)
  PROVE  Levels(text) \in Lists /\ Levels(text) # <<>>
<1> DEFINE G == {s \in Seq(Tokens) : Levels(s) \in Lists /\ Levels(s) # <<>>}
<1>1. <<>> \in G
  <2>1. <<>> \in Seq(Tokens) /\ << <<>> >> \in Lists /\ << <<>> >> # <<>>
      BY DEF Lists
  <2>2. QED
      BY <2>1, LevelsOfNone
<1>2. \A s \in Seq(Tokens), w \in Tokens : s \in G => Append(s, w) \in G
    BY LevelsOfAppend, LengthenedIsLevels, AppendProperties
<1> HIDE DEF G
<1>3. Seq(Tokens) \subseteq G
    BY <1>1, <1>2, SequencesByAppend
<1>4. QED
    BY <1>3 DEF G

\* A text without a separator is one level.
Whole(text) == \A i \in DOMAIN text : text[i] # "/"

LEMMA LevelsOfWhole ==
  ASSUME NEW text \in Seq(Tokens), Whole(text)
  PROVE  Levels(text) = <<text>>
<1> DEFINE G == {s \in Seq(Tokens) : Whole(s) => Levels(s) = <<s>>}
<1>1. <<>> \in G
    BY LevelsOfNone
<1>2. ASSUME NEW s \in Seq(Tokens), NEW w \in Tokens, s \in G PROVE Append(s, w) \in G
  <2>1. /\ Append(s, w) \in Seq(Tokens) /\ Len(Append(s, w)) = Len(s) + 1 /\ Len(s) \in Nat
        /\ \A i \in 1..Len(s) : Append(s, w)[i] = s[i]
        /\ Append(s, w)[Len(s) + 1] = w
      BY AppendProperties
  <2>2. SUFFICES ASSUME Whole(Append(s, w)) PROVE Levels(Append(s, w)) = <<Append(s, w)>>
      BY <2>1
  <2>3. DOMAIN Append(s, w) = 1..(Len(s) + 1) /\ DOMAIN s = 1..Len(s)
      BY <2>1
  <2>4. w # "/" /\ Whole(s)
    <3>1. Len(s) + 1 \in 1..(Len(s) + 1) /\ 1..Len(s) \subseteq 1..(Len(s) + 1)
        BY <2>1
    <3>2. QED
        BY <2>1, <2>2, <2>3, <3>1 DEF Whole
  <2>5. Levels(s) = <<s>>
      BY <1>2, <2>4
  <2>6. Levels(Append(s, w)) = Lengthened(<<s>>, w)
      BY <2>5, LevelsOfAppend
  <2>7. Lengthened(<<s>>, w) = [<<s>> EXCEPT ![1] = Append(s, w)]
    <3>1. Len(<<s>>) = 1 /\ <<s>>[1] = s
        OBVIOUS
    <3>2. QED
        BY <2>4, <3>1 DEF Lengthened
  <2>8. [<<s>> EXCEPT ![1] = Append(s, w)] = <<Append(s, w)>>
      OBVIOUS
  <2>9. QED
      BY <2>6, <2>7, <2>8
<1> HIDE DEF G
<1>3. Seq(Tokens) \subseteq G
    BY <1>1, <1>2, SequencesByAppend
<1>4. QED
    BY <1>3 DEF G

\* Lengthening goes on at the end of a concatenation.
LEMMA LengthenedAtEnd ==
  ASSUME NEW a \in Lists, NEW b \in Lists, b # <<>>, NEW w \in Tokens
  PROVE  Lengthened(a \o b, w) = a \o Lengthened(b, w)
<1>1. /\ a \in Seq(Seq(Tokens)) /\ b \in Seq(Seq(Tokens)) /\ a \o b \in Seq(Seq(Tokens))
      /\ Len(a) \in Nat /\ Len(b) \in Nat \ {0} /\ Len(a \o b) = Len(a) + Len(b)
      /\ \A i \in 1..(Len(a) + Len(b)) : (a \o b)[i] = IF i <= Len(a) THEN a[i] ELSE b[i - Len(a)]
    BY ConcatProperties, EmptySeq DEF Lists
<1>2. CASE w = "/"
  <2>1. /\ Append(a \o b, <<>>) = (a \o b) \o << <<>> >>
        /\ Append(b, <<>>) = b \o << <<>> >>
        /\ << <<>> >> \in Seq(Seq(Tokens))
    <3>1. <<>> \in Seq(Tokens)
        OBVIOUS
    <3>2. QED
        BY <1>1, <3>1, AppendIsConcat, SMTT(30)
  <2>2. (a \o b) \o << <<>> >> = a \o (b \o << <<>> >>)
      BY <1>1, <2>1, ConcatAssociative, SMTT(30)
  <2>3. QED
      BY <1>2, <2>1, <2>2 DEF Lengthened
<1>3. CASE w # "/"
  <2> DEFINE n == Len(a) + Len(b)
             l == Append(b[Len(b)], w)
             c == [b EXCEPT ![Len(b)] = l]
             d == [a \o b EXCEPT ![n] = l]
  <2>1. Len(b) \in 1..Len(b) /\ n \in 1..n /\ ~ (n <= Len(a)) /\ n - Len(a) = Len(b)
      BY <1>1
  <2>2. (a \o b)[n] = b[Len(b)]
      BY <1>1, <2>1
  <2>3. l \in Seq(Tokens)
    <3>1. b[Len(b)] \in Seq(Tokens)
        BY <1>1, <2>1
    <3>2. QED
        BY <3>1, AppendProperties
  <2>4. Lengthened(a \o b, w) = d /\ Lengthened(b, w) = c
      BY <1>1, <1>3, <2>2 DEF Lengthened
  <2> HIDE DEF l
  <2>5. /\ c \in Seq(Seq(Tokens)) /\ Len(c) = Len(b)
        /\ \A i \in 1..Len(b) : c[i] = IF i = Len(b) THEN l ELSE b[i]
      BY <1>1, <2>1, <2>3, ExceptSeq
  <2>6. /\ d \in Seq(Seq(Tokens)) /\ Len(d) = n
        /\ \A i \in 1..n : d[i] = IF i = n THEN l ELSE (a \o b)[i]
    <3> DEFINE ab == a \o b
    <3>1. ab \in Seq(Seq(Tokens)) /\ Len(ab) = n /\ n \in 1..Len(ab)
        BY <1>1, <2>1
    <3>2. d = [ab EXCEPT ![n] = l]
        OBVIOUS
    <3> HIDE DEF ab, n, d
    <3>3. /\ d \in Seq(Seq(Tokens)) /\ Len(d) = Len(ab)
          /\ \A i \in 1..Len(ab) : d[i] = IF i = n THEN l ELSE ab[i]
        BY <2>3, <3>1, <3>2, ExceptSeq
    <3>4. QED
        BY <3>1, <3>3 DEF ab
  <2> HIDE DEF c, d
  <2>7. /\ a \o c \in Seq(Seq(Tokens)) /\ Len(a \o c) = n
        /\ \A i \in 1..n : (a \o c)[i] = IF i <= Len(a) THEN a[i] ELSE c[i - Len(a)]
    <3>1. /\ a \o c \in Seq(Seq(Tokens)) /\ Len(a \o c) = Len(a) + Len(c)
          /\ \A i \in 1..(Len(a) + Len(c)) : (a \o c)[i] = IF i <= Len(a) THEN a[i] ELSE c[i - Len(a)]
      <4>1. a \in Seq(Seq(Tokens)) /\ c \in Seq(Seq(Tokens))
          BY <1>1, <2>5
      <4>2. QED
          BY <4>1, ConcatProperties
    <3>2. QED
        BY <2>5, <3>1
  <2>8. ASSUME NEW i \in 1..n PROVE d[i] = (a \o c)[i]
    <3>1. CASE i <= Len(a)
        BY <1>1, <2>1, <2>6, <2>7, <3>1
    <3>2. CASE ~ (i <= Len(a))
      <4>1. i - Len(a) \in 1..Len(b) /\ (i - Len(a) = Len(b) <=> i = n)
          BY <1>1, <3>2
      <4>2. QED
          BY <1>1, <2>5, <2>6, <2>7, <3>2, <4>1
    <3>3. QED
        BY <3>1, <3>2
  <2>9. d = a \o c
      BY <2>6, <2>7, <2>8, SeqEqual
  <2>10. QED
      BY <2>4, <2>9
<1>4. QED
    BY <1>2, <1>3

\* A separator ends a level.
LEMMA LevelsOfJoin ==
  ASSUME NEW s \in Seq(Tokens), NEW text \in Seq(Tokens)
  PROVE  Levels((s \o Slash) \o text) = Levels(s) \o Levels(text)
<1> DEFINE head == s \o Slash
           G == {t \in Seq(Tokens) : Levels(head \o t) = Levels(s) \o Levels(t)}
<1>1. Slash \in Seq(Tokens) /\ "/" \in Tokens /\ Slash = <<"/">>
    BY LayoutIsTokens DEF Slash
<1>2. head \in Seq(Tokens) /\ head = Append(s, "/")
    BY <1>1, AppendIsConcat, AppendProperties
<1>3. Levels(s) \in Lists /\ Levels(s) # <<>>
    BY LevelsAreTexts
<1> HIDE DEF head
<1>4. <<>> \in G
  <2>1. head \o <<>> = head
      BY <1>2, ConcatEmptySeq
  <2>2. Levels(head) = Append(Levels(s), <<>>)
      BY <1>1, <1>2, LevelsOfAppend DEF Lengthened
  <2>3. Append(Levels(s), <<>>) = Levels(s) \o << <<>> >>
    <3>1. <<>> \in Seq(Tokens)
        OBVIOUS
    <3>2. QED
        BY <1>3, <3>1, AppendIsConcat DEF Lists
  <2>4. <<>> \in Seq(Tokens)
      OBVIOUS
  <2>5. QED
      BY <2>1, <2>2, <2>3, <2>4, LevelsOfNone
<1>5. ASSUME NEW t \in Seq(Tokens), NEW w \in Tokens, t \in G PROVE Append(t, w) \in G
  <2>1. Append(t, w) \in Seq(Tokens) /\ Append(t, w) = t \o <<w>> /\ <<w>> \in Seq(Tokens)
      BY AppendProperties, AppendIsConcat
  <2>2. head \o t \in Seq(Tokens) /\ head \o (t \o <<w>>) = (head \o t) \o <<w>>
      BY <1>2, <2>1, ConcatAssociative, ConcatProperties
  <2>3. (head \o t) \o <<w>> = Append(head \o t, w)
      BY <2>2, AppendIsConcat
  <2>4. Levels(Append(head \o t, w)) = Lengthened(Levels(head \o t), w)
      BY <2>2, LevelsOfAppend
  <2>5. Levels(head \o t) = Levels(s) \o Levels(t)
      BY <1>5
  <2>6. Lengthened(Levels(s) \o Levels(t), w) = Levels(s) \o Lengthened(Levels(t), w)
      BY <1>3, LevelsAreTexts, LengthenedAtEnd
  <2>7. Lengthened(Levels(t), w) = Levels(Append(t, w))
      BY LevelsOfAppend
  <2>8. QED
      BY <2>1, <2>2, <2>3, <2>4, <2>5, <2>6, <2>7
<1> HIDE DEF G
<1>6. Seq(Tokens) \subseteq G
    BY <1>4, <1>5, SequencesByAppend
<1>7. QED
    BY <1>6 DEF G, head

\* Two and three tokens, one by one.
LEMMA TokenBefore ==
  ASSUME NEW u \in Tokens, NEW y \in Seq(Tokens), NEW z \in Seq(Tokens), Len(z) = Len(y) + 1,
         z[1] = u, \A i \in 1..Len(y) : z[i + 1] = y[i]
  PROVE  z = <<u>> \o y
<1> DEFINE x == <<u>>
<1>1. x \in Seq(Tokens) /\ Len(x) = 1 /\ x[1] = u /\ Len(y) \in Nat
    OBVIOUS
<1> HIDE DEF x
<1>2. /\ x \o y \in Seq(Tokens) /\ Len(x \o y) = Len(x) + Len(y)
      /\ \A i \in 1..(Len(x) + Len(y)) : (x \o y)[i] = IF i <= Len(x) THEN x[i] ELSE y[i - Len(x)]
    BY <1>1, ConcatProperties
<1>3. Len(z) = Len(x \o y)
    BY <1>1, <1>2
<1>4. ASSUME NEW i \in 1..Len(z) PROVE z[i] = (x \o y)[i]
  <2>1. CASE i = 1
      BY <1>1, <1>2, <2>1
  <2>2. CASE i # 1
    <3>1. i - 1 \in 1..Len(y) /\ (i - 1) + 1 = i /\ i \in 1..(Len(x) + Len(y)) /\ ~ (i <= Len(x))
        BY <1>1, <2>2
    <3>2. z[i] = y[i - 1]
        BY <3>1
    <3>3. (x \o y)[i] = y[i - 1]
        BY <1>1, <1>2, <3>1
    <3>4. QED
        BY <3>2, <3>3
  <2>3. QED
      BY <2>1, <2>2
<1>5. z = x \o y
    BY <1>2, <1>3, <1>4, SeqEqual
<1>6. QED
    BY <1>5 DEF x

LEMMA TokensOneByOne ==
  ASSUME NEW u \in Tokens, NEW v \in Tokens, NEW w \in Tokens
  PROVE  <<u, v>> = <<u>> \o <<v>> /\ <<u, v, w>> = <<u>> \o (<<v>> \o <<w>>)
<1>1. ASSUME NEW a \in Tokens, NEW b \in Tokens PROVE <<a, b>> = <<a>> \o <<b>>
  <2> DEFINE y == <<b>>
             z == <<a, b>>
  <2>1. /\ y \in Seq(Tokens) /\ Len(y) = 1 /\ y[1] = b
        /\ z \in Seq(Tokens) /\ Len(z) = 2 /\ z[1] = a /\ z[2] = b
      OBVIOUS
  <2> HIDE DEF y, z
  <2>2. Len(z) = Len(y) + 1 /\ \A i \in 1..Len(y) : z[i + 1] = y[i]
      BY <2>1
  <2>3. z = <<a>> \o y
      BY <2>1, <2>2, TokenBefore
  <2>4. QED
      BY <2>3 DEF y, z
<1>2. <<u, v, w>> = <<u>> \o <<v, w>>
  <2> DEFINE y == <<v, w>>
             z == <<u, v, w>>
  <2>1. /\ y \in Seq(Tokens) /\ Len(y) = 2 /\ y[1] = v /\ y[2] = w
        /\ z \in Seq(Tokens) /\ Len(z) = 3 /\ z[1] = u /\ z[2] = v /\ z[3] = w
      OBVIOUS
  <2> HIDE DEF y, z
  <2>2. Len(z) = Len(y) + 1 /\ \A i \in 1..Len(y) : z[i + 1] = y[i]
      BY <2>1
  <2>3. z = <<u>> \o y
      BY <2>1, <2>2, TokenBefore
  <2>4. QED
      BY <2>3 DEF y, z
<1>3. <<u, v>> = <<u>> \o <<v>> /\ <<v, w>> = <<v>> \o <<w>>
    BY <1>1
<1>4. QED
    BY <1>2, <1>3

\* Concatenation, as the steps that regroup one use it.
Cat(x, y) == x \o y

LEMMA CatRegroups ==
  /\ \A x, y \in Seq(Tokens) : Cat(x, y) \in Seq(Tokens)
  /\ \A x, y, z \in Seq(Tokens) : Cat(Cat(x, y), z) = Cat(x, Cat(y, z))
<1>1. ASSUME NEW x \in Seq(Tokens), NEW y \in Seq(Tokens) PROVE Cat(x, y) \in Seq(Tokens)
    BY ConcatProperties DEF Cat
<1>2. ASSUME NEW x \in Seq(Tokens), NEW y \in Seq(Tokens), NEW z \in Seq(Tokens)
      PROVE  Cat(Cat(x, y), z) = Cat(x, Cat(y, z))
  <2>1. (x \o y) \o z = x \o (y \o z)
      BY ConcatAssociative
  <2>2. QED
      BY <2>1 DEF Cat
<1>3. QED
    BY <1>1, <1>2

\* What is before the agent's id.
AgentHead(prefix) == prefix \o <<"/", "agent", "/">>

\* A topic's beginning and rest, level by level and up to the agent's id.
LEMMA BaseThenRest ==
  ASSUME NEW prefix \in Seq(Tokens), NEW agent \in Seq(Tokens), NEW rest \in Seq(Tokens)
  PROVE  /\ Cat(Base(prefix, agent), rest)
              = Cat(Cat(prefix, Slash), Cat(Cat(<<"agent">>, Slash), Cat(Cat(agent, Slash), rest)))
         /\ Cat(Base(prefix, agent), rest)
              = Cat(AgentHead(prefix), Cat(agent, Cat(Slash, rest)))
         /\ Base(prefix, agent) \in Seq(Tokens)
         /\ AgentHead(prefix) \in Seq(Tokens)
<1> DEFINE m == <<"/", "agent", "/">>
           a == <<"agent">>
           sl == Slash
           T == Seq(Tokens)
<1>1. prefix \in T /\ agent \in T /\ rest \in T
    OBVIOUS
<1>2. sl \in T /\ a \in T /\ m \in T /\ m = Cat(sl, Cat(a, sl))
  <2>1. "/" \in Tokens /\ "agent" \in Tokens /\ Slash = <<"/">>
      BY LayoutIsTokens DEF Slash
  <2>2. QED
      BY <2>1, LayoutIsTokens, TokensOneByOne DEF Cat
<1>3. Base(prefix, agent) = Cat(Cat(Cat(prefix, m), agent), sl)
    BY DEF Base, Cat
<1>4. /\ \A x, y \in T : Cat(x, y) \in T
      /\ \A x, y, z \in T : Cat(Cat(x, y), z) = Cat(x, Cat(y, z))
    BY CatRegroups
<1> HIDE DEF m, a, sl, T
<1> DEFINE h == Cat(prefix, m)
<1>5. Base(prefix, agent) \in T /\ h \in T
  <2>1. h \in T
      BY <1>1, <1>2, <1>4
  <2>2. Cat(h, agent) \in T
      BY <1>1, <1>4, <2>1
  <2>3. QED
      BY <1>2, <1>3, <1>4, <2>1, <2>2
<1>6. Cat(Base(prefix, agent), rest) = Cat(h, Cat(agent, Cat(sl, rest)))
  <2> HIDE DEF h
  <2>1. Cat(h, agent) \in T /\ Cat(sl, rest) \in T
      BY <1>1, <1>2, <1>4, <1>5
  <2>2. Cat(Cat(Cat(h, agent), sl), rest) = Cat(Cat(h, agent), Cat(sl, rest))
      BY <1>1, <1>2, <1>4, <2>1
  <2>3. Cat(Cat(h, agent), Cat(sl, rest)) = Cat(h, Cat(agent, Cat(sl, rest)))
      BY <1>1, <1>4, <1>5, <2>1
  <2>4. Base(prefix, agent) = Cat(Cat(h, agent), sl)
      BY <1>3 DEF h
  <2>5. QED
      BY <2>2, <2>3, <2>4
<1>7. Cat(Cat(prefix, m), Cat(agent, Cat(sl, rest)))
        = Cat(Cat(prefix, sl), Cat(Cat(a, sl), Cat(Cat(agent, sl), rest)))
  <2> DEFINE r == Cat(agent, Cat(sl, rest))
  <2>1. r \in T /\ r = Cat(Cat(agent, sl), rest)
      BY <1>1, <1>2, <1>4
  <2> HIDE DEF r
  <2>2. Cat(Cat(prefix, m), r) = Cat(Cat(prefix, sl), Cat(Cat(a, sl), r))
      BY <1>1, <1>2, <1>4, <2>1
  <2>3. QED
      BY <2>1, <2>2 DEF r
<1>8. AgentHead(prefix) = h
    BY DEF AgentHead, Cat, m
<1>9. QED
    BY <1>5, <1>6, <1>7, <1>8 DEF T, a, sl

\* The rest of a topic, after the agent's level.
Rest(kind, task) ==
  CASE kind = "new"    -> <<"task", "/", "new">>
    [] kind = "status" -> <<"task", "/">> \o task \o <<"/", "status">>
    [] OTHER           -> <<kind>>

LEMMA RestByLevels ==
  ASSUME NEW task \in Seq(Tokens)
  PROVE  /\ Rest("new", task) = (<<"task">> \o Slash) \o <<"new">>
         /\ Rest("status", task) = (<<"task">> \o Slash) \o ((task \o Slash) \o <<"status">>)
         /\ Rest("status", task) = (<<"task", "/">> \o task) \o <<"/", "status">>
         /\ \A kind \in Kinds \ {"new", "status"} : Rest(kind, task) = <<kind>>
         /\ \A kind \in Kinds : Rest(kind, task) \in Seq(Tokens)
<1> DEFINE T == Seq(Tokens)
           t == <<"task">>
           sl == Slash
           n == <<"new">>
           s == <<"status">>
<1>0. task \in T
    OBVIOUS
<1>1. /\ t \in T /\ sl \in T /\ n \in T /\ s \in T
      /\ <<"task", "/", "new">> = Cat(t, Cat(sl, n)) /\ <<"task", "/">> = Cat(t, sl)
      /\ <<"/", "status">> = Cat(sl, s)
  <2>1. {"/", "task", "new", "status"} \subseteq Tokens /\ Slash = <<"/">>
      BY LayoutIsTokens DEF Slash
  <2>2. QED
      BY <2>1, LayoutIsTokens, TokensOneByOne, SMTT(30) DEF Cat
<1>2. /\ Rest("new", task) = <<"task", "/", "new">>
      /\ Rest("status", task) = Cat(Cat(<<"task", "/">>, task), <<"/", "status">>)
      /\ \A kind \in Kinds \ {"new", "status"} : Rest(kind, task) = <<kind>>
    BY DEF Rest, Kinds, Cat
<1>3. /\ \A x, y \in T : Cat(x, y) \in T
      /\ \A x, y, z \in T : Cat(Cat(x, y), z) = Cat(x, Cat(y, z))
    BY CatRegroups
<1> HIDE DEF t, sl, n, s, T
<1>5. Rest("new", task) = Cat(Cat(t, sl), n)
    BY <1>1, <1>2, <1>3
<1>6. Rest("status", task) = Cat(Cat(t, sl), Cat(Cat(task, sl), s))
  <2>1. Cat(t, sl) \in T /\ Cat(sl, s) \in T
      BY <1>1, <1>3
  <2>2. Cat(Cat(Cat(t, sl), task), Cat(sl, s)) = Cat(Cat(t, sl), Cat(task, Cat(sl, s)))
      BY <1>0, <1>3, <2>1
  <2>3. Cat(task, Cat(sl, s)) = Cat(Cat(task, sl), s)
      BY <1>0, <1>1, <1>3
  <2>4. QED
      BY <1>1, <1>2, <2>2, <2>3
<1>7. Rest("status", task) = Cat(Cat(<<"task", "/">>, task), <<"/", "status">>)
    BY <1>2
<1>8. \A kind \in Kinds : Rest(kind, task) \in Seq(Tokens)
  <2>1. Rest("new", task) \in T /\ Rest("status", task) \in T
      BY <1>0, <1>1, <1>3, <1>5, <1>6
  <2>2. \A kind \in Kinds : <<kind>> \in Seq(Tokens)
      BY LayoutIsTokens
  <2>3. QED
      BY <1>2, <2>1, <2>2 DEF T
<1>9. QED
    BY <1>2, <1>5, <1>6, <1>7, <1>8 DEF t, sl, n, s, Cat

\* How a filter's levels fit a topic's.
Fits(f, t) == Len(f) = Len(t) /\ \A i \in 1..Len(f) : f[i] = <<"+">> \/ f[i] = t[i]

\* Levels fit one by one, and as many of them as there are.
LEMMA FitsBefore ==
  ASSUME NEW x \in Seq(Tokens), NEW y \in Seq(Tokens), NEW f \in Lists, NEW t \in Lists
  PROVE  /\ Fits(<<x>> \o f, <<y>> \o t) <=> (x = <<"+">> \/ x = y) /\ Fits(f, t)
         /\ <<x>> \o f \in Lists /\ Len(<<x>> \o f) = 1 + Len(f)
<1> DEFINE a == <<x>>
           b == <<y>>
           plus == <<"+">>
           c == a \o f
           d == b \o t
           m == Len(f)
           n == Len(t)
<1>1. /\ a \in Lists /\ b \in Lists /\ Len(a) = 1 /\ Len(b) = 1 /\ a[1] = x /\ b[1] = y
      /\ m \in Nat /\ n \in Nat
    BY DEF Lists
<1> HIDE DEF a, b, plus, m, n
<1>2. /\ c \in Lists /\ Len(c) = Len(a) + Len(f)
      /\ \A i \in 1..(Len(a) + Len(f)) : c[i] = IF i <= Len(a) THEN a[i] ELSE f[i - Len(a)]
    BY <1>1, ConcatProperties DEF Lists
<1>3. /\ Len(d) = Len(b) + Len(t)
      /\ \A i \in 1..(Len(b) + Len(t)) : d[i] = IF i <= Len(b) THEN b[i] ELSE t[i - Len(b)]
    BY <1>1, ConcatProperties DEF Lists
<1> HIDE DEF c, d
<1>4. /\ Len(c) = 1 + m /\ c[1] = x /\ \A i \in 1..m : c[i + 1] = f[i]
      /\ Len(d) = 1 + n /\ d[1] = y /\ \A i \in 1..n : d[i + 1] = t[i]
  <2>1. /\ 1 \in 1..(1 + m) /\ 1 \in 1..(1 + n)
        /\ \A i \in 1..m : i + 1 \in 1..(1 + m) /\ ~ (i + 1 <= 1) /\ (i + 1) - 1 = i
        /\ \A i \in 1..n : i + 1 \in 1..(1 + n) /\ ~ (i + 1 <= 1) /\ (i + 1) - 1 = i
      BY <1>1
  <2>2. /\ \A i \in 1..(1 + m) : c[i] = IF i <= 1 THEN x ELSE f[i - 1]
        /\ \A i \in 1..(1 + n) : d[i] = IF i <= 1 THEN y ELSE t[i - 1]
    <3>1. Len(a) + Len(f) = 1 + m /\ Len(b) + Len(t) = 1 + n
        BY <1>1 DEF m, n
    <3>2. \A i \in 1..(1 + m) : i <= 1 => i = 1
        BY <1>1
    <3>3. \A i \in 1..(1 + n) : i <= 1 => i = 1
        BY <1>1
    <3>4. QED
        BY <1>1, <1>2, <1>3, <3>1, <3>2, <3>3
  <2>3. Len(c) = 1 + m /\ Len(d) = 1 + n
      BY <1>1, <1>2, <1>3 DEF m, n
  <2>4. QED
      BY <2>1, <2>2, <2>3
<1>5. Fits(c, d) => (x = plus \/ x = y) /\ Fits(f, t)
  <2>1. SUFFICES ASSUME Fits(c, d) PROVE (x = plus \/ x = y) /\ Fits(f, t)
      OBVIOUS
  <2>2. m = n /\ \A i \in 1..(1 + m) : c[i] = plus \/ c[i] = d[i]
      BY <1>1, <1>4, <2>1 DEF Fits, plus
  <2>3. 1 \in 1..(1 + m) /\ \A i \in 1..m : i + 1 \in 1..(1 + m)
      BY <1>1
  <2>4. x = plus \/ x = y
      BY <1>4, <2>2, <2>3
  <2>5. \A i \in 1..m : f[i] = plus \/ f[i] = t[i]
      BY <1>4, <2>2, <2>3
  <2>6. QED
      BY <2>2, <2>4, <2>5 DEF Fits, m, n, plus
<1>6. (x = plus \/ x = y) /\ Fits(f, t) => Fits(c, d)
  <2>1. SUFFICES ASSUME x = plus \/ x = y, Fits(f, t) PROVE Fits(c, d)
      OBVIOUS
  <2>2. m = n /\ \A i \in 1..m : f[i] = plus \/ f[i] = t[i]
      BY <2>1 DEF Fits, m, n, plus
  <2>3. ASSUME NEW i \in 1..(1 + m) PROVE c[i] = plus \/ c[i] = d[i]
    <3>1. CASE i = 1
        BY <1>4, <2>1, <3>1
    <3>2. CASE i # 1
      <4>1. i - 1 \in 1..m /\ (i - 1) + 1 = i
          BY <1>1, <3>2
      <4>2. c[i] = f[i - 1] /\ d[i] = t[i - 1]
          BY <1>4, <2>2, <4>1
      <4>3. QED
          BY <2>2, <4>1, <4>2
    <3>3. QED
        BY <3>1, <3>2
  <2>4. QED
      BY <1>4, <2>2, <2>3 DEF Fits, plus
<1>7. QED
    BY <1>2, <1>4, <1>5, <1>6 DEF c, d, a, b, plus, m

LEMMA FitsOne ==
  ASSUME NEW x \in Seq(Tokens), NEW y \in Seq(Tokens)
  PROVE  Fits(<<x>>, <<y>>) <=> x = <<"+">> \/ x = y
<1> DEFINE a == <<x>>
           b == <<y>>
           plus == <<"+">>
<1>1. Len(a) = 1 /\ Len(b) = 1 /\ a[1] = x /\ b[1] = y
    OBVIOUS
<1> HIDE DEF a, b, plus
<1>2. 1..1 = {1}
    OBVIOUS
<1>3. Fits(a, b) <=> x = plus \/ x = y
    BY <1>1, <1>2 DEF Fits, plus
<1>4. QED
    BY <1>3 DEF a, b, plus

\* The levels of a topic's rest.
RestLevels(kind, task) ==
  CASE kind = "new"    -> << <<"task">> >> \o << <<"new">> >>
    [] kind = "status" -> << <<"task">> >> \o (<<task>> \o << <<"status">> >>)
    [] OTHER           -> << <<kind>> >>

LEMMA WordsAreWhole == \A w \in Tokens : w # "/" => Whole(<<w>>)
<1>1. ASSUME NEW w \in Tokens, w # "/" PROVE Whole(<<w>>)
  <2>1. DOMAIN <<w>> = {1} /\ <<w>>[1] = w
      OBVIOUS
  <2>2. QED
      BY <1>1, <2>1 DEF Whole
<1>2. QED
    BY <1>1

LEMMA LevelsOfRest ==
  ASSUME NEW task \in Seq(Tokens), Whole(task), NEW kind \in Kinds
  PROVE  Levels(Rest(kind, task)) = RestLevels(kind, task)
<1> DEFINE t == <<"task">>
           n == <<"new">>
           s == <<"status">>
<1>1. /\ t \in Seq(Tokens) /\ n \in Seq(Tokens) /\ s \in Seq(Tokens)
      /\ Levels(t) = <<t>> /\ Levels(n) = <<n>> /\ Levels(s) = <<s>> /\ Levels(task) = <<task>>
  <2>1. {"task", "new", "status"} \subseteq Tokens
      BY LayoutIsTokens
  <2>2. "task" # "/" /\ "new" # "/" /\ "status" # "/"
      OBVIOUS
  <2>3. QED
      BY <2>1, <2>2, WordsAreWhole, LevelsOfWhole, LayoutIsTokens
<1>2. /\ Rest("new", task) = (t \o Slash) \o n
      /\ Rest("status", task) = (t \o Slash) \o ((task \o Slash) \o s)
      /\ \A k \in Kinds \ {"new", "status"} : Rest(k, task) = <<k>>
    BY RestByLevels
<1> DEFINE u == (task \o Slash) \o s
<1>3. u \in Seq(Tokens)
  <2>1. Slash \in Seq(Tokens)
      BY LayoutIsTokens
  <2>2. task \o Slash \in Seq(Tokens)
      BY <2>1, ConcatProperties
  <2>3. QED
      BY <1>1, <2>2, ConcatProperties
<1>4. Levels(u) = Levels(task) \o Levels(s)
    BY <1>1, LevelsOfJoin
<1> HIDE DEF t, n, s, u
<1>5. CASE kind = "new"
  <2>1. Levels((t \o Slash) \o n) = Levels(t) \o Levels(n)
      BY <1>1, LevelsOfJoin
  <2>2. RestLevels("new", task) = <<t>> \o <<n>>
      BY DEF RestLevels, t, n
  <2>3. QED
      BY <1>1, <1>2, <1>5, <2>1, <2>2
<1>6. CASE kind = "status"
  <2>1. Levels((t \o Slash) \o u) = Levels(t) \o Levels(u)
      BY <1>1, <1>3, LevelsOfJoin
  <2>2. RestLevels("status", task) = <<t>> \o (<<task>> \o <<s>>)
      BY DEF RestLevels, t, s
  <2>3. Rest("status", task) = (t \o Slash) \o u
      BY <1>2 DEF u
  <2>4. Levels(u) = <<task>> \o <<s>>
      BY <1>1, <1>4
  <2>5. Levels(Rest("status", task)) = <<t>> \o (<<task>> \o <<s>>)
      BY <1>1, <2>1, <2>3, <2>4
  <2>6. QED
      BY <1>6, <2>2, <2>5
<1>7. CASE kind \in Kinds \ {"new", "status"}
  <2>1. kind \in Tokens /\ kind # "/" /\ <<kind>> \in Seq(Tokens)
      BY <1>7, LayoutIsTokens DEF Kinds
  <2>2. Levels(<<kind>>) = << <<kind>> >>
      BY <2>1, WordsAreWhole, LevelsOfWhole
  <2>3. RestLevels(kind, task) = << <<kind>> >>
      BY <1>7 DEF RestLevels
  <2>4. QED
      BY <1>2, <1>7, <2>2, <2>3
<1>8. QED
    BY <1>5, <1>6, <1>7

\* What core's filter for a kind asks of the rest of a topic.
FilterRest(kind) == IF kind = "status" THEN <<"task", "/", "+", "/", "status">> ELSE <<kind>>

LEMMA FilterRestIsRest == \A kind \in Kinds \ {"new"} : FilterRest(kind) = Rest(kind, <<"+">>)
<1>1. FilterRest("status") = Rest("status", <<"+">>)
  <2> DEFINE a == <<"task", "/">>
             b == <<"+">>
             c == <<"/", "status">>
             z == <<"task", "/", "+", "/", "status">>
             C == {"task", "/", "+", "status"}
  <2>1. (a \o b) \o c = z
    <3>1. /\ a \in Seq(C) /\ Len(a) = 2 /\ a[1] = "task" /\ a[2] = "/"
          /\ b \in Seq(C) /\ Len(b) = 1 /\ b[1] = "+"
        OBVIOUS
    <3>2. c \in Seq(C) /\ Len(c) = 2 /\ c[1] = "/" /\ c[2] = "status"
        OBVIOUS
    <3>3. /\ z \in Seq(C) /\ Len(z) = 5
          /\ z[1] = "task" /\ z[2] = "/" /\ z[3] = "+" /\ z[4] = "/" /\ z[5] = "status"
        OBVIOUS
    <3> HIDE DEF a, b, c, z, C
    <3> DEFINE d == a \o b
    <3>4. /\ d \in Seq(C) /\ Len(d) = Len(a) + Len(b)
          /\ \A i \in 1..(Len(a) + Len(b)) : d[i] = IF i <= Len(a) THEN a[i] ELSE b[i - Len(a)]
        BY <3>1, ConcatProperties
    <3> HIDE DEF d
    <3>5. Len(d) = 3 /\ d[1] = "task" /\ d[2] = "/" /\ d[3] = "+"
        BY <3>1, <3>4
    <3>6. /\ d \o c \in Seq(C) /\ Len(d \o c) = Len(d) + Len(c)
          /\ \A i \in 1..(Len(d) + Len(c)) : (d \o c)[i] = IF i <= Len(d) THEN d[i] ELSE c[i - Len(d)]
      <4>1. d \in Seq(C) /\ c \in Seq(C)
          BY <3>2, <3>4
      <4>2. QED
          BY <4>1, ConcatProperties
    <3>7. /\ Len(d \o c) = 5 /\ (d \o c)[1] = "task" /\ (d \o c)[2] = "/" /\ (d \o c)[3] = "+"
          /\ (d \o c)[4] = "/" /\ (d \o c)[5] = "status"
        BY <3>2, <3>5, <3>6
    <3>8. \A i \in 1..5 : i = 1 \/ i = 2 \/ i = 3 \/ i = 4 \/ i = 5
        OBVIOUS
    <3>9. d \o c = z
      <4>1. Len(d \o c) = Len(z) /\ \A i \in 1..5 : (d \o c)[i] = z[i]
          BY <3>3, <3>7, <3>8
      <4>2. QED
          BY <3>3, <3>6, <4>1, SeqEqual
    <3>10. QED
        BY <3>9 DEF d
  <2>2. QED
      BY <2>1 DEF FilterRest, Rest
<1>2. QED
    BY <1>1 DEF FilterRest, Rest, Kinds

LEMMA FilterFitsRest ==
  ASSUME NEW task \in Seq(Tokens), Whole(task), NEW k \in Kinds, NEW f \in Kinds \ {"new"}
  PROVE  /\ Fits(RestLevels(f, <<"+">>), RestLevels(k, task)) <=> f = k
         /\ RestLevels(f, <<"+">>) \in Lists /\ RestLevels(k, task) \in Lists
<1> DEFINE t == <<"task">>
           n == <<"new">>
           s == <<"status">>
           plus == <<"+">>
           T == Seq(Tokens)
<1>1. /\ t \in T /\ n \in T /\ s \in T /\ plus \in T /\ task \in T
      /\ \A x \in Kinds : <<x>> \in T
  <2>1. {"task", "new", "status", "+"} \subseteq Tokens /\ Kinds \subseteq Tokens
      BY LayoutIsTokens
  <2>2. QED
      BY <2>1, LayoutIsTokens
<1>2. /\ \A x \in T : <<x>> \in Lists /\ Len(<<x>>) = 1
      /\ \A x \in T, y \in Lists : <<x>> \o y \in Lists /\ Len(<<x>> \o y) = 1 + Len(y)
      /\ \A x \in Lists : Len(x) \in Nat
  <2>1. ASSUME NEW x \in T, NEW y \in Lists PROVE <<x>> \o y \in Lists /\ Len(<<x>> \o y) = 1 + Len(y)
      BY FitsBefore
  <2>2. QED
      BY <2>1 DEF Lists
<1>3. \A x \in Kinds \ {"new", "status"} : <<x>> # plus /\ \A y \in Kinds : <<x>> = <<y>> => x = y
    BY DEF Kinds
<1>4. /\ \A v \in T : RestLevels("new", v) = <<t>> \o <<n>>
      /\ \A v \in T : RestLevels("status", v) = <<t>> \o (<<v>> \o <<s>>)
      /\ \A v \in T, x \in Kinds \ {"new", "status"} : RestLevels(x, v) = << <<x>> >>
    BY DEF RestLevels, Kinds
<1> HIDE DEF t, n, s, plus, T
<1>5. \A v \in T : /\ RestLevels("new", v) \in Lists /\ Len(RestLevels("new", v)) = 2
                   /\ RestLevels("status", v) \in Lists /\ Len(RestLevels("status", v)) = 3
  <2> SUFFICES ASSUME NEW v \in T
               PROVE  /\ RestLevels("new", v) \in Lists /\ Len(RestLevels("new", v)) = 2
                      /\ RestLevels("status", v) \in Lists /\ Len(RestLevels("status", v)) = 3
      OBVIOUS
  <2>1. <<n>> \in Lists /\ <<s>> \in Lists /\ Len(<<n>>) = 1 /\ Len(<<s>>) = 1
      BY <1>1, <1>2
  <2>2. /\ <<v>> \o <<s>> \in Lists /\ Len(<<v>> \o <<s>>) = 1 + 1
        /\ <<t>> \o <<n>> \in Lists /\ Len(<<t>> \o <<n>>) = 1 + 1
      BY <1>1, <1>2, <2>1
  <2>3. <<t>> \o (<<v>> \o <<s>>) \in Lists /\ Len(<<t>> \o (<<v>> \o <<s>>)) = 1 + (1 + 1)
      BY <1>1, <1>2, <2>2
  <2>4. 1 + 1 = 2 /\ 1 + (1 + 1) = 3
      OBVIOUS
  <2>5. RestLevels("new", v) = <<t>> \o <<n>> /\ RestLevels("status", v) = <<t>> \o (<<v>> \o <<s>>)
      BY <1>4
  <2>6. QED
      BY <2>2, <2>3, <2>4, <2>5
<1>6. \A v \in T, x \in Kinds \ {"new", "status"} : RestLevels(x, v) \in Lists /\ Len(RestLevels(x, v)) = 1
    BY <1>1, <1>2, <1>4
<1>7. \A v \in T, x \in Kinds : RestLevels(x, v) \in Lists
    BY <1>5, <1>6
<1>8. \A x, y \in Lists : Len(x) # Len(y) => ~ Fits(x, y)
    BY DEF Fits
<1>9. Fits(RestLevels("status", plus), RestLevels("status", task))
  <2>1. Fits(<<s>>, <<s>>)
      BY <1>1, FitsOne DEF T
  <2>2. Fits(<<plus>> \o <<s>>, <<task>> \o <<s>>)
      BY <1>1, <1>2, <2>1, FitsBefore DEF T, plus
  <2>3. <<plus>> \o <<s>> \in Lists /\ <<task>> \o <<s>> \in Lists
      BY <1>1, <1>2
  <2>4. Fits(<<t>> \o (<<plus>> \o <<s>>), <<t>> \o (<<task>> \o <<s>>))
      BY <1>1, <2>2, <2>3, FitsBefore DEF T
  <2>5. QED
      BY <1>1, <1>4, <2>4
<1>10. ASSUME NEW x \in Kinds \ {"new", "status"}, NEW y \in Kinds \ {"new", "status"}
       PROVE  Fits(RestLevels(x, plus), RestLevels(y, task)) <=> x = y
  <2>1. Fits(<< <<x>> >>, << <<y>> >>) <=> <<x>> = plus \/ <<x>> = <<y>>
      BY <1>1, FitsOne DEF T, plus
  <2>2. QED
      BY <1>1, <1>3, <1>4, <2>1, ZenonT(30)
<1>11. Fits(RestLevels(f, plus), RestLevels(k, task)) <=> f = k
  <2>1. CASE f = "status" /\ k = "status"
      BY <1>9, <2>1
  <2>2. CASE f = "status" /\ k # "status"
    <3>1. Len(RestLevels(f, plus)) = 3 /\ (Len(RestLevels(k, task)) = 1 \/ Len(RestLevels(k, task)) = 2)
        BY <1>1, <1>5, <1>6, <2>2
    <3>2. QED
      <4>1. RestLevels(f, plus) \in Lists /\ RestLevels(k, task) \in Lists
          BY <1>1, <1>7
      <4>2. Len(RestLevels(f, plus)) # Len(RestLevels(k, task))
          BY <3>1, 1 # 2, 1 # 3, 2 # 3, Zenon
      <4>3. ~ Fits(RestLevels(f, plus), RestLevels(k, task))
          BY <1>8, <4>1, <4>2
      <4>4. QED
          BY <2>2, <4>3
  <2>3. CASE f # "status" /\ k \in {"new", "status"}
    <3>1. Len(RestLevels(f, plus)) = 1 /\ (Len(RestLevels(k, task)) = 2 \/ Len(RestLevels(k, task)) = 3)
        BY <1>1, <1>5, <1>6, <2>3
    <3>2. QED
      <4>1. RestLevels(f, plus) \in Lists /\ RestLevels(k, task) \in Lists
          BY <1>1, <1>7
      <4>2. Len(RestLevels(f, plus)) # Len(RestLevels(k, task))
          BY <3>1, 1 # 2, 1 # 3, 2 # 3, Zenon
      <4>3. ~ Fits(RestLevels(f, plus), RestLevels(k, task))
          BY <1>8, <4>1, <4>2
      <4>4. QED
          BY <2>3, <4>3
  <2>4. CASE f # "status" /\ k \notin {"new", "status"}
      BY <1>10, <2>4
  <2>5. QED
      BY <2>1, <2>2, <2>3, <2>4
<1>12. QED
    BY <1>1, <1>7, <1>11 DEF plus

\* The broker gives a topic to the subscription of its kind and to no other.
LEMMA MatchesItsKind ==
  ASSUME NEW prefix \in Seq(Tokens), Whole(prefix), NEW agent \in Seq(Tokens), Whole(agent),
         NEW task \in Seq(Tokens), Whole(task), NEW k \in Kinds, NEW f \in Kinds \ {"new"}
  PROVE  Matches(Filter(prefix, f), Topic(prefix, agent, k, task)) <=> f = k
<1> DEFINE plus == <<"+">>
           a == <<"agent">>
           fr == Rest(f, plus)
           tr == Rest(k, task)
<1>1. /\ plus \in Seq(Tokens) /\ a \in Seq(Tokens) /\ Whole(plus) /\ Whole(a)
      /\ Slash \in Seq(Tokens)
  <2>1. "+" \in Tokens /\ "agent" \in Tokens /\ "+" # "/" /\ "agent" # "/"
      BY LayoutIsTokens
  <2>2. QED
      BY <2>1, WordsAreWhole, LayoutIsTokens
<1>2. Topic(prefix, agent, k, task) = Base(prefix, agent) \o tr
    BY DEF Topic, Rest
<1>3. Filter(prefix, f) = Base(prefix, plus) \o fr
  <2>1. Filter(prefix, f) = Base(prefix, plus) \o FilterRest(f)
      BY DEF Filter, FilterRest
  <2>2. QED
      BY <2>1, FilterRestIsRest
<1>4. fr \in Seq(Tokens) /\ tr \in Seq(Tokens)
    BY <1>1, RestByLevels
<1> HIDE DEF fr, tr, a, plus
<1>5. ASSUME NEW g \in Seq(Tokens), Whole(g), NEW r \in Seq(Tokens)
      PROVE  Levels(Base(prefix, g) \o r) = <<prefix>> \o (<<a>> \o (<<g>> \o Levels(r)))
  <2> DEFINE u == (g \o Slash) \o r
             v == (a \o Slash) \o u
  <2>1. u \in Seq(Tokens)
    <3>1. g \o Slash \in Seq(Tokens)
        BY <1>1, ConcatProperties
    <3>2. QED
        BY <3>1, ConcatProperties
  <2>2. Levels(u) = <<g>> \o Levels(r)
      BY <1>5, LevelsOfJoin, LevelsOfWhole, ZenonT(30)
  <2> HIDE DEF u
  <2>3. v \in Seq(Tokens)
    <3>1. a \o Slash \in Seq(Tokens)
        BY <1>1, ConcatProperties
    <3>2. QED
        BY <2>1, <3>1, ConcatProperties
  <2>4. Levels(v) = <<a>> \o Levels(u)
    <3>1. Levels((a \o Slash) \o u) = Levels(a) \o Levels(u)
        BY <1>1, <2>1, LevelsOfJoin
    <3>2. Levels(a) = <<a>>
        BY <1>1, LevelsOfWhole
    <3>3. QED
        BY <3>1, <3>2
  <2> HIDE DEF v
  <2>5. Levels((prefix \o Slash) \o v) = <<prefix>> \o Levels(v)
    <3>1. Levels((prefix \o Slash) \o v) = Levels(prefix) \o Levels(v)
        BY <2>3, LevelsOfJoin
    <3>2. Levels(prefix) = <<prefix>>
        BY LevelsOfWhole
    <3>3. QED
        BY <3>1, <3>2
  <2>6. Base(prefix, g) \o r = (prefix \o Slash) \o v
    <3>1. Cat(Base(prefix, g), r)
            = Cat(Cat(prefix, Slash), Cat(Cat(<<"agent">>, Slash), Cat(Cat(g, Slash), r)))
        BY BaseThenRest
    <3>2. QED
        BY <3>1 DEF u, v, a, Cat
  <2>7. QED
      BY <2>2, <2>4, <2>5, <2>6
<1>6. /\ Levels(Filter(prefix, f)) = <<prefix>> \o (<<a>> \o (<<plus>> \o Levels(fr)))
      /\ Levels(Topic(prefix, agent, k, task)) = <<prefix>> \o (<<a>> \o (<<agent>> \o Levels(tr)))
  <2>1. Levels(Base(prefix, plus) \o fr) = <<prefix>> \o (<<a>> \o (<<plus>> \o Levels(fr)))
      BY <1>1, <1>4, <1>5
  <2>2. Levels(Base(prefix, agent) \o tr) = <<prefix>> \o (<<a>> \o (<<agent>> \o Levels(tr)))
      BY <1>4, <1>5
  <2>3. QED
      BY <1>2, <1>3, <2>1, <2>2
<1>7. /\ Levels(fr) = RestLevels(f, plus) /\ Levels(tr) = RestLevels(k, task)
      /\ Levels(fr) \in Lists /\ Levels(tr) \in Lists
    BY <1>1, <1>4, LevelsOfRest, LevelsAreTexts DEF fr, tr
<1>8. Fits(Levels(fr), Levels(tr)) <=> f = k
    BY <1>7, FilterFitsRest DEF plus
<1>9. /\ Fits(<<plus>> \o Levels(fr), <<agent>> \o Levels(tr)) <=> f = k
      /\ <<plus>> \o Levels(fr) \in Lists /\ <<agent>> \o Levels(tr) \in Lists
  <2>1. /\ Fits(<<plus>> \o Levels(fr), <<agent>> \o Levels(tr))
             <=> (plus = <<"+">> \/ plus = agent) /\ Fits(Levels(fr), Levels(tr))
        /\ <<plus>> \o Levels(fr) \in Lists
      BY <1>1, <1>7, FitsBefore
  <2>2. <<agent>> \o Levels(tr) \in Lists
      BY <1>7, FitsBefore
  <2>3. plus = <<"+">>
      BY DEF plus
  <2>4. QED
      BY <1>8, <2>1, <2>2, <2>3
<1>10. /\ Fits(<<a>> \o (<<plus>> \o Levels(fr)), <<a>> \o (<<agent>> \o Levels(tr))) <=> f = k
       /\ <<a>> \o (<<plus>> \o Levels(fr)) \in Lists /\ <<a>> \o (<<agent>> \o Levels(tr)) \in Lists
    BY <1>1, <1>9, FitsBefore
<1>11. Fits(Levels(Filter(prefix, f)), Levels(Topic(prefix, agent, k, task))) <=> f = k
  <2> DEFINE x == <<a>> \o (<<plus>> \o Levels(fr))
             y == <<a>> \o (<<agent>> \o Levels(tr))
  <2>1. x \in Lists /\ y \in Lists /\ (Fits(x, y) <=> f = k)
      BY <1>10
  <2> HIDE DEF x, y
  <2>2. Fits(<<prefix>> \o x, <<prefix>> \o y) <=> f = k
      BY <2>1, FitsBefore
  <2>3. QED
      BY <1>6, <2>2 DEF x, y
<1>12. QED
    BY <1>11 DEF Matches, Fits

\* What is before and after a head, and that a text with a head is that head and more.
LEMMA CutOff ==
  ASSUME NEW h \in Seq(Tokens), NEW r \in Seq(Tokens)
  PROVE  /\ SubSeq(h \o r, 1, Len(h)) = h
         /\ IsPrefix(h, h \o r) /\ After(h, h \o r) = r
<1> DEFINE t == h \o r
<1>1. /\ t \in Seq(Tokens) /\ Len(t) = Len(h) + Len(r) /\ Len(h) \in Nat /\ Len(r) \in Nat
      /\ \A i \in 1..(Len(h) + Len(r)) : t[i] = IF i <= Len(h) THEN h[i] ELSE r[i - Len(h)]
    BY ConcatProperties
<1> HIDE DEF t
<1>2. SubSeq(t, 1, Len(h)) = h
  <2>1. \A i \in 1..Len(h) : t[i] \in Tokens /\ t[i] = h[i]
      BY <1>1
  <2>2. 1 \in Int /\ Len(h) \in Int
      BY <1>1
  <2>3. /\ SubSeq(t, 1, Len(h)) \in Seq(Tokens)
        /\ Len(SubSeq(t, 1, Len(h))) = IF 1 <= Len(h) THEN Len(h) - 1 + 1 ELSE 0
        /\ \A i \in 1..(Len(h) - 1 + 1) : SubSeq(t, 1, Len(h))[i] = t[1 + i - 1]
      BY <2>1, <2>2, SubSeqProperties
  <2>4. Len(SubSeq(t, 1, Len(h))) = Len(h)
      BY <1>1, <2>3
  <2>5. \A i \in 1..Len(h) : i \in 1..(Len(h) - 1 + 1) /\ 1 + i - 1 = i
      BY <1>1
  <2>6. \A i \in 1..Len(h) : SubSeq(t, 1, Len(h))[i] = h[i]
      BY <2>1, <2>3, <2>5
  <2>7. QED
      BY <2>3, <2>4, <2>6, SeqEqual
<1>3. IsPrefix(h, t)
  <2>1. SubSeq(h, 1, Len(h)) = h
      BY SubSeqFull
  <2>2. Len(h) <= Len(t)
      BY <1>1
  <2>3. QED
      BY <1>2, <2>1, <2>2 DEF IsPrefix
<1>4. SubSeq(t, Len(h) + 1, Len(t)) = r
  <2> DEFINE m == Len(h) + 1
             n == Len(t)
             q == SubSeq(t, m, n)
  <2>1. m \in Int /\ n \in Int /\ n = Len(h) + Len(r) /\ m = Len(h) + 1
      BY <1>1
  <2>2. \A i \in m..n : t[i] \in Tokens
    <3>1. \A i \in m..n : i \in 1..Len(t)
        BY <1>1
    <3>2. QED
        BY <1>1, <3>1
  <2> HIDE DEF m, n
  <2>3. /\ q \in Seq(Tokens) /\ Len(q) = IF m <= n THEN n - m + 1 ELSE 0
        /\ \A i \in 1..(n - m + 1) : q[i] = t[m + i - 1]
      BY <2>1, <2>2, SubSeqProperties
  <2> HIDE DEF q
  <2>4. Len(q) = Len(r)
      BY <1>1, <2>1, <2>3
  <2>5. ASSUME NEW i \in 1..Len(r) PROVE q[i] = r[i]
    <3>1. /\ i \in 1..(n - m + 1) /\ m + i - 1 = Len(h) + i /\ Len(h) + i \in 1..(Len(h) + Len(r))
          /\ ~ (Len(h) + i <= Len(h)) /\ (Len(h) + i) - Len(h) = i
        BY <1>1, <2>1
    <3>2. QED
        BY <1>1, <2>3, <3>1
  <2>6. q = r
      BY <2>3, <2>4, <2>5, SeqEqual
  <2>7. QED
      BY <2>6 DEF q, m, n
<1>5. QED
    BY <1>2, <1>3, <1>4 DEF After, t

LEMMA HeadThenAfter ==
  ASSUME NEW h \in Seq(Tokens), NEW t \in Seq(Tokens), IsPrefix(h, t)
  PROVE  t = h \o After(h, t) /\ After(h, t) \in Seq(Tokens)
<1>1. Len(h) <= Len(t) /\ h = SubSeq(t, 1, Len(h)) /\ Len(h) \in Nat /\ Len(t) \in Nat
  <2>1. SubSeq(h, 1, Len(h)) = h
      BY SubSeqFull
  <2>2. QED
      BY <2>1 DEF IsPrefix
<1>2. After(h, t) \in Seq(Tokens)
  <2>1. \A i \in (Len(h) + 1)..Len(t) : t[i] \in Tokens
    <3>1. \A i \in (Len(h) + 1)..Len(t) : i \in 1..Len(t)
        BY <1>1
    <3>2. QED
        BY <3>1
  <2>2. Len(h) + 1 \in Int /\ Len(t) \in Int
      BY <1>1
  <2>3. QED
      BY <2>1, <2>2, SubSeqProperties DEF After
<1>3. SubSeq(t, 1, Len(h)) \o SubSeq(t, Len(h) + 1, Len(t)) = SubSeq(t, 1, Len(t))
  <2>1. 1 \in 1..(Len(t) + 1) /\ Len(h) \in (1 - 1)..Len(t) /\ Len(t) \in Len(h)..Len(t)
      BY <1>1
  <2>2. QED
      BY <2>1, ConcatAdjacentSubSeq
<1>4. SubSeq(t, 1, Len(t)) = t
    BY SubSeqFull
<1>5. QED
    BY <1>1, <1>2, <1>3, <1>4 DEF After

LEMMA BackToFront ==
  ASSUME NEW s \in Seq(Tokens)
  PROVE  /\ Reverse(s) \in Seq(Tokens) /\ Len(Reverse(s)) = Len(s)
         /\ \A i \in 1..Len(s) : Reverse(s)[i] = s[(Len(s) - i) + 1]
<1>1. Len(s) \in Nat /\ \A i \in 1..Len(s) : s[i] \in Tokens /\ (Len(s) - i) + 1 \in 1..Len(s)
    OBVIOUS
<1>2. Reverse(s) \in [1..Len(s) -> Tokens]
    BY <1>1 DEF Reverse
<1>3. QED
    BY <1>1, <1>2 DEF Reverse

\* A text ends in the status part if its last two tokens are that part.
Ending == <<"/", "status">>

LEMMA EndsByTokens ==
  ASSUME NEW t \in Seq(Tokens)
  PROVE  IsSuffix(Ending, t) <=> 2 <= Len(t) /\ t[Len(t) - 1] = "/" /\ t[Len(t)] = "status"
<1> DEFINE a == Reverse(Ending)
           b == Reverse(t)
           n == Len(t)
<1>1. Ending \in Seq(Tokens) /\ Len(Ending) = 2 /\ Ending[1] = "/" /\ Ending[2] = "status"
    BY LayoutIsTokens DEF Ending
<1>2. a \in Seq(Tokens) /\ Len(a) = 2 /\ a[1] = "status" /\ a[2] = "/"
  <2>1. /\ a \in Seq(Tokens) /\ Len(a) = Len(Ending)
        /\ \A i \in 1..Len(Ending) : a[i] = Ending[(Len(Ending) - i) + 1]
      BY <1>1, BackToFront
  <2>2. 1 \in 1..2 /\ 2 \in 1..2 /\ (2 - 1) + 1 = 2 /\ (2 - 2) + 1 = 1
      OBVIOUS
  <2>3. QED
      BY <1>1, <2>1, <2>2
<1>3. b \in Seq(Tokens) /\ Len(b) = n /\ n \in Nat /\ \A i \in 1..n : b[i] = t[(n - i) + 1]
    BY BackToFront
<1> HIDE DEF a, b, n
<1>4. SubSeq(a, 1, 2) = a
    BY <1>2, SubSeqFull
<1>5. CASE 2 <= n
  <2>1. /\ 1 \in 1..n /\ 2 \in 1..n /\ (n - 1) + 1 = n /\ (n - 2) + 1 = n - 1
      BY <1>3, <1>5
  <2>2. b[1] = t[n] /\ b[2] = t[n - 1]
      BY <1>3, <2>1
  <2> DEFINE c == SubSeq(b, 1, 2)
  <2>3. c \in Seq(Tokens) /\ Len(c) = 2 /\ c[1] = b[1] /\ c[2] = b[2]
    <3>1. \A i \in 1..2 : b[i] \in Tokens
        BY <1>3, <1>5
    <3>2. 1 \in Int /\ 2 \in Int /\ 2 - 1 + 1 = 2 /\ 1 <= 2 /\ 1 \in 1..2 /\ 2 \in 1..2
          /\ 1 + 1 - 1 = 1 /\ 1 + 2 - 1 = 2
        OBVIOUS
    <3>3. /\ c \in Seq(Tokens) /\ Len(c) = IF 1 <= 2 THEN 2 - 1 + 1 ELSE 0
          /\ \A i \in 1..(2 - 1 + 1) : c[i] = b[1 + i - 1]
        BY <3>1, <3>2, SubSeqProperties
    <3> HIDE DEF c
    <3>4. QED
        BY <3>2, <3>3
  <2> HIDE DEF c
  <2>4. a = c <=> b[1] = "status" /\ b[2] = "/"
    <3>1. \A i \in 1..2 : i = 1 \/ i = 2
        OBVIOUS
    <3>2. (b[1] = "status" /\ b[2] = "/") => \A i \in 1..2 : a[i] = c[i]
        BY <1>2, <2>3, <3>1
    <3>3. (\A i \in 1..2 : a[i] = c[i]) => a = c
        BY <1>2, <2>3, SeqEqual
    <3>4. QED
        BY <1>2, <2>3, <3>2, <3>3
  <2>5. IsPrefix(a, b) <=> a = c
      BY <1>2, <1>3, <1>4, <1>5 DEF IsPrefix, c
  <2>6. QED
      BY <1>5, <2>2, <2>4, <2>5 DEF IsSuffix, a, b, n
<1>6. CASE ~ (2 <= n)
  <2>1. ~ IsPrefix(a, b)
      BY <1>2, <1>3, <1>6 DEF IsPrefix
  <2>2. QED
      BY <1>6, <2>1 DEF IsSuffix, a, b, n
<1>7. QED
    BY <1>5, <1>6

LEMMA EndingIsLast ==
  ASSUME NEW h \in Seq(Tokens)
  PROVE  /\ IsSuffix(Ending, h \o Ending)
         /\ SubSeq(h \o Ending, 1, Len(h \o Ending) - 2) = h
<1> DEFINE t == h \o Ending
<1>1. Ending \in Seq(Tokens) /\ Len(Ending) = 2 /\ Ending[1] = "/" /\ Ending[2] = "status"
    BY LayoutIsTokens DEF Ending
<1>2. /\ t \in Seq(Tokens) /\ Len(t) = Len(h) + Len(Ending) /\ Len(h) \in Nat
      /\ \A i \in 1..(Len(h) + Len(Ending)) : t[i] = IF i <= Len(h) THEN h[i] ELSE Ending[i - Len(h)]
  <2> HIDE DEF t
  <2>1. h \in Seq(Tokens) /\ Ending \in Seq(Tokens)
      BY <1>1
  <2>2. /\ h \o Ending \in Seq(Tokens) /\ Len(h \o Ending) = Len(h) + Len(Ending)
        /\ \A i \in 1..(Len(h) + Len(Ending)) :
              (h \o Ending)[i] = IF i <= Len(h) THEN h[i] ELSE Ending[i - Len(h)]
      BY <2>1, ConcatProperties
  <2>3. QED
      BY <2>1, <2>2 DEF t
<1>3. SubSeq(t, 1, Len(h)) = h
    BY <1>1, CutOff
<1> HIDE DEF t
<1>4. 2 <= Len(t) /\ t[Len(t) - 1] = "/" /\ t[Len(t)] = "status" /\ Len(t) - 2 = Len(h)
  <2>1. /\ Len(t) = Len(h) + 2 /\ Len(t) - 1 = Len(h) + 1 /\ Len(t) - 2 = Len(h) /\ 2 <= Len(t)
        /\ Len(h) + 1 \in 1..(Len(h) + 2) /\ Len(h) + 2 \in 1..(Len(h) + 2)
        /\ ~ (Len(h) + 1 <= Len(h)) /\ ~ (Len(h) + 2 <= Len(h))
        /\ (Len(h) + 1) - Len(h) = 1 /\ (Len(h) + 2) - Len(h) = 2
      BY <1>1, <1>2
  <2>2. t[Len(h) + 1] = Ending[1] /\ t[Len(h) + 2] = Ending[2]
      BY <1>1, <1>2, <2>1
  <2>3. QED
      BY <1>1, <2>1, <2>2
<1>5. IsSuffix(Ending, t)
    BY <1>2, <1>4, EndsByTokens
<1>6. QED
    BY <1>3, <1>4, <1>5 DEF t

LEMMA EndingCutOff ==
  ASSUME NEW t \in Seq(Tokens), IsSuffix(Ending, t)
  PROVE  /\ SubSeq(t, 1, Len(t) - 2) \in Seq(Tokens)
         /\ t = SubSeq(t, 1, Len(t) - 2) \o Ending
<1> DEFINE n == Len(t) - 2
           d == SubSeq(t, n + 1, n + 2)
<1>1. /\ n \in Nat /\ Len(t) \in Nat /\ Len(t) = n + 2 /\ t[n + 1] = "/" /\ t[n + 2] = "status"
  <2>1. 2 <= Len(t) /\ t[Len(t) - 1] = "/" /\ t[Len(t)] = "status"
      BY EndsByTokens
  <2>2. Len(t) \in Nat
      OBVIOUS
  <2>3. n \in Nat /\ Len(t) = n + 2 /\ Len(t) - 1 = n + 1
      BY <2>1, <2>2
  <2>4. QED
      BY <2>1, <2>2, <2>3
<1>2. SubSeq(t, 1, n) \o SubSeq(t, n + 1, Len(t)) = SubSeq(t, 1, Len(t))
  <2>1. 1 \in 1..(Len(t) + 1) /\ n \in (1 - 1)..Len(t) /\ Len(t) \in n..Len(t)
      BY <1>1
  <2>2. QED
      BY <2>1, ConcatAdjacentSubSeq
<1>3. SubSeq(t, 1, Len(t)) = t
    BY SubSeqFull
<1>4. SubSeq(t, 1, n) \in Seq(Tokens)
  <2> HIDE DEF n
  <2>1. 1 \in Int /\ n \in Int /\ \A i \in 1..n : i \in 1..Len(t)
      BY <1>1
  <2>2. \A i \in 1..n : t[i] \in Tokens
      BY <2>1
  <2>3. QED
      BY <2>1, <2>2, SubSeqProperties
<1> HIDE DEF n
<1>5. d = Ending
  <2>1. n + 1 \in Int /\ n + 2 \in Int /\ \A i \in (n + 1)..(n + 2) : i \in 1..Len(t)
      BY <1>1
  <2>2. \A i \in (n + 1)..(n + 2) : t[i] \in Tokens
      BY <2>1
  <2>3. /\ d \in Seq(Tokens)
        /\ Len(d) = IF n + 1 <= n + 2 THEN (n + 2) - (n + 1) + 1 ELSE 0
        /\ \A i \in 1..((n + 2) - (n + 1) + 1) : d[i] = t[(n + 1) + i - 1]
      BY <2>1, <2>2, SubSeqProperties
  <2> HIDE DEF d
  <2>4. (n + 2) - (n + 1) + 1 = 2 /\ n + 1 <= n + 2 /\ (n + 1) + 1 - 1 = n + 1 /\ (n + 1) + 2 - 1 = n + 2
      BY <1>1
  <2>5. Len(d) = 2 /\ d[1] = "/" /\ d[2] = "status"
    <3>1. Len(d) = 2 /\ \A i \in 1..2 : d[i] = t[(n + 1) + i - 1]
        BY <2>3, <2>4
    <3>2. 1 \in 1..2 /\ 2 \in 1..2
        OBVIOUS
    <3>3. QED
        BY <1>1, <2>4, <3>1, <3>2
  <2>6. Ending \in Seq(Tokens) /\ Len(Ending) = 2 /\ Ending[1] = "/" /\ Ending[2] = "status"
      BY LayoutIsTokens DEF Ending
  <2>7. \A i \in 1..2 : d[i] = Ending[i]
    <3>1. \A i \in 1..2 : i = 1 \/ i = 2
        OBVIOUS
    <3>2. QED
        BY <2>5, <2>6, <3>1
  <2>8. QED
      BY <2>3, <2>5, <2>6, <2>7, SeqEqual
<1>6. QED
    BY <1>1, <1>2, <1>3, <1>4, <1>5 DEF n, d

\* The agent's id is what is before the first separator after the head.
LEMMA AgentIsRead ==
  ASSUME NEW prefix \in Seq(Tokens), NEW agent \in Seq(Tokens), Whole(agent), NEW rest \in Seq(Tokens)
  PROVE  AgentIDFromTopic(prefix, Base(prefix, agent) \o rest) = agent
<1> DEFINE h == AgentHead(prefix)
           q == Slash \o rest
           r == agent \o q
           topic == Base(prefix, agent) \o rest
           cut == {i \in 1..Len(r) : r[i] = "/"}
<1>1. h \in Seq(Tokens) /\ topic = h \o r
  <2>1. /\ Cat(Base(prefix, agent), rest) = Cat(AgentHead(prefix), Cat(agent, Cat(Slash, rest)))
        /\ AgentHead(prefix) \in Seq(Tokens)
      BY BaseThenRest
  <2>2. QED
      BY <2>1 DEF Cat
<1>2. Slash \in Seq(Tokens) /\ Len(Slash) = 1 /\ Slash[1] = "/"
    BY LayoutIsTokens
<1>3. /\ q \in Seq(Tokens) /\ Len(q) = Len(Slash) + Len(rest) /\ Len(rest) \in Nat
      /\ \A i \in 1..(Len(Slash) + Len(rest)) : q[i] = IF i <= Len(Slash) THEN Slash[i] ELSE rest[i - Len(Slash)]
  <2> HIDE DEF q
  <2>1. Slash \in Seq(Tokens) /\ rest \in Seq(Tokens)
      BY <1>2
  <2>2. /\ Slash \o rest \in Seq(Tokens) /\ Len(Slash \o rest) = Len(Slash) + Len(rest)
        /\ \A i \in 1..(Len(Slash) + Len(rest)) :
              (Slash \o rest)[i] = IF i <= Len(Slash) THEN Slash[i] ELSE rest[i - Len(Slash)]
      BY <2>1, ConcatProperties
  <2>3. QED
      BY <2>1, <2>2 DEF q
<1> HIDE DEF h, q, topic
<1>4. Len(q) \in Nat /\ 1 <= Len(q) /\ q[1] = "/"
  <2>1. 1 \in 1..(Len(Slash) + Len(rest)) /\ 1 <= Len(Slash)
      BY <1>2, <1>3
  <2>2. QED
      BY <1>2, <1>3, <2>1
<1>5. /\ r \in Seq(Tokens) /\ Len(r) = Len(agent) + Len(q) /\ Len(agent) \in Nat
      /\ \A i \in 1..(Len(agent) + Len(q)) : r[i] = IF i <= Len(agent) THEN agent[i] ELSE q[i - Len(agent)]
  <2> HIDE DEF r
  <2>1. agent \in Seq(Tokens) /\ q \in Seq(Tokens)
      BY <1>3
  <2>2. /\ agent \o q \in Seq(Tokens) /\ Len(agent \o q) = Len(agent) + Len(q)
        /\ \A i \in 1..(Len(agent) + Len(q)) :
              (agent \o q)[i] = IF i <= Len(agent) THEN agent[i] ELSE q[i - Len(agent)]
      BY <2>1, ConcatProperties
  <2>3. QED
      BY <2>1, <2>2 DEF r
<1>6. SubSeq(r, 1, Len(agent)) = agent
    BY <1>3, CutOff
<1>7. IsPrefix(h, topic) /\ After(h, topic) = r
  <2> HIDE DEF r
  <2>1. QED
      BY <1>1, <1>5, CutOff
<1> HIDE DEF r
<1>8. Len(agent) + 1 \in cut
  <2>1. /\ Len(agent) + 1 \in 1..(Len(agent) + Len(q)) /\ ~ (Len(agent) + 1 <= Len(agent))
        /\ (Len(agent) + 1) - Len(agent) = 1
      BY <1>4, <1>5
  <2>2. r[Len(agent) + 1] = "/"
      BY <1>4, <1>5, <2>1
  <2>3. QED
      BY <1>5, <2>1, <2>2
<1>9. \A i \in cut : Len(agent) + 1 <= i /\ i \in Nat
  <2> SUFFICES ASSUME NEW i \in cut PROVE Len(agent) + 1 <= i /\ i \in Nat
      OBVIOUS
  <2>1. i \in 1..(Len(agent) + Len(q)) /\ r[i] = "/"
      BY <1>5
  <2>2. i <= Len(agent) => agent[i] = "/" /\ i \in DOMAIN agent
      BY <1>5, <2>1
  <2>3. ~ (i <= Len(agent))
      BY <2>2 DEF Whole
  <2>4. QED
      BY <1>4, <1>5, <2>1, <2>3
<1> HIDE DEF cut
<1>10. Min(cut) = Len(agent) + 1
  <2>1. \E x \in cut : \A y \in cut : x =< y
      BY <1>8, <1>9
  <2>2. Min(cut) \in cut /\ \A y \in cut : Min(cut) =< y
      BY <2>1 DEF Min
  <2>3. QED
      BY <1>5, <1>8, <1>9, <2>2
<1>11. AgentIDFromTopic(prefix, topic) = SubSeq(r, 1, Min(cut) - 1)
  <2>1. cut # {}
      BY <1>8
  <2>2. QED
      BY <1>7, <2>1 DEF AgentIDFromTopic, h, cut, AgentHead
<1>12. (Len(agent) + 1) - 1 = Len(agent)
    BY <1>5
<1>13. QED
    BY <1>6, <1>10, <1>11, <1>12 DEF topic

\* Whatever is read as an agent's id has no separator in it.
LEMMA ReadIsWhole ==
  ASSUME NEW prefix \in Seq(Tokens), NEW topic \in Seq(Tokens)
  PROVE  AgentIDFromTopic(prefix, topic) \in Seq(Tokens) /\ Whole(AgentIDFromTopic(prefix, topic))
<1> DEFINE h == AgentHead(prefix)
           r == After(h, topic)
           cut == {i \in 1..Len(r) : r[i] = "/"}
<1>1. h \in Seq(Tokens)
  <2>1. <<>> \in Seq(Tokens)
      OBVIOUS
  <2>2. QED
      BY <2>1, BaseThenRest
<1> HIDE DEF h
<1>2. CASE ~ IsPrefix(h, topic) \/ cut = {}
  <2>1. AgentIDFromTopic(prefix, topic) = <<>>
      BY <1>2 DEF AgentIDFromTopic, Invalid, h, AgentHead
  <2>2. <<>> \in Seq(Tokens) /\ DOMAIN <<>> = {}
      OBVIOUS
  <2>3. QED
      BY <2>1, <2>2 DEF Whole
<1>3. CASE IsPrefix(h, topic) /\ cut # {}
  <2>1. r \in Seq(Tokens)
      BY <1>1, <1>3, HeadThenAfter
  <2> HIDE DEF r
  <2>2. Len(r) \in Nat /\ cut \in SUBSET Nat /\ cut # {}
    <3>1. Len(r) \in Nat
        BY <2>1
    <3>2. QED
        BY <1>3, <3>1
  <2>3. /\ \A i \in cut : i \in 1..Len(r) /\ r[i] = "/"
        /\ \A i \in 1..Len(r) : r[i] = "/" => i \in cut
      OBVIOUS
  <2> HIDE DEF cut
  <2> DEFINE n == Min(cut)
             agent == SubSeq(r, 1, n - 1)
  <2>4. n \in cut /\ \A y \in cut : n =< y
    <3>1. \E x \in cut : \A y \in cut : x =< y
        BY <2>2, SmallestOf
    <3>2. QED
        BY <3>1 DEF Min
  <2>5. n \in 1..Len(r)
      BY <2>3, <2>4
  <2>6. AgentIDFromTopic(prefix, topic) = agent
      BY <1>3 DEF AgentIDFromTopic, h, r, cut, AgentHead
  <2> HIDE DEF n
  <2>7. \A i \in 1..(n - 1) : i \in 1..Len(r) /\ ~ (n =< i)
      BY <2>2, <2>5
  <2>8. \A i \in 1..(n - 1) : r[i] # "/" /\ r[i] \in Tokens
      BY <2>1, <2>3, <2>4, <2>7
  <2>9. /\ agent \in Seq(Tokens) /\ Len(agent) = IF 1 <= n - 1 THEN n - 1 - 1 + 1 ELSE 0
        /\ \A i \in 1..(n - 1 - 1 + 1) : agent[i] = r[1 + i - 1]
    <3>1. 1 \in Int /\ n - 1 \in Int
        BY <2>2, <2>5
    <3>2. QED
        BY <2>8, <3>1, SubSeqProperties
  <2> HIDE DEF agent
  <2>10. DOMAIN agent = 1..(n - 1) /\ \A i \in 1..(n - 1) : i \in 1..(n - 1 - 1 + 1) /\ 1 + i - 1 = i
    <3>1. Len(agent) = n - 1
        BY <2>2, <2>5, <2>9
    <3>2. DOMAIN agent = 1..Len(agent)
        BY <2>9
    <3>3. QED
        BY <2>2, <2>5, <3>1, <3>2
  <2>11. \A i \in DOMAIN agent : agent[i] # "/"
      BY <2>8, <2>9, <2>10
  <2>12. QED
      BY <2>6, <2>9, <2>11 DEF Whole
<1>4. QED
    BY <1>2, <1>3

\* What is before a task's id in a status topic.
TaskHead(prefix, agent) == Base(prefix, agent) \o <<"task", "/">>

LEMMA StatusByParts ==
  ASSUME NEW prefix \in Seq(Tokens), NEW agent \in Seq(Tokens), NEW task \in Seq(Tokens)
  PROVE  /\ TaskHead(prefix, agent) \in Seq(Tokens)
         /\ Cat(TaskHead(prefix, agent), task) \in Seq(Tokens)
         /\ Cat(TaskHead(prefix, agent), task) = Cat(Base(prefix, agent), Cat(<<"task", "/">>, task))
         /\ Cat(<<"task", "/">>, task) \in Seq(Tokens)
         /\ Topic(prefix, agent, "status", task) = Cat(Cat(TaskHead(prefix, agent), task), Ending)
         /\ Topic(prefix, agent, "status", task) = Cat(Base(prefix, agent), Rest("status", task))
         /\ Rest("status", task) \in Seq(Tokens)
<1> DEFINE b == Base(prefix, agent)
           m == <<"task", "/">>
           T == Seq(Tokens)
           e == Ending
<1>1. b \in T
    BY BaseThenRest
<1>2. m \in T /\ task \in T /\ e \in T
    BY LayoutIsTokens DEF Ending
<1>3. Rest("status", task) = Cat(Cat(m, task), e)
    BY DEF Rest, Cat, Ending
<1>4. TaskHead(prefix, agent) = Cat(b, m)
    BY DEF TaskHead, Cat
<1>5. Topic(prefix, agent, "status", task) = Cat(b, Rest("status", task))
    BY DEF Topic, Rest, Cat
<1>6. /\ \A x, y \in T : Cat(x, y) \in T
      /\ \A x, y, z \in T : Cat(Cat(x, y), z) = Cat(x, Cat(y, z))
    BY CatRegroups
<1> HIDE DEF b, m, T, e
<1>7. /\ Cat(b, m) \in T /\ Cat(m, task) \in T
      /\ Cat(Cat(b, m), task) = Cat(b, Cat(m, task))
    BY <1>1, <1>2, <1>6
<1>8. Cat(Cat(b, m), task) \in T /\ Cat(Cat(m, task), e) \in T
    BY <1>2, <1>6, <1>7
<1>9. Cat(Cat(b, Cat(m, task)), e) = Cat(b, Cat(Cat(m, task), e))
    BY <1>1, <1>2, <1>6, <1>7
<1>10. QED
    BY <1>3, <1>4, <1>5, <1>7, <1>8, <1>9 DEF b, m, T, e

\* A status topic is read as its own task.
LEMMA TaskIsRead ==
  ASSUME NEW prefix \in Seq(Tokens), NEW agent \in Seq(Tokens), Whole(agent), agent # <<>>,
         NEW task \in Seq(Tokens), Whole(task)
  PROVE  TaskIDFromStatusTopic(prefix, Topic(prefix, agent, "status", task)) = task
<1> DEFINE topic == Topic(prefix, agent, "status", task)
           want == TaskHead(prefix, agent)
           trimmed == want \o task
           rest == <<"task", "/">> \o task
<1>1. /\ want \in Seq(Tokens) /\ trimmed \in Seq(Tokens) /\ rest \in Seq(Tokens)
      /\ trimmed = Base(prefix, agent) \o rest /\ topic = trimmed \o Ending
  <2>1. /\ TaskHead(prefix, agent) \in Seq(Tokens)
        /\ Cat(TaskHead(prefix, agent), task) \in Seq(Tokens)
        /\ Cat(TaskHead(prefix, agent), task) = Cat(Base(prefix, agent), Cat(<<"task", "/">>, task))
        /\ Cat(<<"task", "/">>, task) \in Seq(Tokens)
        /\ Topic(prefix, agent, "status", task) = Cat(Cat(TaskHead(prefix, agent), task), Ending)
      BY StatusByParts
  <2>2. QED
      BY <2>1 DEF Cat
<1>2. IsPrefix(want, trimmed) /\ After(want, trimmed) = task
  <2> HIDE DEF want
  <2> QED
      BY <1>1, CutOff
<1> HIDE DEF trimmed, rest, topic
<1>3. IsSuffix(Ending, topic) /\ SubSeq(topic, 1, Len(topic) - 2) = trimmed
    BY <1>1, EndingIsLast
<1>4. AgentIDFromTopic(prefix, trimmed) = agent
    BY <1>1, AgentIsRead
<1>5. ~ HasAny(task, {"/"})
  <2>1. DOMAIN task = 1..Len(task)
      OBVIOUS
  <2>2. QED
      BY <2>1 DEF HasAny, Whole
<1>6. QED
    BY <1>2, <1>3, <1>4, <1>5 DEF TaskIDFromStatusTopic, TaskHead, Ending, Invalid, topic

\* A topic of another kind is read as no task.
LEMMA NoTaskIsRead ==
  ASSUME NEW prefix \in Seq(Tokens), NEW agent \in Seq(Tokens), NEW w \in Tokens, w # "status"
  PROVE  TaskIDFromStatusTopic(prefix, Base(prefix, agent) \o <<w>>) = Invalid
<1> DEFINE b == Base(prefix, agent)
           x == <<w>>
           topic == b \o x
<1>1. b \in Seq(Tokens) /\ Len(b) \in Nat
  <2>1. <<>> \in Seq(Tokens)
      OBVIOUS
  <2>2. b \in Seq(Tokens)
      BY <2>1, BaseThenRest
  <2> HIDE DEF b
  <2>3. QED
      BY <2>2
<1>2. x \in Seq(Tokens) /\ Len(x) = 1 /\ x[1] = w
    OBVIOUS
<1> HIDE DEF b, x
<1>3. /\ topic \in Seq(Tokens) /\ Len(topic) = Len(b) + Len(x)
      /\ \A i \in 1..(Len(b) + Len(x)) : topic[i] = IF i <= Len(b) THEN b[i] ELSE x[i - Len(b)]
    BY <1>1, <1>2, ConcatProperties
<1> HIDE DEF topic
<1>4. topic[Len(topic)] = w
  <2>1. /\ Len(b) + 1 \in 1..(Len(b) + Len(x)) /\ ~ (Len(b) + 1 <= Len(b)) /\ (Len(b) + 1) - Len(b) = 1
        /\ Len(topic) = Len(b) + 1
      BY <1>1, <1>2, <1>3
  <2>2. QED
      BY <1>2, <1>3, <2>1
<1>5. ~ IsSuffix(Ending, topic)
    BY <1>3, <1>4, EndsByTokens
<1>6. TaskIDFromStatusTopic(prefix, topic) = Invalid
    BY <1>5 DEF TaskIDFromStatusTopic, Ending
<1>7. QED
    BY <1>6 DEF topic, b, x

\* A text read as a status topic is exactly that topic.
LEMMA ReadIsStatusTopic ==
  ASSUME NEW prefix \in Seq(Tokens), NEW topic \in Seq(Tokens),
         TaskIDFromStatusTopic(prefix, topic) # Invalid
  PROVE  topic = Topic(prefix, AgentIDFromTopic(prefix, topic), "status",
                       TaskIDFromStatusTopic(prefix, topic))
<1> DEFINE trimmed == SubSeq(topic, 1, Len(topic) - 2)
           agent   == AgentIDFromTopic(prefix, trimmed)
           want    == TaskHead(prefix, agent)
           task    == After(want, trimmed)
<1>1. /\ IsSuffix(Ending, topic) /\ IsPrefix(want, trimmed)
      /\ TaskIDFromStatusTopic(prefix, topic) = task
    BY DEF TaskIDFromStatusTopic, TaskHead, Ending
<1>2. trimmed \in Seq(Tokens) /\ topic = trimmed \o Ending
    BY <1>1, EndingCutOff
<1> HIDE DEF trimmed
<1>3. agent \in Seq(Tokens) /\ Whole(agent)
    BY <1>2, ReadIsWhole
<1> HIDE DEF agent
<1>4. want \in Seq(Tokens)
  <2>1. <<>> \in Seq(Tokens)
      OBVIOUS
  <2>2. QED
      BY <1>3, <2>1, StatusByParts
<1> HIDE DEF want
<1>5. task \in Seq(Tokens) /\ trimmed = want \o task
    BY <1>1, <1>2, <1>4, HeadThenAfter
<1> HIDE DEF task
<1>6. /\ topic = Topic(prefix, agent, "status", task)
      /\ topic = Base(prefix, agent) \o Rest("status", task) /\ Rest("status", task) \in Seq(Tokens)
  <2>1. /\ Topic(prefix, agent, "status", task) = Cat(Cat(TaskHead(prefix, agent), task), Ending)
        /\ Topic(prefix, agent, "status", task) = Cat(Base(prefix, agent), Rest("status", task))
        /\ Rest("status", task) \in Seq(Tokens)
      BY <1>3, <1>5, StatusByParts
  <2>2. topic = Cat(Cat(TaskHead(prefix, agent), task), Ending)
      BY <1>2, <1>5 DEF Cat, want
  <2>3. QED
      BY <2>1, <2>2 DEF Cat
<1>7. AgentIDFromTopic(prefix, Base(prefix, agent) \o Rest("status", task)) = agent
    BY <1>3, <1>6, AgentIsRead
<1>8. QED
    BY <1>1, <1>6, <1>7

\* The texts that are published.
LEMMA BoundedTexts ==
  ASSUME NEW S, NEW R, S \subseteq R, NEW n
  PROVE  SeqOf(S, n) \subseteq Seq(R)
<1> SUFFICES ASSUME NEW s \in SeqOf(S, n) PROVE s \in Seq(R)
    OBVIOUS
<1>1. PICK m \in 0..n : s \in [1..m -> S]
    BY DEF SeqOf
<1>2. m \in Nat
    BY <1>1
<1>3. s \in [1..m -> R]
    BY <1>1
<1>4. QED
    BY <1>2, <1>3, SeqDef

LEMMA JoinedIsText ==
  ASSUME NEW prefix, prefix \in Seq(Tokens), NEW levels, levels \in Lists
  PROVE  Joined(prefix, levels) \in Seq(Tokens)
<1> DEFINE T == Seq(Tokens)
           step == [a \in T \X T |-> a[1] \o Slash \o a[2]]
           Body(f) == [n \in 0..Len(levels) |-> IF n = 0 THEN prefix ELSE f[n - 1] \o Slash \o levels[n]]
           h == CHOOSE f : f = Body(f)
<1>1. /\ Len(levels) \in Nat /\ \A n \in 1..Len(levels) : levels[n] \in T
      /\ \A n \in 1..Len(levels) : n - 1 \in 0..Len(levels) /\ n \in 0..Len(levels) /\ n # 0
    BY DEF Lists
<1>2. \A x, y \in T : x \o Slash \o y \in T
  <2>1. Slash \in T
      BY LayoutIsTokens
  <2>2. \A x, y \in T : x \o y \in T
      BY ConcatProperties
  <2>3. QED
      BY <2>1, <2>2
<1>3. step \in [T \X T -> T]
    BY <1>2
<1>4. \A x, y \in T : step[x, y] = x \o Slash \o y
    OBVIOUS
<1>5. PICK f : f \in [0..Len(levels) -> T] /\ f[0] = prefix
               /\ \A n \in 1..Len(levels) : f[n] = step[f[n - 1], levels[n]]
  <2> HIDE DEF step
  <2>1. levels \in Seq(T) /\ prefix \in T
      BY DEF Lists
  <2> HIDE DEF T
  <2>2. \E f : IsLoop(f, levels, T, prefix, step)
      BY <1>3, <2>1, LoopHasValues
  <2>3. QED
      BY <2>2 DEF IsLoop
<1> HIDE DEF step, T
<1>6. \A n \in 1..Len(levels) : f[n] = f[n - 1] \o Slash \o levels[n]
    BY <1>1, <1>4, <1>5
<1>7. f = Body(f)
  <2>1. \A n \in 0..Len(levels) : n # 0 => n \in 1..Len(levels)
      BY <1>1
  <2>2. \A n \in 0..Len(levels) : f[n] = Body(f)[n]
      BY <1>5, <1>6, <2>1
  <2>3. QED
      BY <1>5, <2>2
<1>8. h = Body(h)
  <2> HIDE DEF Body
  <2> QED
      BY <1>7
<1>9. Joined(prefix, levels) = h[Len(levels)]
    BY DEF Joined
<1> HIDE DEF h
<1>10. h[0] = prefix /\ \A n \in 1..Len(levels) : h[n] = h[n - 1] \o Slash \o levels[n]
  <2>1. 0 \in 0..Len(levels)
      BY <1>1
  <2>2. QED
      BY <1>1, <1>8, <2>1
<1>11. \A n \in 0..Len(levels) : h[n] = f[n]
  <2> HIDE DEF Body
  <2>1. \A n \in 1..Len(levels) : h[n - 1] = f[n - 1] => h[n] = f[n]
      BY <1>6, <1>10
  <2>2. Len(levels) \in Nat /\ h[0] = f[0]
      BY <1>1, <1>5, <1>10
  <2>3. QED
      BY <2>1, <2>2, LoopsAgree
<1>12. QED
  <2>1. Len(levels) \in 0..Len(levels)
      BY <1>1
  <2>2. h[Len(levels)] = f[Len(levels)] /\ f[Len(levels)] \in T
      BY <1>5, <1>11, <2>1
  <2>3. QED
      BY <1>9, <2>2 DEF T

\* What is published and heard: nothing, a refusal, a topic and its handler's reading, or a
\* text and what core reads in it.
IsPublished(prefix, agent, kind, task) ==
  /\ prefix \in Seq(Tokens) /\ Whole(prefix)
  /\ agent \in Seq(Tokens) /\ Whole(agent) /\ agent # <<>>
  /\ task \in Seq(Tokens) /\ Whole(task) /\ (kind # "status" => task = <<>>)
  /\ sent = [kind |-> kind, prefix |-> prefix, agent |-> agent, task |-> task,
             topic |-> Topic(prefix, agent, kind, task)]
  /\ \/ heard = Nothing
     \/ heard = [kind |-> kind, agent |-> agent,
                 task |-> IF kind = "status" THEN task ELSE Invalid]

IsText(prefix, topic) ==
  /\ prefix \in Seq(Tokens) /\ topic \in Seq(Tokens)
  /\ sent = [kind |-> "text", prefix |-> prefix, topic |-> topic]
  /\ heard = [kind |-> "text", agent |-> AgentIDFromTopic(prefix, topic),
              task |-> TaskIDFromStatusTopic(prefix, topic)]

TopicInv ==
  \/ sent = Nothing /\ heard = Nothing
  \/ sent = [kind |-> "refused"] /\ heard = Nothing
  \/ \E prefix, agent, task, kind : kind \in Kinds /\ IsPublished(prefix, agent, kind, task)
  \/ \E prefix, topic : IsText(prefix, topic)

LEMMA TopicInvInit == TopicInit => TopicInv
BY DEF TopicInit, TopicInv

LEMMA ValidIsWhole == \A s \in Seq(Tokens) : ValidSegment(s) => Whole(s) /\ s # <<>>
<1> SUFFICES ASSUME NEW s \in Seq(Tokens), ValidSegment(s) PROVE Whole(s) /\ s # <<>>
    OBVIOUS
<1>1. DOMAIN s = 1..Len(s)
    OBVIOUS
<1>2. QED
    BY <1>1 DEF ValidSegment, HasAny, Whole

LEMMA TopicInvStep == TopicInv /\ [TopicNext]_topicVars => TopicInv'
<1> SUFFICES ASSUME TopicInv, [TopicNext]_topicVars PROVE TopicInv'
    OBVIOUS
<1>1. TopicPrefixes \subseteq Seq(Tokens) /\ Texts \subseteq Seq(Tokens)
    BY BoundedTexts DEF TopicPrefixes, Texts, Tokens
<1>2. ASSUME NEW prefix \in TopicPrefixes, NEW agent \in Texts, NEW task \in Texts, NEW kind \in Kinds,
             sent = Nothing, Publish(prefix, agent, kind, task)
      PROVE  TopicInv'
  <2>1. heard = Nothing /\ heard' = Nothing
      BY <1>2 DEF TopicInv, IsPublished, IsText, Publish, Nothing, Kinds
  <2>2. prefix \in Seq(Tokens) /\ agent \in Seq(Tokens) /\ task \in Seq(Tokens)
      BY <1>1
  <2>3. CASE ~ValidTopic(prefix, agent) \/ (kind = "status" /\ ~ValidSegment(task))
      BY <1>2, <2>1, <2>3 DEF TopicInv, Publish
  <2>4. CASE ValidTopic(prefix, agent) /\ (kind = "status" => ValidSegment(task))
    <3>1. Whole(prefix) /\ Whole(agent) /\ agent # <<>>
        BY <2>2, <2>4, ValidIsWhole DEF ValidTopic
    <3>2. Whole(task) /\ (kind # "status" => task = <<>>)
      <4>1. Whole(<<>>)
          BY DEF Whole
      <4>2. QED
          BY <1>2, <2>2, <2>4, <4>1, ValidIsWhole DEF Publish
    <3>3. IsPublished(prefix, agent, kind, task)'
        BY <1>2, <2>1, <2>2, <2>4, <3>1, <3>2 DEF Publish, IsPublished
    <3>4. QED
        BY <3>3 DEF TopicInv
  <2>5. QED
      BY <2>3, <2>4
<1>3. ASSUME NEW prefix \in TopicPrefixes,
             NEW levels \in SeqOf({<<>>, <<"agent">>} \cup SeqOf(Words, 1), 4),
             PublishText(prefix, levels)
      PROVE  TopicInv'
  <2>1. prefix \in Seq(Tokens) /\ levels \in Lists
    <3>1. {<<>>, <<"agent">>} \cup SeqOf(Words, 1) \subseteq Seq(Tokens)
      <4>1. SeqOf(Words, 1) \subseteq Seq(Tokens)
          BY BoundedTexts DEF Tokens
      <4>2. <<>> \in Seq(Tokens) /\ <<"agent">> \in Seq(Tokens)
          BY LayoutIsTokens
      <4>3. QED
          BY <4>1, <4>2
    <3>2. QED
        BY <1>1, <3>1, BoundedTexts DEF Lists
  <2>2. Joined(prefix, levels) \in Seq(Tokens)
      BY <2>1, JoinedIsText
  <2>3. IsText(prefix, Joined(prefix, levels))'
    <3>1. sent'.topic = Joined(prefix, levels)
        BY <1>3 DEF PublishText
    <3>2. QED
        BY <1>3, <2>1, <2>2, <3>1 DEF PublishText, IsText
  <2>4. QED
      BY <2>3 DEF TopicInv
<1>4. ASSUME NEW heardAs \in Kinds \ {"new"}, Hear(heardAs) PROVE TopicInv'
  <2>1. PICK prefix, agent, task, kind : kind \in Kinds /\ IsPublished(prefix, agent, kind, task)
    <3>1. sent.kind \in Kinds
        BY <1>4 DEF Hear
    <3>2. sent # Nothing /\ sent # [kind |-> "refused"]
        BY <3>1 DEF Nothing, Kinds
    <3>3. ~ \E prefix, topic : IsText(prefix, topic)
        BY <3>1 DEF IsText, Kinds
    <3>4. QED
        BY <3>2, <3>3 DEF TopicInv
  <2> DEFINE topic == Topic(prefix, agent, kind, task)
  <2>2. sent.kind = kind /\ sent.prefix = prefix /\ sent.topic = topic
      BY <2>1 DEF IsPublished
  <2>3. Matches(Filter(prefix, heardAs), topic)
      BY <1>4, <2>2 DEF Hear
  <2>4. heardAs = kind
      BY <2>1, <2>3, MatchesItsKind DEF IsPublished
  <2> HIDE DEF topic
  <2>5. heard' = [kind |-> kind, agent |-> AgentIDFromTopic(prefix, topic),
                  task |-> TaskIDFromStatusTopic(prefix, topic)]
      BY <1>4, <2>2, <2>4 DEF Hear
  <2>6. /\ prefix \in Seq(Tokens) /\ agent \in Seq(Tokens) /\ task \in Seq(Tokens)
        /\ Whole(agent) /\ agent # <<>> /\ Whole(task)
      BY <2>1 DEF IsPublished
  <2>7. AgentIDFromTopic(prefix, topic) = agent
    <3>1. topic = Base(prefix, agent) \o Rest(kind, task) /\ Rest(kind, task) \in Seq(Tokens)
        BY <2>1, <2>6, RestByLevels DEF topic, Topic, Rest
    <3>2. QED
        BY <2>6, <3>1, AgentIsRead
  <2>8. TaskIDFromStatusTopic(prefix, topic) = IF kind = "status" THEN task ELSE Invalid
    <3>1. CASE kind = "status"
        BY <2>6, <3>1, TaskIsRead DEF topic
    <3>2. CASE kind # "status"
      <4>1. kind \in Tokens /\ topic = Base(prefix, agent) \o <<kind>>
          BY <1>4, <2>1, <2>4, <3>2, LayoutIsTokens DEF topic, Topic, Kinds
      <4>2. QED
          BY <2>6, <3>2, <4>1, NoTaskIsRead
    <3>3. QED
        BY <3>1, <3>2
  <2>9. IsPublished(prefix, agent, kind, task)'
    <3>1. sent' = sent
        BY <1>4 DEF Hear
    <3>2. QED
        BY <2>1, <2>5, <2>7, <2>8, <3>1 DEF IsPublished
  <2>10. QED
      BY <2>1, <2>9 DEF TopicInv
<1>5. CASE UNCHANGED topicVars
    BY <1>5 DEF topicVars, TopicInv, IsPublished, IsText
<1>6. QED
    BY <1>2, <1>3, <1>4, <1>5 DEF TopicNext

LEMMA TopicsByInv == TopicInv => TopicsReadBack
<1> SUFFICES ASSUME TopicInv PROVE TopicsReadBack
    OBVIOUS
<1>1. CASE sent = Nothing \/ sent = [kind |-> "refused"]
    BY <1>1 DEF TopicsReadBack, Nothing, Kinds
<1>2. ASSUME NEW prefix, NEW agent, NEW task, NEW kind, kind \in Kinds, IsPublished(prefix, agent, kind, task)
      PROVE  TopicsReadBack
  <2>1. sent.kind = kind /\ sent.prefix = prefix /\ sent.agent = agent /\ sent.task = task
        /\ sent.topic = Topic(prefix, agent, kind, task) /\ kind # "text"
      BY <1>2 DEF IsPublished, Kinds
  <2>2. kind # "new" => Matches(Filter(prefix, kind), Topic(prefix, agent, kind, task))
      BY <1>2, MatchesItsKind DEF IsPublished
  <2>3. heard = Nothing \/ (heard.kind = kind /\ heard.agent = agent
                            /\ heard.task = IF kind = "status" THEN task ELSE Invalid)
      BY <1>2 DEF IsPublished
  <2>4. QED
      BY <2>1, <2>2, <2>3 DEF TopicsReadBack
<1>3. ASSUME NEW prefix, NEW topic, IsText(prefix, topic) PROVE TopicsReadBack
  <2>1. /\ prefix \in Seq(Tokens) /\ topic \in Seq(Tokens)
        /\ sent.kind = "text" /\ sent.kind \notin Kinds /\ sent.prefix = prefix /\ sent.topic = topic
        /\ heard.agent = AgentIDFromTopic(prefix, topic)
        /\ heard.task = TaskIDFromStatusTopic(prefix, topic)
      BY <1>3 DEF IsText, Kinds
  <2>2. heard.task # Invalid => topic = Topic(prefix, heard.agent, "status", heard.task)
      BY <2>1, ReadIsStatusTopic
  <2>3. QED
      BY <2>1, <2>2 DEF TopicsReadBack
<1>4. QED
    BY <1>1, <1>2, <1>3 DEF TopicInv

\* The topics of an agent: what an agent publishes goes to the handler of its kind alone and
\* is read back with its own agent's and task's ids, for ids of any words and any length, and
\* a text read as a status topic is the status topic of the ids it is read as.
THEOREM TopicsAreReadBack == TopicSpec => []TopicsReadBack
<1>1. TopicSpec => []TopicInv
    BY TopicInvInit, TopicInvStep, PTL DEF TopicSpec
<1>2. QED
    BY <1>1, TopicsByInv, PTL
=============================================================================
