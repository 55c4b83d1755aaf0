# Verification of vantage-core

vantage-core is a fleet server ("core", Go) with an SDK for robot agents. Missions
ask core for tasks over gRPC, core dispatches each task to one agent over MQTT, the
agent executes it and reports back, and agents publish telemetry that core validates,
stores and shows. This directory holds TLA+ models of the parts where order,
concurrency and failure decide whether that works, TLC configurations that check
them, and proofs that TLAPS checks.

Paths below are relative to the repository; `service/` is short for
`cmd/core/service/`, `telemetry/` for `cmd/core/telemetry/` and `agentsdk/` for
`pkg/agentsdk/`.

## 1. The system

### Components

| Component | State it keeps | Operations | What is hard about it | What makes it correct |
|---|---|---|---|---|
| Task dispatch in core: `service/task_dispatcher.go`, `service/mission_task_manager.go`, `repository/task_repo_memory.go`, `controller/task_connect.go` | the task map, the dispatch mutex, the MQTT client | `SendTask`, `OnTaskUpdated`, `SetMQTTClient` | many callers at once; a publish outside the mutex; statuses while a publish is in flight; a restart forgets everything | one active task per agent; saved before published; missions told after the repository; no dispatch waits for another's publish |
| Agent task manager: `agentsdk/task_manager.go` | the dedup cache (map and LRU list), one goroutine per task, the persistent MQTT session | `listenNewTask`, `recall`, `remember`, `publishStatus`, `Ack` | QoS 1 redelivery at any point of an execution, reconnects, crashes, a bounded cache | a tracked task is executed once; a message stays with the broker until its task is settled; outcomes are true |
| Task plane: the two above, `cmd/core/task_mqtt.go` and the broker | both, and the messages in between | | lost and late statuses, core's clean session | one task queued or running at a time, each run once; core's view ends as the agent's did |
| Mission streams: `service/mission_registry.go`, `grpc/mission_grpc.go` | the table of live streams | `StreamMission`, `AttachStream`, `DetachStream`, `GetStream` | a mission back before its old handler returned | a served mission is online, one that is gone is not |
| Presence: `agentsdk/agent.go`, `service/agent_registry.go`, `cmd/core/task_mqtt.go` | connection, retained events, last seen | `handleConnect`, `Stop`, the will, event and telemetry handlers | retained events, a reconnect under a running `handleConnect`, telemetry after the offline event | an agent that is gone is shown offline, one that is there online |
| Registration and authentication: `controller/agent_registry_http.go`, `controller/mission_controller.go`, `service/auth_service.go`, `service/agent_registry.go` | keys, tokens, broker passwords, skills | register, report skills, `ResetRegTokens` | overlapping requests for one id, edits of the keys, answers that get lost | what was answered works; nothing is given to who has no key |
| Topics: `agentsdk/topic.go`, `cmd/core/*_mqtt.go` | none | build, filter, read back | ids that are words of the layout, empty, or hold separators | a topic is read back as what it was built from |
| Ingest and store: `telemetry/ingest`, `telemetry/store/store.go`, `cmd/core/telemetry.go` | two bounded queues, a batch, counters | `handle`, `Run`, `Enqueue`, `writeBatch` | full queues, a hung or failing Postgres, rows it refuses, shutdown | never block paho; count every loss; keep the order |
| Event throttle: `telemetry/events/throttle.go` | windows, LRU lists, timers, per-second count | `Record`, `closeWindow`, `evictOldest`, `tryEmit` | timers that fire while their window is evicted or reopened | every occurrence told once, every window closed |
| Contract, validation, mapping: `telemetry/registry`, `validate`, `mapping`, `cmd/core/telemetry.go` | one message at a time | `Validate`, `CheckSchemaAnnouncement`, `Apply`, `enqueueTelemetryRow` | three verdicts in three encodings; saturated durations | row, live view and events agree; times are sane |
| Configuration reload: `cmd/core/pbconfig.go`, the registries' setters | the installed tables, the compiled schemas | PocketBase hooks of record edits | two hooks at once; a message between two table reads | the last edit is the one installed |
| Live view: `telemetry/live`, `controller/telemetry_live.go` | subscriber channels | `Publish`, `Subscribe`, cancel | drain and send against a reader | the newest message reaches each reader |
| Query, status: `telemetry/query`, `controller/telemetry_connect.go` | none | paging, bucketing, last point | equal time stamps at a page's end; rows that arrive while paging | each row on one page |
| Collection migrations: `cmd/core/migrations`, `cmd/core/pocketbase.go` | PocketBase's schema, seeded rows | up, down, the start-up order | partly provisioned databases, operators' rows, failed starts | a core that serves has the whole schema |
| Store migrations, retention: `telemetry/store/migrate.go`, `retention.go` | schema version, policies | start-up steps | a crash between two steps, two cores of different versions | each file once, in order |
| Slamtec driver: `agentsdk/slamtec` | actions of the robot, copies of layout and brake, brake subscribers | every skill, the health and power loops | polling against cancel and time-out, two skills at once, lost answers | success means done; every call answers |
| gRPC agent task manager: `agentsdk/service/` | the one task slot | handle, abort, clear | an abort racing the end of a task | the slot belongs to the running task |
| Pose telemetry: `service/pose_listener.go`, `agentsdk/service/stream_pose.go` | last pose, history, matrix | append, trim, send | the trim's boundary, a matrix fetched once | recent poses kept, frames never go back |
| Web pages, start-up and wiring, generated code, React UI, examples | | | nothing concurrent of their own | |

### How they interact

- Mission to core: one gRPC stream per mission; its goroutine runs `OnCreateTask`,
  publish included, before it receives again.
- Core to agent: MQTT `task/new`, QoS 1, into the agent's persistent session. Agent to
  core: `task/<id>/status`, QoS 1, into core's **clean** session.
- Both MQTT clients hand messages to callbacks one at a time. In core the same callback
  goroutine applies task statuses and lifecycle events and feeds the ingest queue.
- Core to mission: `stream.Send` from that callback goroutine.
- Telemetry: callback, ingest queue, one consumer goroutine (presence, validation,
  throttle, live view), store queue, one writer goroutine, Postgres.
- PocketBase hooks, run in the goroutine of the editing request, replace the tables that
  dispatch, registration, validation and mapping read.
- On the robot: the task handlers call skills, whose goroutines talk to the robot over
  HTTP; the health loop feeds the emergency brake to whoever subscribed.

## 2. The modules

| Module | Models | Checked in run |
|---|---|---|
| `TaskModel` | task statuses, the repository as a function, status translation | all of dispatch and plane |
| `TaskDispatcher` | task dispatch in core | `dispatch` |
| `TaskManager` | the agent's task manager and its session | `agent`, `agent_earlyack` |
| `OneTaskAtATime` | the abstract promise: one task queued or running, each run once | as a property of `plane` |
| `TaskPlane` | core, broker and agent together, by `INSTANCE` of the two; implements `OneTaskAtATime` | `plane`, `plane_revive` |
| `MissionStreams` | the stream table and `StreamMission` | `connections`, `streams_overlap` |
| `Presence` | the agent's life cycle, broker, core's registry | `connections` |
| `Registration` | registration, tokens, passwords, skills | `connections` |
| `CollectionMigrations`, `StoreMigrations` | start-up of the two databases | `connections` |
| `TopicLayout` | topics and filters | `connections` |
| `TelemetryPipeline` | ingest daemon, listener and store | `telemetry` |
| `EventThrottle` | the violation throttle | `telemetry`, `throttle_stale` |
| `ConfigReload` | edits, hooks, tables, one message between them | `telemetry` |
| `TelemetryContract` | verdict, row, envelope and events of one message | `telemetry`, `mapping_window` |
| `LiveBroadcast` | the live view | `telemetry` |
| `QueryPaging` | pages, buckets, status | `telemetry`, `paging_ties` |
| `SlamtecDriver`, `RobotMonitor` | the driver's skills; its loops and brake subscribers | `robot` |
| `AgentTaskSlot` | the SDK's task slot over gRPC | `robot` |
| `PoseStream` | poses from agent to history | `robot` |
| `TaskDispatcherProofs`, `TaskManagerProofs`, `TaskPlaneProofs`, `ConnectionsProofs`, `TelemetryProofs`, `IngestProofs`, `RobotProofs` | theorems about the modules above | |
| `SequenceLemmas` | lemmas shared by the proofs: smallest elements, loops, sequences | |

Each module names its variables after the fields they stand for and has one action per
operation, or per part of an operation between two points where another goroutine can
run. Variables marked "history" record the past for a property and guard nothing.
Each module has a part headed "Plausible bugs": changed forms of its definitions that no
specification uses. They are the mutants of `PROJECT.json`: with the mutant in place of
the definition TLC finds a property of the run violated.

Components that share no state are checked together: `MCConnections`, `MCTelemetry` and
`MCRobot` extend several modules and choose in the initial state, in the variable
`slice`, the one a behaviour exercises. The others stay in their initial state, so the
state space is the sum of the parts', not their product, and a property of a part is a
property of the whole. (`MCTaskPlane`, on the other hand, is a true composition.) Fairness
is stated there for the steps of each part.

### Core's tasks

**TaskDispatcher.** `SendTask` is `CheckFree` (lock, busy check) or `RejectBusy`, then
`SaveDraft` (save, unlock), then `PublishOk` or `PublishFails`. `repo` is
`TaskRepoMemory.ts`, `mu` the mutex's holder, `call` each caller's frame, `wire` what was
published. `OnTaskUpdated` is `ReadTask` (a copy of the record), `ApplyStatus` (save it
back, whatever the old status was), `TellMission` or `MissionUnreachable`. `Restart` is a
restart of core: everything lives in memory. `settled` is a history variable: tasks that
were final once. `OneUnsettledTaskPerAgent` speaks of tasks that were *never* final,
because `OnTaskUpdated` can take a final task back (finding `plane_revive`).

**TaskManager.** `lis` is the frame of `listenNewTask`, `run` those of the task
goroutines, `seen` and `order` the two halves of the dedup cache, `session` the messages
the broker holds. `RecallNew` / `RecallSeen` are the two outcomes of `recall`, eviction
included; `StartTask` publishes "started" and launches the goroutine; `ExecuteReturns`,
`RememberFinal`, `PublishFinal`, `WorkerAck` are the goroutine in its order; `Republish`,
`ListenerAck` answer a redelivery. `Reconnect` makes the broker send everything
unacknowledged again, `Crash` loses the process and keeps the session. paho and the
broker are external and modelled by what the SDK relies on: an `Ack` made on an earlier
connection may or may not arrive.

**TaskPlane.** The variable `faults`, chosen from `FaultSets` in the initial state, says
what may go wrong in a behaviour, so that one run covers behaviours with and without
faults, each promise conditioned on them. The refinement mapping `Phase` reads a task's
abstract phase off the agent (running or executed) and core's repository (queued).

### Connections and start-up

**MissionStreams.** `streams` is `MissionRegistry.streams`, `handler` the `StreamMission`
goroutine of each stream, `gone` the streams whose client has left. The deferred
`DetachStream` deletes by mission, as in the code. `Patient` missions open a stream only
after their earlier handler returned.

**Presence.** One agent (agents share nothing here). `hook[k]` is connection k's
`handleConnect`, a goroutine that publishes "online", on the first connection the hooks
and "registered", waits for each token and may outlive its connection; `stopping` is
`Stop`. `outbox` is paho's queue of unacknowledged messages, `retained` the broker's
retained event, `toCore` what it sends to core's clean session, `ingestq` the telemetry
that is handled later than the events around it, `age` the time since core last saw the
agent. The broker may restart and lose what it retains; the will may come late.

**Registration.** A request is a record that goes through its steps: body, exchange of
the key, registration of the skills, check of the id as a topic segment, password,
answer. For missions the body comes first. `ReportSkills` authenticates in one step and
writes in another. A token is the number of its request.

**CollectionMigrations.** A schema is the set of its parts, rows are "fixture" or "own".
`Up` and `Down` follow each of the eleven files: what it looks up, adds, alters, drops and
which rows it inserts or leaves. The database starts as any that the imperative
provisioning before the migrations may have left. `phase` is a start: migrating, loading,
serving; or `migrate down`, which applies what is pending first. A failure in the middle
rolls back the open migration, those before stay.

**StoreMigrations.** Two cores, one a file behind the other; check, run, record, commit,
then the retention policy removed and added. A start may die between any two.

**TopicLayout.** Topics are sequences of words and separators. `Publish` builds a topic,
`Hear` is the handler of a filter that matches it, `PublishText` any text of the right
shape. This is an algorithm over all inputs up to a length rather than a protocol.

### Telemetry

**TelemetryPipeline.** `Handle` is paho's callback, `Consume`, `ConsumeOnly`, `Enqueue`
the consumer goroutine (a message that is to be stored or is not), `TakeRow`, `TakeTick`,
`TakeDone` the three branches of `Store.Run`'s select, the rest `writeBatch`. An INSERT
succeeds, fails, or is committed and reported as failed; one with a row in `NotJSON`
always fails. `answers`, chosen initially, says whether Postgres answers every INSERT or
may hang.

**EventThrottle.** `win` and `lru` are `byAgent` and its lists, `armed` and `fired` the
timers and the callbacks that wait for `mu`, `rec` and `closers` the rows that are emitted
after `mu` is let go. A timer may fire at any time; `tryEmit` reads the clock in one step
and takes `rateMu` in another.

**ConfigReload.** A collection's content is its version. `edit` holds each editing
request: the reloads still to run, in the order the hooks call them, and the tables the
current one still has to replace from the snapshot it read. `msg` is the consumer's
message on its way through validate, group, toggle, resolve and mapping. The core modelled
has persistence configured; without it the mappings and toggles are neither reloaded nor
read, and a message is done after its validation.

**TelemetryContract.** One message: `Arrive`, the verdict (`Validate`, or
`CheckSchemaAnnouncement`), `EnqueueTelemetryRow`, `PublishLiveEnvelope`, `Record`. The
schema library's yes or no is external; `classify`'s second reading of the schema is
modelled. Times are integers and durations saturate at a small width, as
`time.Time.Sub` does at its large one. A payload is one of a few forms: an object, another
value, null, text that is no JSON, and an empty one, which is published to viewers as null.

**LiveBroadcast, QueryPaging.** Publish goes over its subscribers under the lock, drains
one channel and sends again in separate steps, since readers do not lock. Queries follow
`Query`'s range, limit, token and bucket while rows arrive and the clock moves.

### The robot

**SlamtecDriver.** Each call is a goroutine: request, poll, settle, store, answer. A
motion skill has a plan of robot actions (`GoTo`, `EnterLift`, ...); the robot runs one
action at a time and a new one ends the last. Any request may fail after it took effect.
Jack, localisation, soft brake and `StopGo` calls have paths of their own.

**RobotMonitor.** The health loop polls, swaps `brakeState`, broadcasts without waiting;
`BrakeCh` registers and seeds. **AgentTaskSlot.** `HandleTask`, the goroutine's STARTED,
Execute, `clearTask` and outcome, `AbortCurrentTask` and its ABORTED. **PoseStream.** The
matrix fetched once per `Run`, the stream, `PoseListener` and its trim.

## 3. The runs

| Run | Checks | Bounds, and why they are enough |
|---|---|---|
| `dispatch` | `TypeOK`, `OneUnsettledTaskPerAgent`, `SavedBeforePublished`, `ToldOverMeansSettled`, `CheckStaysTrue`, `DispatchLockReleased` | two callers, two agents, three task ids, any number of restarts. A race needs two callers; the second agent shows that agents do not disturb each other; with three ids one agent gets a task while an older one is settled and a third is refused. Three of the reported statuses, `MCAcks`: one that is final, `cannot_start`, which is over for the mission only, and one core does not know. "started" takes the steps of `cannot_start`, "failed" those of "finished"; the theorems are about every status |
| `agent` | `TypeOK`, `CacheConsistent`, `ExecutedOnceUnlessEvicted`, `TasksAreHeld`, `OutcomeOnlyIfExecuted`, `AcceptedIsExecuted` (liveness) | two of three tasks (one of an unknown type) published, a cache of one, two goroutines, a reconnect and a crash at any points: the second task evicts the first, whose message may come again. `MCBound` is stated in `MCTaskManager`; larger duplicates and caches are covered by the theorems |
| `agent_earlyack` (violation) | `HeldUntilExecuted` | a reconnect, no crash |
| `plane` | `PlaneSound`, `ImplementsOneTaskAtATime` (refinement), `TaskCompletes` (liveness) | one agent, two callers, two tasks, and three choices of faults: none; lost publishes, lost statuses, dropped connections of either side; restarts of both processes, with at most two statuses waiting for core (`MCBound`) |
| `plane_revive` (violation) | `FinalStays` | one reconnect, no other fault |
| `connections` | `TypeOK`, `TableHoldsLiveStreams`, `PatientMissionIsOnline`, `GoneGoesOffline` (streams); `PresenceSound`, `PresenceFollows`; `RegistrationSound`; `CollectionsComeUp`; `StoreSound`; `TopicsReadBack` | two missions, three streams; two connections of the agent, one cut of core, one report; three requests of two agents (one with an id that is no topic segment) and a mission, one edit; every provisioned database, one revert, one failure, one added row; four starts of two cores; ids and prefixes of up to two words over the layout's own words, the separator and a wildcard |
| `streams_overlap` (violation) | `ServedMissionIsOnline` | no mission patient, four streams |
| `telemetry` | `PipelineSound`, `PipelineGoesOn`; `ThrottleSound`, `AllSummarised`; `ReloadSound`; `ContractSound`; `LiveSound`, `LatestIsShown`; `PagingSound`, `PagesGoOn` | four messages (one refused by Postgres), queues and batches of two, one retry: both queues overflow, a batch is retried, given up or cut off; three signatures, a cap of two, four violations, two seconds, a ceiling of one: evicting with a count, reopening under the same name and a late callback all happen; two edits that overlap, over contents in which the agent changes groups and a schema breaks; every payload over two properties; two viewers, one slow, of two agents; three rows over four times with pages of one and two |
| `throttle_stale` (violation) | `SuppressedForTheWindow` | two signatures, a cap of one |
| `mapping_window` (violation) | `MappedTimeIsSane` | durations up to 3, times beyond |
| `paging_ties` (violation) | `PagesComplete` | as in `telemetry` |
| `robot` | `DriverSound`, `MonitorSound`, `SlotSound`, `PoseSound`, `RobotGoesOn` (liveness) | two calls of any kinds, three robot actions, one failed request: calls take the robot from each other and any answer may be lost; two brake subscribers and three changes; three runs over four tasks, one id repeated, one that hangs, one unknown; two poses over three ticks. The robot starts with one layout and its brake on, so the driver's copy of the brake starts wrong |

Deadlock is checked in `dispatch` only: in the other runs the bound on tasks, streams or
messages lets the system come to an end.

A property called `...Sound` is the conjunction of one component's type invariant and its
safety invariants, each defined and commented on its own in the module; TLC names the
component that failed.

### What the properties say

- `OneUnsettledTaskPerAgent`, `CheckStaysTrue`: the busy check and the save are one
  critical section, so two goroutines never both find an agent free.
- `SavedBeforePublished`: an agent's first status always finds its task.
- `ToldOverMeansSettled`: a mission that reacts to "completed" with its next task is not
  refused because of the task that completed. A task reported `cannot_start` is excepted by
  name: there it is refused (section 4).
- `DispatchLockReleased`: a publish that hangs for ever holds up no other dispatch.
- `CacheConsistent`, `ExecutedOnceUnlessEvicted`: map and list are cut together, and a
  process runs a task twice only if the bounded cache forced it to forget.
- `TasksAreHeld`: before the first reconnect a crash at any point loses no task; before
  the first crash none is dropped, early acknowledgements included. `AcceptedIsExecuted`
  is the liveness that goes with it; a reconnect *and* a crash may lose a task.
- `OutcomeOnlyIfExecuted`, `PlaneSound`: nobody is told of an end that did not happen,
  across restarts of both sides.
- `ImplementsOneTaskAtATime`: whatever statuses and publishes are lost and whatever is
  redelivered, the agent is given one task at a time and runs each once. `TaskCompletes`:
  without faults core learns of the end of every task.
- `TableHoldsLiveStreams`, `PatientMissionIsOnline`, `GoneGoesOffline`: what the table
  of streams lists is alive; who waits its turn is never shown offline while served; who
  is gone does not stay listed.
- `PresenceSound`: what the broker retains is true of the agent, one `handleConnect`
  announces it however they overlap, and core makes of an event what it says; an online
  event that crossed `Stop` and queued telemetry are excepted. `PresenceFollows`: a core that joins comes to see an agent that is there,
  and every agent that is gone, by Stop or by death, is offline before long and stays so.
- `RegistrationSound`: the last answered request of an id holds its token, skills and
  password together, unless another call for the id overlapped it; tokens are earned.
- `CollectionsComeUp`: from every database and after every failure or revert, a core that
  serves has the whole schema, no migration was refused and no operator's row was taken.
- `StoreSound`: each SQL file runs once, in order, whoever starts; without a retention
  policy only if a start died between the two statements that replace it.
- `TopicsReadBack`: a topic reaches the handler of its kind and is read back as its ids.
- `PipelineSound`, `PipelineGoesOn`: each message is in one place or one counter; rows
  keep their order, retries aside; Postgres never holds up ingest; rows do not get stuck.
- `ThrottleSound`, `AllSummarised`: nothing is told twice or forgotten, a burst costs two
  rows per window, and no window suppresses its signature for ever, though late callbacks
  close windows that are not theirs.
- `ReloadSound`: after the last edit's hooks every table holds it; the compiled schemas
  are exactly the groups'; a row's hash, group and toggle belong together unless a table
  was replaced under its message. Edits that overlap and loads that fail are excepted: the
  older read may be installed last, and stays until an edit that overlaps none (section 4).
- `ContractSound`: the violation names the fault and its properties; row, live view and
  events never disagree on a message.
- `LiveSound`, `LatestIsShown`: a viewer sees its agent's payloads in order and, if it
  keeps reading, the last one; Publish waits for nobody; a viewer that left is forgotten.
- `PagingSound`, `PagesGoOn`: no row twice, pages in order, and every row of the first
  range but those of the time a page ended at.
- `DriverSound`: success only if the robot finished the whole plan; a step only after the
  one before; no robot moves for nobody but after a cancel, time-out or lost answer; the
  driver's copies of layout and soft brake agree with the robot once a call that nothing
  disturbed has set them (`New` reads neither, so they may differ before).
- `MonitorSound`: no brake transition is lost to who keeps its channel empty.
- `SlotSound`: one task, one live handler, one outcome, whenever the abort falls, as long
  as no id comes twice; the slot is freed in any case.
- `PoseSound`: the trim takes no recent pose; frames never go back.
- `RobotGoesOn`: every skill call answers, brake transitions reach their readers, every
  accepted task is answered.

### Fairness

- `LockFairSpec` (dispatch): only a goroutine that holds `mu` must go on; it does not
  touch the network. No publish has to return.
- `TaskManager!FairSpec`: the listener and the goroutines are scheduled by the Go runtime,
  the broker delivers on a live connection, and `Execute` returns: the driver's calls end
  (`RobotGoesOn`), and a jack task names a direction (without one `JackHandler` waits for
  its cancellation; `AgentTaskSlot` has such tasks, `Stuck`).
- `TaskPlane!FairSpec`: weak fairness of core and of the agent, required only of
  behaviours without faults, which are the ones `TaskCompletes` is about.
- `MCConnections!AllSpec`: each mission's handler is scheduled and `OnCreateTask` returns.
  Its publish has no time-out, so against a broker that never answers the assumption
  fails. In `Presence` the agent's goroutines, the broker, core's handlers and the passing
  of time go on; paho reconnects by itself (`SetAutoReconnect`, `SetConnectRetry`).
- `MCTelemetry!FairSpec`: the consumer goroutine runs (it calls nothing that blocks),
  `time.AfterFunc` timers fire and the sink returns, Publish and the viewers that are not
  slow go on. Only where `answers` holds does the store go on; strong fairness of its row
  branch because Go's `select` picks among ready branches at random.
- `MCRobot!FairSpec`: goroutines are scheduled, tickers fire, a skill waits no longer than
  its time limit (five minutes for motion), handlers outside `Stuck` return, subscribers
  of the brake read. No answer of the robot is assumed.

In the composed MC modules one weak-fairness condition covers several parts: a behaviour
moves one of them, and each takes finitely many of these steps, so none is starved (the
health loop, which never ends, has a condition of its own).

### What the properties except

Some hazards of `PROJECT.json` are behaviours the code has: the model takes them, a history
variable remembers them, and the property names them as an exception. They are documented
rather than caught, and each hazard's note says so:

| Behaviour | Excepted by |
|---|---|
| a task told as failed for `cannot_start` | `from` in `ToldOverMeansSettled` |
| an outcome lost with core's connection leaves its task active | `TaskCompletes` is about behaviours without faults |
| a mission back before its old handler noticed | `Patient`; `streams_overlap` is the run that finds it |
| `OnCreateTask` never returns | the fairness of `GoneGoesOffline` |
| queued telemetry after offline, online after Stop | `revived`, `crossed` in `PresenceSound`; `PresenceFollows` bounds both |
| two registrations of one id overlap | `overlaps` in `AnswersHold` |
| edits overlap, a table is replaced under a message | `disturbed`, `touched` in `ReloadSound` |
| a saturated duration | `TimeIsBelieved`; `mapping_window` is the run that finds it |
| an id comes twice, a handler hangs | `Repeated`, `Stuck` in `SlotSound`, `AcceptedIsAnswered` |
| a subscriber of the brake that did not read | `missed` in `MonitorSound`, `BrakeReachesReader` |

## 4. Findings

Each is a run whose one property a line of the repository states and the code does not
keep; `PROJECT.json` quotes the line.

1. `streams_overlap`: `DetachStream` deletes the mission's entry whoever's stream it
   holds. A mission that reconnects before its old handler has returned is detached by
   the old handler: it is served, shown offline, and its updates are dropped.
2. `plane_revive`: a redelivery answers with the status recalled under the lock but
   published after it. A repeated "started" that arrives after "finished" makes the task
   active again at core, and nothing ends it any more: the agent stays busy.
3. `agent_earlyack`: a redelivery is acknowledged at once, also while the first
   delivery's `Execute` still runs, against the comment of `listenNewTask`. A crash
   before `Execute` returns then loses the task.
4. `throttle_stale`: `evictOldest` ignores the result of `timer.Stop`, and `closeWindow`
   finds its window by name: the late callback of an evicted window closes the one
   opened since, before its time. Nothing is lost (`ThrottleSound`), but rows go out more
   often than the window allows.
5. `mapping_window`: `withinSaneWindow` negates a `Duration` that `time.Time.Sub` has
   saturated; the least one is its own negation and passes for recent. Go's zero time is
   written to the row as it is.
6. `paging_ties`: a page token is a time stamp and the next page starts strictly after
   it: rows that share the last time stamp of a page are on no page.

Known disagreements that no run is kept for:

- `to_expire_at` is stored and never read, and no code produces the status "expired"
  (`proto/api/v1/task.proto:61` says a task expires if it is not started in time). A task
  whose publish failed, or whose type the agent does not know, keeps its agent busy.
- An agent that dies between publishing an outcome and acknowledging the message runs
  the task again, next to the one core has dispatched since (the dedup cache is in
  memory only). The refinement of `OneTaskAtATime` is therefore checked without crashes.
- `tryEmit` reads the clock before it takes `rateMu`; a goroutine with an older second
  resets the count, and a second may get more rows than `GlobalPerSecond`.
- When the context of `Store.Run` ends, rows still queued are neither written nor counted
  (`telemetry/store/store.go:123-125` says what is left is flushed). Core's context never
  ends; only tests cancel one. In the model they stay in `stq` (`MessagesAccounted`).
- A payload Postgres refuses takes the rest of its batch with it; all are counted.
- Two edits of one collection whose hooks overlap may install the older content last. It
  stays until the next edit (`disturbed` in `ConfigReload`).
- Telemetry that was queued when the offline event was handled revives the agent for up
  to the staleness limit (`revived` in `Presence`); an online event published by a
  `handleConnect` that crossed `Stop` stays retained (`crossed`).
- `clearTask` knows a task by its id: one aborted and handed over again under the same id
  is cleared by its first run (`Repeated` in `AgentTaskSlot`).
- A task that an agent reports as `cannot_start` is told to the mission as failed
  (`model/task.go:70`) while the repository does not count it as final (`task.go:53-55`):
  the agent stays busy and the mission's next CreateTask is refused because of it. Core
  translates the status (`task_mqtt.go:77-78`), and `agentsdk/task_manager.go:19-24` and
  `service/agent_task_manager.go:48-49` name agents that report it; the SDK itself does
  not. The run has it, and `ToldOverMeansSettled` and its theorem except it by name.
- `stream.Send` to a mission that does not read blocks core's one MQTT callback
  goroutine, and with it every status and all telemetry.

## 5. The proofs

All statements hold for every value of the constants that the named assumptions allow.
Everything below is checked by TLAPS to the last leaf.

**TaskDispatcherProofs.** The inductive invariant is `DispatchInv`: `TypeOK`, `MutexInv`
(who is between check and save holds `mu`), `CallInv` (a task in flight has an id of its
own and is in the repository exactly when saved), `UpdInv` (the status handler works on a
known task), `SettledInv` (a final status is on record), and the three properties
themselves. `OneUnsettledTaskPerAgent` alone is not inductive: the save of a draft keeps
it only if the check still holds (`CheckStaysTrue`), which in turn needs that no one else
saves in between (`MutexInv`). Theorems: `DispatchTypeCorrect`, `OneActiveTask`,
`BusyCheckHolds`, `PublishedIsSaved`, and `ToldAfterSettled`, all for any set of reported
statuses. They rest on `DispatcherAssumption` only.

**TaskManagerProofs.** `ManagerTypeCorrect`; `CacheStaysConsistent` (map and list hold
the same tasks once each, from lemmas on `PushFront`, `MoveToFront` and `Victims`);
`ExecutedOnce` (a task that was started and not evicted is tracked, and one about to
start was not started since it was last evicted); `OutcomesAreTrue` (a final status is
cached, carried or reported only for an executed task); and `TasksStayHeld`, the property
`TasksAreHeld`, for any tasks, workers and bounds. Its invariant `HeldInv` has two halves,
each under the condition of its half of the property: `FreshInv` (before the first
reconnect, with single delivery, a message not yet sent is of a task that is neither
tracked nor in the listener's hands) and `StartedInv` (while no crash has happened, a
tracked task is executed, running, or about to be). `SurvivesRestart` is its consequence
for a connection that does not drop. The conditions are necessary: `agent_earlyack` violates `HeldUntilExecuted` with a single
reconnect, and a duplicate is acknowledged as early.

**TaskPlaneProofs.** Every step of the plane is a step or a stutter of `TaskDispatcher`
and of `TaskManager` (`CoreMoves`, `RobotMoves`), so the invariants of their proofs are
used through INSTANCE. What links the two is `EndsAreTrue`: a final status in the
broker's queue, in the status handler or on record is of an executed task. Neither half
has that alone, and with it `PlaneInv` is inductive. `PlaneIsSound` is `PlaneSound` in
every behaviour, restarts included. `DispatchIsOneTaskAtATime` is the refinement: `Spec`
implies `ImplementsOneTaskAtATime` if no task comes back that the agent's cache has
evicted (`NoEvictedTaskReturns`). Its steps are `SaveQueues`, `StartRuns` and
`ReturnEnds`; all others stutter. They need `OnceInv`: what the agent has was accepted
(`AcceptedInv`), what was accepted is saved, and what runs or ran was recalled before
(`TrackedInv`). The hypothesis is necessary, as a redelivered task that was evicted runs
again, and the code has no other defence than the size of the cache (500, `maxTrackedTasks`, which the
messages a broker holds for one agent do not reach as long as tasks are acknowledged).
`RoomKeepsThePromise` discharges it for a cache with room for every task. As in the run,
nothing is said of behaviours in which a process restarts: the mapping is constant there.

**ConnectionsProofs.** One theorem per property of the run `connections` that is safety:

- `StreamTypeCorrect`, `TableListsLiveStreams`: `TableInv` (each entry is a handler of
  that mission between attach and detach) is inductive because a handler that leaves
  deletes its mission's entry, its own or not. For patient missions `OneHandler` and
  `ServedIsListed` strengthen it to `PatientIsOnline`.
- `MigrationsRunOnce`: `StoreSound` needs `LoopInv` (a core at a file has all earlier
  ones recorded) and `CommitInv` (the insert of the record lets one transaction per file
  through).
- `CredentialsAreSound`: `RegistrationSound` speaks of answered requests; inductive is
  `HeldInv`, what a request holds at each point of its way, unless it overlapped another
  call or a later one took a token. It needs the order of requests (`NumberInv`,
  `SerialInv`) and what each has come past (`PathInv`).
- `PresenceIsSound`: `HooksInv` (each connection has its `handleConnect`, one of which
  finds the flag unset), `SaidInv`
  (what it published arrived or waits), `LastWordInv` (after Stop's "offline" nothing
  marks the agent alive), `OnItsWayInv` (a retained "offline" reaches a subscribed core)
  and `GoneInv` imply it, for any number of connections, crashes and broker restarts.
- `CollectionsAlwaysComeUp`: `DatabaseInv` says what a database holds after so many
  files; `MigrationInv` states it of the data and of what a transaction falls back to.
- `TopicsAreReadBack`: for texts of any words and any length. `Levels` is computed by a
  recursive function; `LevelsOfJoin` says what it makes of a concatenation, from which
  `MatchesItsKind`, `AgentIsRead` and `TaskIsRead` follow.

**TelemetryProofs.** `LiveViewIsSound`: `LiveInv` adds to the types that the lock's
holder goes through viewers that stay subscribed (`LockInv`), that nothing is newer than
the last payload published (`NewestInv`), and that what waits in a viewer's channel is
news to it (`ViewerInv`). `PipelineIsSound`: `MessagesAccounted` and the order in which
batch, queues and table continue each other (`OrderInv`), except for rows committed by a
write whose answer was lost (`LandedInv`, `TableInv`). `PagingIsSound` and `PagesOnlyGoOn`
(an action property): no row the client has is later than its token (`TokenInv`), and
of the range it first asked for, what the token went by is in a page or shares the time
stamp of a page's end, unless the range slid (`AtFirstInv`, `PassedInv`, `DoneInv`).

**IngestProofs.** `ThrottleIsSound`: `ListsInv` (an agent's list holds its open windows,
within the cap), `EveryWindowWillClose` (each has a timer or a callback), and `IdInv`,
`KeyInv`, by which no two callbacks summarise one window. It holds for caps of any size
and any number of timers that fire while their window is evicted. `ReloadIsSound`: of a
collection without overlapping edits at most one edit is under way and has read the last
version (`QuietInv`); the compiled schemas serve the installed groups (`CacheServesGroups`)
and what the consumer looked up is current unless a table was replaced since
(`LookedUpInv`). `ContractIsSound`: row, envelope and events are each tied to the one
verdict (`VerdictInv`, `RowInv`, `EnvelopeInv`, `EventsInv`) by the order of the
listener's calls (`OrderInv`), with a lemma on the saturating conversion of durations.

**RobotProofs.** `SlotIsSound`: `CurrentInv` (the run in the slot is at work and not
aborted), `ClearedInv` (a goroutine that found its own id in the slot was not aborted,
if the id came once) and `TracesInv` make `OneLiveHandler` inductive. `MonitorIsSound`:
outside a broadcast a subscriber has the state in its channel or has read it
(`ChannelInv`), with the broadcast's progress in `LoopInv`. `DriverIsSound`: the actions
of a call are a prefix of its plan and ended well but for the last (`ActsOK`); the robot
moves only for a call that is under way or gave up (`MovesForSomeone`); the copies of the
layout and the brake are of their source from the first undisturbed call on (`LayoutInv`,
`SoftInv`; before it they are `muddled`). `PosesAreSound`:
frames ascend all along from history to robot (`FrameInv`), and the history holds
everything recent (`HistoryInv`), as the trim of a list in time order keeps a suffix.

**SequenceLemmas.** The library's induction theorems cannot be instantiated here, so an
induction is an argument on the smallest index at which the claim fails (`SmallestOf`).
From it: a loop written as a recursive function has values (`LoopHasValues`) and its
values are determined (`LoopsAgree`), and a set closed under appending holds all
sequences (`SequencesByAppend`).

**Assumptions.** Each proof rests on the named ASSUME of the modules it is about
(`DispatcherAssumption` to `TelemetryContract`'s `ContractAssumption`), which TLC
evaluates on every run. They say that special values differ from ordinary ones, that
subsets are subsets of what they should be and that bounds are natural numbers. Where one
says more, the code's constant or registry satisfies it: the caches and queues have at
least one place (`ManagerAssumption`, `ThrottleAssumption`, `PipelineAssumption`), ages and
buckets are positive (`PoseAssumption`, `PresenceAssumption`, `PagingAssumption`, whose
default page is within the maximum), the sane window is shorter than the longest duration
(`ContractAssumption`), and an agent's record and a mission's are different ones
(`RegistrationAssumption`).

**Model-checked only.** Liveness: `DispatchLockReleased`, `AcceptedIsExecuted`,
`TaskCompletes`, `GoneGoesOffline`, `PresenceFollows`, `PipelineGoesOn`, `AllSummarised`,
`LatestIsShown`, `RobotGoesOn`. Fairness and ENABLED are outside what TLAPS proves here.
Every other property of a passing run is a theorem; what the runs that expect a violation
check is false and stays with TLC. No module uses a RECURSIVE operator.

## 6. What is not modelled

- The operator's web pages (`cmd/core/ui.go`): HTML rendered from the tables that other
  modules keep; the only state change is a page that sends a task, which is `SendTask`.
- The operators' login (`pbauth.go`), which reads a token; the Go code generated from the
  `.proto` files; the React UI; the command line tools and examples.
- Reading the configuration file and wiring the servers: one goroutine, before anything
  runs. The order of migrations and loads at start is in `CollectionMigrations`.
- The driver's read-only caches (floor, points of interest, pose) and the HTTP client.
- Abstracted inside the models: contents of tasks and payloads beyond what the contract
  looks at, formats of time stamps, log lines; durations (timers may fire at any time);
  field options and access rules of collections; TLS and the broker's access control.
- That core's callback goroutine hangs in `stream.Send`, or the agent's listener in a
  publish: the code promises nothing for that case, and what follows is stated above.

## 7. Plan

All safety properties that hold are proved, so what is left is to state more:

- the refinement in behaviours with restarts, from an abstract specification that lets a
  task run again after one (`OneTaskAtATime` with a "forgotten" phase);
- why `NoEvictedTaskReturns` holds: from `TasksStayHeld` and a bound on the messages the
  broker holds, a task is evicted only after its message was acknowledged;
- abstract specifications of the store's table (what `TelemetryPipeline` promises a
  query) and of the stream table, with their refinements;
- in the models, a stream taken from the table and used after it was replaced
  (`TaskDispatcher` composed with `MissionStreams`).
