--------------------------- MODULE TaskDispatcher ---------------------------
(***************************************************************************)
(* Core's side of task dispatch: TaskDispatcher.SendTask called by several *)
(* goroutines at once (the gRPC mission streams through                    *)
(* MissionTaskManager.OnCreateTask and the Connect handler CreateTask),    *)
(* the in-memory repository they share, and MissionTaskManager's           *)
(* OnTaskUpdated, which applies the agents' status messages.               *)
(*                                                                         *)
(* One step is what one goroutine does between two points where another    *)
(* can run: SendTask holds mu from the busy check to the save and lets go  *)
(* before the publish; OnTaskUpdated reads a copy, saves it, and only then *)
(* tells the mission.                                                      *)
(***************************************************************************)
EXTENDS Naturals, TaskModel

CONSTANTS
  Agents,        \* agent ids
  Callers,       \* goroutines that may be inside SendTask
  Tasks,         \* the fresh uuids the run may hand out (bounds the run)
  MissionTasks,  \* those of them created by a mission (MissionID # "")
  Acks,          \* status strings an agent may report
  NoOne          \* nobody holds the mutex / no task

ASSUME DispatcherAssumption ==
  /\ MissionTasks \subseteq Tasks
  /\ NoOne \notin Callers
  /\ NoOne \notin Tasks

VARIABLES
  repo,     \* TaskRepoMemory.ts: saved task -> [agent, status]
  mu,       \* TaskDispatcher.mu: its holder, or NoOne
  client,   \* TaskDispatcher.mqttClient # nil
  call,     \* SendTask frame of each caller: [pc, task, agent]
  issued,   \* task ids handed out by uuid.New so far
  wire,     \* tasks handed to the MQTT client on task/new
  upd,      \* OnTaskUpdated frame (status messages are handled one at a time)
  told,     \* the last status each mission task's mission was sent, and (history)
            \* the task status it was translated from
  settled   \* history: tasks that have been final at some time since core started

vars == <<repo, mu, client, call, issued, wire, upd, told, settled>>

Idle    == [pc |-> "idle", task |-> NoOne, agent |-> NoOne]
NoUpd   == [pc |-> "idle", task |-> NoOne, agent |-> NoOne, status |-> "unspecified"]
Told    == [status : {"none", "in_progress", "completed", "failed", "unspecified"},
            from : TaskStatus]
NotTold == [status |-> "none", from |-> "unspecified"]
IsBusy(agent) == ActiveTasks(repo, agent) # {}

TypeOK ==
  /\ DOMAIN repo \subseteq Tasks
  /\ repo \in [DOMAIN repo -> [agent : Agents, status : TaskStatus]]
  /\ mu \in Callers \cup {NoOne}
  /\ client \in BOOLEAN
  /\ call \in [Callers -> [pc : {"idle", "checked", "saved"},
                           task : Tasks \cup {NoOne}, agent : Agents \cup {NoOne}]]
  /\ issued \subseteq Tasks
  /\ wire \subseteq Tasks
  /\ upd \in [pc : {"idle", "read", "notify"}, task : Tasks \cup {NoOne},
              agent : Agents \cup {NoOne}, status : TaskStatus]
  /\ told \in [MissionTasks -> Told]
  /\ settled \subseteq Tasks

Init ==
  /\ repo = [t \in {} |-> [agent |-> NoOne, status |-> "draft"]]
  /\ mu = NoOne
  /\ client = FALSE
  /\ call = [c \in Callers |-> Idle]
  /\ issued = {}
  /\ wire = {}
  /\ upd = NoUpd
  /\ told = [t \in MissionTasks |-> NotTold]
  /\ settled = {}
-----------------------------------------------------------------------------
(* Plausible bugs, each a changed form of a definition below; no run uses them, the *)
(* manifest's mutants do.                                                          *)

\* The mutex is not taken around the busy check.
CheckFreeUnlocked(c, t, a) ==
  /\ call[c].pc = "idle" /\ t \notin issued
  /\ ~IsBusy(a)
  /\ mu' = c
  /\ issued' = issued \cup {t}
  /\ call' = [call EXCEPT ![c] = [pc |-> "checked", task |-> t, agent |-> a]]
  /\ UNCHANGED <<repo, client, wire, upd, told, settled>>

\* The busy check looks at started tasks only and misses those still queued.
CheckNotRunning(c, t, a) ==
  /\ call[c].pc = "idle" /\ t \notin issued /\ mu = NoOne
  /\ \A u \in ActiveTasks(repo, a) : repo[u].status # "started"
  /\ mu' = c
  /\ issued' = issued \cup {t}
  /\ call' = [call EXCEPT ![c] = [pc |-> "checked", task |-> t, agent |-> a]]
  /\ UNCHANGED <<repo, client, wire, upd, told, settled>>

\* The save forgets to let go of the mutex.
SaveDraftNoUnlock(c) ==
  /\ call[c].pc = "checked"
  /\ repo' = SaveTask(repo, call[c].task, [agent |-> call[c].agent, status |-> "draft"])
  /\ call' = [call EXCEPT ![c].pc = "saved"]
  /\ UNCHANGED <<mu, client, issued, wire, upd, told, settled>>

\* The publish does not wait for the save.
PublishBeforeSave(c) ==
  /\ call[c].pc \in {"checked", "saved"} /\ client
  /\ wire' = wire \cup {call[c].task}
  /\ call' = [call EXCEPT ![c].pc = IF @ = "saved" THEN "idle" ELSE @]
  /\ UNCHANGED <<repo, mu, client, issued, upd, told, settled>>

\* The reported string is stored as it came.
ReadTaskUntranslated(t, ack) ==
  /\ upd.pc = "idle" /\ t \in DOMAIN repo
  /\ upd' = [pc |-> "read", task |-> t, agent |-> repo[t].agent, status |-> ack]
  /\ UNCHANGED <<repo, mu, client, call, issued, wire, told, settled>>

\* The mission is told before the repository knows.
TellMissionFirst ==
  /\ upd.pc \in {"read", "notify"} /\ upd.task \in MissionTasks
  /\ told' = [told EXCEPT ![upd.task] =
                [status |-> MissionTaskStatus(upd.status), from |-> upd.status]]
  /\ upd' = IF upd.pc = "notify" THEN NoUpd ELSE upd
  /\ UNCHANGED <<repo, mu, client, call, issued, wire, settled>>
-----------------------------------------------------------------------------
(* SendTask *)

\* mu.Lock, the busy check, mu.Unlock, "agent is busy".  Only the task id is gone.
RejectBusy(c, t, a) ==
  /\ call[c].pc = "idle" /\ t \notin issued /\ mu = NoOne
  /\ IsBusy(a)
  /\ issued' = issued \cup {t}
  /\ UNCHANGED <<repo, mu, client, call, wire, upd, told, settled>>

\* mu.Lock and a busy check that finds the agent free; mu stays held.
CheckFree(c, t, a) ==
  /\ call[c].pc = "idle" /\ t \notin issued /\ mu = NoOne
  /\ ~IsBusy(a)
  /\ mu' = c
  /\ issued' = issued \cup {t}
  /\ call' = [call EXCEPT ![c] = [pc |-> "checked", task |-> t, agent |-> a]]
  /\ UNCHANGED <<repo, client, wire, upd, told, settled>>

\* taskRepo.SaveTask(task) with the status the creator gave it, then mu.Unlock.
SaveDraft(c) ==
  /\ call[c].pc = "checked"
  /\ repo' = SaveTask(repo, call[c].task, [agent |-> call[c].agent, status |-> "draft"])
  /\ mu' = NoOne
  /\ call' = [call EXCEPT ![c].pc = "saved"]
  /\ UNCHANGED <<client, issued, wire, upd, told, settled>>

\* publishNewTask succeeds: the broker has acknowledged the task/new message.
PublishOk(c) ==
  /\ call[c].pc = "saved" /\ client
  /\ wire' = wire \cup {call[c].task}
  /\ call' = [call EXCEPT ![c] = Idle]
  /\ UNCHANGED <<repo, mu, client, issued, upd, told, settled>>

\* "no active stream for agent": no client yet, or the publish failed.  The task
\* stays in the repository as it was saved.
PublishFails(c) ==
  /\ call[c].pc = "saved"
  /\ call' = [call EXCEPT ![c] = Idle]
  /\ UNCHANGED <<repo, mu, client, issued, wire, upd, told, settled>>

\* SetMQTTClient, from core's OnConnect; also on every reconnect.
SetMQTTClient ==
  /\ client' = TRUE
  /\ UNCHANGED <<repo, mu, call, issued, wire, upd, told, settled>>
-----------------------------------------------------------------------------
(* OnTaskUpdated *)

\* GetTaskByID finds the task: the handler goes on with a copy of its record.
ReadTask(t, ack) ==
  /\ upd.pc = "idle" /\ t \in DOMAIN repo
  /\ upd' = [pc |-> "read", task |-> t, agent |-> repo[t].agent,
             status |-> AckToTaskStatus(ack)]
  /\ UNCHANGED <<repo, mu, client, call, issued, wire, told, settled>>

\* The copy is saved back with the reported status, whatever the old one was.
ApplyStatus ==
  /\ upd.pc = "read"
  /\ repo' = SaveTask(repo, upd.task, [agent |-> upd.agent, status |-> upd.status])
  /\ settled' = IF upd.status \in FinalStatus THEN settled \cup {upd.task} ELSE settled
  /\ upd' = IF upd.task \in MissionTasks /\ upd.status \notin TransientStatus
            THEN [upd EXCEPT !.pc = "notify"] ELSE NoUpd
  /\ UNCHANGED <<mu, client, call, issued, wire, told>>

\* stream.Send to the mission, when it has a stream and the send succeeds.
TellMission ==
  /\ upd.pc = "notify"
  /\ told' = [told EXCEPT ![upd.task] =
                [status |-> MissionTaskStatus(upd.status), from |-> upd.status]]
  /\ upd' = NoUpd
  /\ UNCHANGED <<repo, mu, client, call, issued, wire, settled>>

\* No stream is attached, or the send fails: logged, and the update is gone.
MissionUnreachable ==
  /\ upd.pc = "notify"
  /\ upd' = NoUpd
  /\ UNCHANGED <<repo, mu, client, call, issued, wire, told, settled>>

\* Core stops and starts again: everything above lives in memory only.
Restart ==
  /\ repo' = [t \in {} |-> [agent |-> NoOne, status |-> "draft"]]
  /\ mu' = NoOne
  /\ client' = FALSE
  /\ call' = [c \in Callers |-> Idle]
  /\ wire' = {}
  /\ upd' = NoUpd
  /\ told' = [t \in MissionTasks |-> NotTold]
  /\ settled' = {}
  /\ UNCHANGED issued
-----------------------------------------------------------------------------
Send(c) ==
  \/ \E t \in Tasks, a \in Agents : RejectBusy(c, t, a) \/ CheckFree(c, t, a)
  \/ SaveDraft(c)
  \/ PublishOk(c)
  \/ PublishFails(c)

OnTaskUpdated ==
  \/ \E t \in Tasks, ack \in Acks : ReadTask(t, ack)
  \/ ApplyStatus
  \/ TellMission
  \/ MissionUnreachable

Next ==
  \/ \E c \in Callers : Send(c)
  \/ OnTaskUpdated
  \/ SetMQTTClient
  \/ Restart

Spec == Init /\ [][Next]_vars

\* A goroutine that holds mu is runnable and never waits for the network, so it
\* runs on.  The publish may wait for the broker for ever: no fairness there.
LockFairSpec == Spec /\ \A c \in Callers : WF_vars(SaveDraft(c))
-----------------------------------------------------------------------------
(* Properties *)

\* One active task per agent: of the tasks an agent has in the repository at most
\* one has never been reported final.  Two concurrent SendTask calls that both find
\* the agent free break it.
OneUnsettledTaskPerAgent ==
  \A t, u \in DOMAIN repo :
    (repo[t].agent = repo[u].agent /\ t \notin settled /\ u \notin settled) => t = u

\* A task is saved before it is published: no status message can be about a task
\* the running core does not know.
SavedBeforePublished == wire \subseteq DOMAIN repo

\* A mission hears that its task is over only once the repository has had it final,
\* so the CreateTask it sends in reply is not refused because of that very task.  The
\* one exception is a task reported cannot_start: MissionTaskStatus tells the mission
\* it failed, but Final does not count it, so it goes on occupying its agent and the
\* mission's next CreateTask is refused as busy.
ToldOverMeansSettled ==
  \A t \in MissionTasks :
    (told[t].status \in {"completed", "failed"} /\ told[t].from # "cannot_start")
      => t \in settled

\* What SendTask's busy check found still holds when it saves: meanwhile no other
\* goroutine gives the agent a task that was never final.
CheckStaysTrue ==
  \A c \in Callers : call[c].pc = "checked" =>
    \A t \in DOMAIN repo : repo[t].agent = call[c].agent => t \in settled

\* A publish that hangs holds up no other dispatch: mu is always let go again.
DispatchLockReleased == mu # NoOne ~> mu = NoOne
=============================================================================
