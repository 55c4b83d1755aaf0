------------------------ MODULE TaskDispatcherProofs ------------------------
(***************************************************************************)
(* Theorems about TaskDispatcher for any number of agents, callers and     *)
(* tasks: type correctness, the one-active-task rule, save before publish, *)
(* and that a mission is told of an end only after the repository knows.   *)
(***************************************************************************)
EXTENDS TaskDispatcher, TLAPS

\* mu is held exactly by the caller between its busy check and its save.
MutexInv == \A c \in Callers : call[c].pc = "checked" <=> mu = c

\* A task in flight has an id of its own: new to the repository until it is saved.
CallInv ==
  /\ DOMAIN repo \subseteq issued
  /\ \A c \in Callers :
       /\ call[c].pc # "idle" => call[c].task \in issued /\ call[c].agent \in Agents
       /\ call[c].pc = "checked" => call[c].task \notin DOMAIN repo
       /\ call[c].pc = "saved" => call[c].task \in DOMAIN repo

\* The status handler works on a task of the repository and keeps its agent.
UpdInv ==
  upd.pc # "idle" => upd.task \in DOMAIN repo /\ upd.agent = repo[upd.task].agent

\* A final status is on record as settled, and only tasks of the repository settle.
SettledInv ==
  /\ settled \subseteq DOMAIN repo
  /\ \A t \in DOMAIN repo : repo[t].status \in FinalStatus => t \in settled

\* The inductive invariant behind the one-active-task rule.
DispatchInv ==
  /\ TypeOK /\ MutexInv /\ CallInv /\ UpdInv /\ SettledInv
  /\ SavedBeforePublished /\ CheckStaysTrue /\ OneUnsettledTaskPerAgent
-----------------------------------------------------------------------------
(* The helpers of TaskModel *)

\* A typed repository stays typed when a typed record is saved.
LEMMA SaveTaskType ==
  ASSUME NEW R, NEW t \in Tasks, NEW a \in Agents, NEW s \in TaskStatus,
         DOMAIN R \subseteq Tasks,
         R \in [DOMAIN R -> [agent : Agents, status : TaskStatus]]
  PROVE  LET R2 == SaveTask(R, t, [agent |-> a, status |-> s]) IN
         /\ DOMAIN R2 \subseteq Tasks
         /\ R2 \in [DOMAIN R2 -> [agent : Agents, status : TaskStatus]]
BY DEF SaveTask

\* Whatever an agent reports becomes one of core's statuses.
LEMMA AckIsStatus == \A s : AckToTaskStatus(s) \in TaskStatus
BY DEF AckToTaskStatus, AckStatus, TaskStatus

\* A free agent has only tasks that are settled.
LEMMA FreeMeansSettled ==
  ASSUME NEW a, ~IsBusy(a), SettledInv
  PROVE  \A t \in DOMAIN repo : repo[t].agent = a => t \in settled
BY DEF IsBusy, ActiveTasks, SettledInv
-----------------------------------------------------------------------------
(* The steps.  Each lemma shows that one action keeps the invariant. *)

LEMMA InitInv == Init => DispatchInv
<1> SUFFICES ASSUME Init PROVE DispatchInv
    OBVIOUS
<1> USE DEF Init
<1>1. DOMAIN repo = {}
    OBVIOUS
<1>2. TypeOK
  <2>1. repo \in [DOMAIN repo -> [agent : Agents, status : TaskStatus]]
      OBVIOUS
  <2>2. QED
      BY <1>1, <2>1 DEF TypeOK, Idle, NoUpd, Told, NotTold, TaskStatus
<1>3. MutexInv /\ CallInv /\ UpdInv /\ SettledInv
    BY <1>1, DispatcherAssumption DEF MutexInv, CallInv, UpdInv, SettledInv, Idle, NoUpd
<1>4. SavedBeforePublished /\ CheckStaysTrue /\ OneUnsettledTaskPerAgent
    BY <1>1 DEF SavedBeforePublished, CheckStaysTrue, OneUnsettledTaskPerAgent, Idle
<1>5. QED
    BY <1>2, <1>3, <1>4 DEF DispatchInv

LEMMA RejectBusyInv ==
  ASSUME DispatchInv, NEW c \in Callers, NEW t \in Tasks, NEW a \in Agents, RejectBusy(c, t, a)
  PROVE  DispatchInv'
BY DEF DispatchInv, RejectBusy, TypeOK, MutexInv, CallInv, UpdInv, SettledInv,
       SavedBeforePublished, CheckStaysTrue, OneUnsettledTaskPerAgent

LEMMA CheckFreeInv ==
  ASSUME DispatchInv, NEW c \in Callers, NEW t \in Tasks, NEW a \in Agents, CheckFree(c, t, a)
  PROVE  DispatchInv'
<1> USE DEF DispatchInv, CheckFree
<1>1. TypeOK'
    BY DEF TypeOK
<1>2. MutexInv'
    BY DispatcherAssumption DEF MutexInv, TypeOK
<1>3. CallInv'
    BY DEF CallInv, TypeOK
<1>4. UpdInv' /\ SettledInv' /\ SavedBeforePublished' /\ OneUnsettledTaskPerAgent'
    BY DEF UpdInv, SettledInv, SavedBeforePublished, OneUnsettledTaskPerAgent
<1>5. CheckStaysTrue'
  <2>1. \A u \in DOMAIN repo : repo[u].agent = a => u \in settled
      BY FreeMeansSettled
  <2>2. QED
      BY <2>1 DEF CheckStaysTrue, TypeOK
<1>6. QED
    BY <1>1, <1>2, <1>3, <1>4, <1>5

LEMMA SaveDraftInv ==
  ASSUME DispatchInv, NEW c \in Callers, SaveDraft(c)
  PROVE  DispatchInv'
<1> DEFINE t == call[c].task
           a == call[c].agent
<1> USE DEF DispatchInv, SaveDraft
<1>1. /\ t \in Tasks /\ a \in Agents /\ t \in issued
      /\ t \notin DOMAIN repo /\ t \notin settled
    BY DEF TypeOK, CallInv, SettledInv
<1>2. /\ DOMAIN repo' = DOMAIN repo \cup {t}
      /\ repo'[t] = [agent |-> a, status |-> "draft"]
      /\ \A u \in DOMAIN repo : repo'[u] = repo[u]
  <2>1. repo' = SaveTask(repo, t, [agent |-> a, status |-> "draft"])
      OBVIOUS
  <2>2. QED
      BY <1>1, <2>1 DEF SaveTask
<1>3. TypeOK'
  <2>1. "draft" \in TaskStatus
      BY DEF TaskStatus
  <2>2. /\ DOMAIN repo' \subseteq Tasks
        /\ repo' \in [DOMAIN repo' -> [agent : Agents, status : TaskStatus]]
      BY <1>1, <2>1, SaveTaskType DEF TypeOK
  <2>3. QED
      BY <2>2 DEF TypeOK
<1>4. MutexInv'
    BY DispatcherAssumption DEF MutexInv, TypeOK
<1>5. CallInv'
  <2>1. \A d \in Callers : d # c => call'[d] = call[d] /\ call[d].pc # "checked"
      BY DEF MutexInv, TypeOK
  <2>2. call'[c].task = t /\ call'[c].agent = a /\ call'[c].pc = "saved"
      BY DEF TypeOK
  <2>3. QED
      BY <1>1, <1>2, <2>1, <2>2 DEF CallInv
<1>6. UpdInv' /\ SettledInv' /\ SavedBeforePublished'
    BY <1>1, <1>2 DEF UpdInv, SettledInv, SavedBeforePublished, FinalStatus
<1>7. CheckStaysTrue'
    BY DEF CheckStaysTrue, MutexInv, TypeOK
<1>8. OneUnsettledTaskPerAgent'
    BY <1>1, <1>2 DEF OneUnsettledTaskPerAgent, CheckStaysTrue
<1>9. QED
    BY <1>3, <1>4, <1>5, <1>6, <1>7, <1>8

LEMMA PublishInv ==
  ASSUME DispatchInv, NEW c \in Callers, PublishOk(c) \/ PublishFails(c)
  PROVE  DispatchInv'
<1> USE DEF DispatchInv, PublishOk, PublishFails, Idle
<1>1. TypeOK'
  <2>1. call' \in [Callers -> [pc : {"idle", "checked", "saved"},
                             task : Tasks \cup {NoOne}, agent : Agents \cup {NoOne}]]
      BY DEF TypeOK
  <2>2. wire' \subseteq Tasks
      BY DEF TypeOK, CallInv
  <2>3. QED
      BY <2>1, <2>2 DEF TypeOK
<1>2. MutexInv' /\ CallInv'
    BY DEF MutexInv, CallInv, TypeOK
<1>3. UpdInv' /\ SettledInv' /\ OneUnsettledTaskPerAgent'
    BY DEF UpdInv, SettledInv, OneUnsettledTaskPerAgent
<1>4. SavedBeforePublished' /\ CheckStaysTrue'
    BY DEF SavedBeforePublished, CheckStaysTrue, CallInv, TypeOK
<1>5. QED
    BY <1>1, <1>2, <1>3, <1>4

LEMMA ReadTaskInv ==
  ASSUME DispatchInv, NEW t \in Tasks, NEW ack \in Acks, ReadTask(t, ack)
  PROVE  DispatchInv'
<1> USE DEF DispatchInv, ReadTask
<1>1. TypeOK'
    BY AckIsStatus DEF TypeOK
<1>2. UpdInv'
    BY DEF UpdInv
<1>3. MutexInv' /\ CallInv' /\ SettledInv' /\ SavedBeforePublished' /\ CheckStaysTrue'
        /\ OneUnsettledTaskPerAgent'
    BY DEF MutexInv, CallInv, SettledInv, SavedBeforePublished, CheckStaysTrue,
           OneUnsettledTaskPerAgent
<1>4. QED
    BY <1>1, <1>2, <1>3

LEMMA ApplyStatusInv ==
  ASSUME DispatchInv, ApplyStatus
  PROVE  DispatchInv'
<1> DEFINE t == upd.task
<1> USE DEF DispatchInv, ApplyStatus
<1>1. /\ t \in DOMAIN repo /\ t \in Tasks
      /\ upd.agent = repo[t].agent /\ upd.agent \in Agents /\ upd.status \in TaskStatus
    BY DEF TypeOK, UpdInv
<1>2. /\ DOMAIN repo' = DOMAIN repo
      /\ repo'[t] = [agent |-> upd.agent, status |-> upd.status]
      /\ \A u \in DOMAIN repo \ {t} : repo'[u] = repo[u]
  <2>1. repo' = SaveTask(repo, t, [agent |-> upd.agent, status |-> upd.status])
      OBVIOUS
  <2>2. DOMAIN repo \cup {t} = DOMAIN repo
      BY <1>1
  <2>3. QED
      BY <1>1, <2>1, <2>2 DEF SaveTask
<1>3. \A u \in DOMAIN repo : repo'[u].agent = repo[u].agent
    BY <1>1, <1>2
<1>4. settled \subseteq settled' /\ settled' \subseteq DOMAIN repo
    BY <1>1 DEF SettledInv
<1>5. TypeOK'
  <2>1. /\ DOMAIN repo' \subseteq Tasks
        /\ repo' \in [DOMAIN repo' -> [agent : Agents, status : TaskStatus]]
      BY <1>1, SaveTaskType DEF TypeOK
  <2>2. settled' \subseteq Tasks /\ upd' \in [pc : {"idle", "read", "notify"},
           task : Tasks \cup {NoOne}, agent : Agents \cup {NoOne}, status : TaskStatus]
      BY <1>1, <1>4 DEF TypeOK, NoUpd, TaskStatus
  <2>3. QED
      BY <2>1, <2>2 DEF TypeOK
<1>6. MutexInv' /\ CallInv' /\ SavedBeforePublished'
    BY <1>2 DEF MutexInv, CallInv, SavedBeforePublished
<1>7. UpdInv'
    BY <1>1, <1>2, <1>3 DEF UpdInv, NoUpd, TypeOK
<1>8. SettledInv'
    BY <1>2, <1>4 DEF SettledInv
<1>9. CheckStaysTrue' /\ OneUnsettledTaskPerAgent'
    BY <1>2, <1>3, <1>4 DEF CheckStaysTrue, OneUnsettledTaskPerAgent
<1>10. QED
    BY <1>5, <1>6, <1>7, <1>8, <1>9

LEMMA NotifyInv ==
  ASSUME DispatchInv, TellMission \/ MissionUnreachable
  PROVE  DispatchInv'
<1> USE DEF DispatchInv, TellMission, MissionUnreachable, NoUpd
<1>1. TypeOK'
  <2>1. [status |-> MissionTaskStatus(upd.status), from |-> upd.status] \in Told
      BY DEF MissionTaskStatus, Told, TypeOK
  <2>2. told' \in [MissionTasks -> Told]
      BY <2>1 DEF TypeOK
  <2>3. QED
      BY <2>2 DEF TypeOK, TaskStatus
<1>2. MutexInv' /\ CallInv' /\ UpdInv' /\ SettledInv' /\ SavedBeforePublished'
        /\ CheckStaysTrue' /\ OneUnsettledTaskPerAgent'
    BY DEF MutexInv, CallInv, UpdInv, SettledInv, SavedBeforePublished, CheckStaysTrue,
           OneUnsettledTaskPerAgent
<1>3. QED
    BY <1>1, <1>2

LEMMA SetMQTTClientInv == DispatchInv /\ SetMQTTClient => DispatchInv'
BY DEF DispatchInv, SetMQTTClient, TypeOK, MutexInv, CallInv, UpdInv, SettledInv,
       SavedBeforePublished, CheckStaysTrue, OneUnsettledTaskPerAgent

LEMMA RestartInv == DispatchInv /\ Restart => DispatchInv'
<1> SUFFICES ASSUME DispatchInv, Restart PROVE DispatchInv'
    OBVIOUS
<1> USE DEF Restart
<1>1. DOMAIN repo' = {}
    OBVIOUS
<1>2. TypeOK'
  <2>1. repo' \in [DOMAIN repo' -> [agent : Agents, status : TaskStatus]]
      OBVIOUS
  <2>2. QED
      BY <1>1, <2>1 DEF DispatchInv, TypeOK, Idle, NoUpd, Told, NotTold, TaskStatus
<1>3. MutexInv' /\ CallInv' /\ UpdInv' /\ SettledInv'
    BY <1>1, DispatcherAssumption DEF MutexInv, CallInv, UpdInv, SettledInv, Idle, NoUpd
<1>4. SavedBeforePublished' /\ CheckStaysTrue' /\ OneUnsettledTaskPerAgent'
    BY <1>1 DEF SavedBeforePublished, CheckStaysTrue, OneUnsettledTaskPerAgent, Idle
<1>5. QED
    BY <1>2, <1>3, <1>4 DEF DispatchInv
-----------------------------------------------------------------------------
LEMMA DispatchStep == DispatchInv /\ [Next]_vars => DispatchInv'
<1> SUFFICES ASSUME DispatchInv, [Next]_vars PROVE DispatchInv'
    OBVIOUS
<1>1. CASE \E c \in Callers : Send(c)
    BY <1>1, RejectBusyInv, CheckFreeInv, SaveDraftInv, PublishInv DEF Send
<1>2. CASE OnTaskUpdated
    BY <1>2, ReadTaskInv, ApplyStatusInv, NotifyInv DEF OnTaskUpdated
<1>3. CASE SetMQTTClient
    BY <1>3, SetMQTTClientInv
<1>4. CASE Restart
    BY <1>4, RestartInv
<1>5. CASE UNCHANGED vars
    BY <1>5 DEF DispatchInv, vars, TypeOK, MutexInv, CallInv, UpdInv, SettledInv,
                SavedBeforePublished, CheckStaysTrue, OneUnsettledTaskPerAgent
<1>6. QED
    BY <1>1, <1>2, <1>3, <1>4, <1>5 DEF Next

\* The inductive invariant holds in every reachable state.
THEOREM DispatchInvariant == Spec => []DispatchInv
BY InitInv, DispatchStep, PTL DEF Spec

\* Type correctness of core's dispatch state.
THEOREM DispatchTypeCorrect == Spec => []TypeOK
<1>1. DispatchInv => TypeOK
    BY DEF DispatchInv
<1>2. QED
    BY <1>1, DispatchInvariant, PTL

\* SendTask's single-active-task rule, for any number of concurrent callers: an agent
\* never has two tasks in the repository that have not been final at some time.
THEOREM OneActiveTask == Spec => []OneUnsettledTaskPerAgent
<1>1. DispatchInv => OneUnsettledTaskPerAgent
    BY DEF DispatchInv
<1>2. QED
    BY <1>1, DispatchInvariant, PTL

\* What SendTask's busy check found holds until its save.
THEOREM BusyCheckHolds == Spec => []CheckStaysTrue
<1>1. DispatchInv => CheckStaysTrue
    BY DEF DispatchInv
<1>2. QED
    BY <1>1, DispatchInvariant, PTL

\* publishNewTask only ever publishes a task the repository has.
THEOREM PublishedIsSaved == Spec => []SavedBeforePublished
<1>1. DispatchInv => SavedBeforePublished
    BY DEF DispatchInv
<1>2. QED
    BY <1>1, DispatchInvariant, PTL
-----------------------------------------------------------------------------
(* What missions are told *)

\* The handler holds a status an agent reported, and a task whose end it is about to
\* announce is settled, unless the agent could not start it.
NotifyPending ==
  /\ upd.pc # "idle" => upd.status \in {AckToTaskStatus(ack) : ack \in Acks}
  /\ upd.pc = "notify" =>
       /\ upd.task \in MissionTasks
       /\ (MissionTaskStatus(upd.status) \in {"completed", "failed"}
             /\ upd.status # "cannot_start") => upd.task \in settled

ToldInv == NotifyPending /\ ToldOverMeansSettled

\* Of the statuses core makes of a report, those that tell a mission its task is over
\* are final, except cannot_start.
LEMMA OverMeansFinal ==
  ASSUME NEW ack,
         MissionTaskStatus(AckToTaskStatus(ack)) \in {"completed", "failed"},
         AckToTaskStatus(ack) # "cannot_start"
  PROVE  AckToTaskStatus(ack) \in FinalStatus
BY DEF MissionTaskStatus, AckToTaskStatus, AckStatus, FinalStatus

LEMMA ToldStep ==
  ASSUME DispatchInv, ToldInv, [Next]_vars
  PROVE  ToldInv'
<1> USE DEF ToldInv, NotifyPending, ToldOverMeansSettled
<1>1. ASSUME NEW c \in Callers, Send(c) PROVE ToldInv'
    BY <1>1 DEF Send, RejectBusy, CheckFree, SaveDraft, PublishOk, PublishFails
<1>2. ASSUME NEW t \in Tasks, NEW ack \in Acks, ReadTask(t, ack) PROVE ToldInv'
    BY <1>2 DEF ReadTask
<1>3. CASE ApplyStatus
  <2>1. PICK ack \in Acks : upd.status = AckToTaskStatus(ack)
      BY <1>3 DEF ApplyStatus
  <2>2. upd.status \in FinalStatus => upd.task \in settled'
      BY <1>3 DEF ApplyStatus
  <2>3. (MissionTaskStatus(upd.status) \in {"completed", "failed"}
           /\ upd.status # "cannot_start") => upd.task \in settled'
      BY <2>1, <2>2, OverMeansFinal
  <2>4. NotifyPending'
    <3>1. CASE upd.task \in MissionTasks /\ upd.status \notin TransientStatus
      <4>1. upd'.pc = "notify" /\ upd'.task = upd.task /\ upd'.status = upd.status
          BY <1>3, <3>1 DEF ApplyStatus, DispatchInv, TypeOK
      <4>2. QED
          BY <2>1, <2>3, <3>1, <4>1
    <3>2. CASE ~(upd.task \in MissionTasks /\ upd.status \notin TransientStatus)
        BY <1>3, <3>2 DEF ApplyStatus, NoUpd
    <3>3. QED
        BY <3>1, <3>2
  <2>5. ToldOverMeansSettled'
      BY <1>3 DEF ApplyStatus
  <2>6. QED
      BY <2>4, <2>5
<1>4. CASE TellMission \/ MissionUnreachable
    BY <1>4 DEF TellMission, MissionUnreachable, NoUpd, DispatchInv, TypeOK
<1>5. CASE SetMQTTClient
    BY <1>5 DEF SetMQTTClient
<1>6. CASE Restart
    BY <1>6 DEF Restart, NoUpd, NotTold
<1>7. CASE UNCHANGED vars
    BY <1>7 DEF vars
<1>8. QED
    BY <1>1, <1>2, <1>3, <1>4, <1>5, <1>6, <1>7 DEF Next, OnTaskUpdated

\* Whatever strings the agents report, a mission is told that its task is over only when
\* the repository has had the task final, a task that could not start excepted.
THEOREM ToldAfterSettled == Spec => []ToldOverMeansSettled
<1>1. Init => ToldInv
    BY DEF Init, ToldInv, NotifyPending, ToldOverMeansSettled, NoUpd, NotTold
<1>2. DispatchInv /\ ToldInv /\ [Next]_vars => ToldInv'
    BY ToldStep
<1>3. ToldInv => ToldOverMeansSettled
    BY DEF ToldInv
<1>4. QED
    BY <1>1, <1>2, <1>3, DispatchInvariant, PTL DEF Spec
=============================================================================
