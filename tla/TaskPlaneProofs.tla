---------------------------- MODULE TaskPlaneProofs ----------------------------
(***************************************************************************)
(* Theorems about TaskPlane for any number of callers, tasks, workers,     *)
(* duplicates and faults: core calls a task over only if its Execute has   *)
(* returned, and, where no process restarts and no task comes back that    *)
(* the dedup cache has evicted, dispatch implements OneTaskAtATime.        *)
(*                                                                         *)
(* Every step of the plane is a step or a stutter of TaskDispatcher and of *)
(* TaskManager, so their invariants hold of it: the lemmas of the two      *)
(* proof modules are used through INSTANCE.                                *)
(***************************************************************************)
EXTENDS TaskPlane, FiniteSetTheorems, FunctionTheorems, SequenceTheorems, TLAPS

CoreP == INSTANCE TaskDispatcherProofs
           WITH client <- coreClient, Agents <- {Agent}, Acks <- {"started", "failed", "finished"}
RobotP == INSTANCE TaskManagerProofs WITH client <- agentClient

LinkTypes ==
  /\ coreSubscribed \in BOOLEAN /\ faults \in FaultSets
  /\ statusQ \in Seq([task : Tasks, status : Robot!Status])

\* Whoever holds a final status of a task, on its way through core, holds it after the
\* task's Execute has returned.
EndsAreTrue ==
  /\ \A i \in DOMAIN statusQ : statusQ[i].status \in Robot!Final => statusQ[i].task \in executed
  /\ upd.pc # "idle" /\ upd.status \in Core!FinalStatus => upd.task \in executed
  /\ settled \subseteq executed
  /\ FinalMeansExecuted

\* The inductive invariant.
PlaneInv ==
  /\ CoreP!DispatchInv /\ RobotP!TypeInv /\ RobotP!OutcomeInv
  /\ LinkTypes /\ EndsAreTrue
-----------------------------------------------------------------------------
(* A step of the plane is one of core, of the agent, of both or of the links *)

LEMMA CoreInitially == Init => CoreP!DispatchInv
<1>1. Core!Init => CoreP!Init
  BY DEF Core!Init, CoreP!Init, Core!Idle, CoreP!Idle, Core!NoUpd, CoreP!NoUpd,
           Core!NotTold, CoreP!NotTold
<1>2. CoreP!Init => CoreP!DispatchInv
  BY PlaneAssumption, CoreP!InitInv
<1>3. QED
  BY <1>1, <1>2 DEF Init

LEMMA RobotInitially == Init => RobotP!TypeInv /\ RobotP!OutcomeInv
<1>1. Robot!Init => RobotP!Init
  BY DEF Robot!Init, RobotP!Init, Robot!NothingSeen, RobotP!NothingSeen, Robot!Frame, RobotP!Frame
<1>2. RobotP!Init => RobotP!TypeInv
  BY PlaneAssumption, RobotP!TypeInit
<1>3. RobotP!Init => RobotP!OutcomeInv
  BY DEF RobotP!Init, RobotP!OutcomeInv, RobotP!OutcomeOnlyIfExecuted, RobotP!Frame, RobotP!NothingSeen
<1>4. QED
  BY <1>1, <1>2, <1>3 DEF Init

LEMMA CoreRests == UNCHANGED coreVars => UNCHANGED CoreP!vars
BY DEF coreVars, CoreP!vars

LEMMA RobotRests == UNCHANGED robotVars => UNCHANGED RobotP!vars
BY DEF robotVars, RobotP!vars, RobotP!procVars, RobotP!linkVars, RobotP!histVars

\* Core's part of a step.
LEMMA CoreMoves ==
  ASSUME LinkTypes, [Next]_vars
  PROVE  [CoreP!Next]_(CoreP!vars)
<1>1. ASSUME NEW c \in Callers, SendTask(c) PROVE CoreP!Next
  <2>1. ASSUME NEW t \in Tasks, Core!RejectBusy(c, t, Agent) \/ Core!CheckFree(c, t, Agent)
        PROVE  CoreP!Next
    <3>1. CoreP!RejectBusy(c, t, Agent) \/ CoreP!CheckFree(c, t, Agent)
      BY <2>1 DEF Core!RejectBusy, Core!CheckFree, CoreP!RejectBusy, CoreP!CheckFree, Core!IsBusy,
                  CoreP!IsBusy, Core!ActiveTasks, CoreP!ActiveTasks, Core!FinalStatus, CoreP!FinalStatus
    <3>2. QED
      BY <3>1 DEF CoreP!Next, CoreP!Send
  <2>2. Core!SaveDraft(c) => CoreP!SaveDraft(c)
    BY DEF Core!SaveDraft, CoreP!SaveDraft, Core!SaveTask, CoreP!SaveTask
  <2>3. Core!PublishFails(c) => CoreP!PublishFails(c)
    BY DEF Core!PublishFails, CoreP!PublishFails, Core!Idle, CoreP!Idle
  <2>4. QED
    BY <1>1, <2>1, <2>2, <2>3 DEF SendTask, CoreP!Next, CoreP!Send
<1>2. ASSUME NEW c \in Callers, Dispatch(c) PROVE CoreP!Next
  <2>1. CoreP!PublishOk(c)
    BY <1>2 DEF Dispatch, Core!PublishOk, CoreP!PublishOk, Core!Idle, CoreP!Idle
  <2>2. QED
    BY <2>1 DEF CoreP!Next, CoreP!Send
<1>3. CASE CoreConnects
  BY <1>3 DEF CoreConnects, Core!SetMQTTClient, CoreP!SetMQTTClient, CoreP!Next
<1>4. CASE CoreRestarts
  <2>1. CoreP!Restart
    BY <1>4 DEF CoreRestarts, Core!Restart, CoreP!Restart, Core!Idle, CoreP!Idle, Core!NoUpd, CoreP!NoUpd,
           Core!NotTold, CoreP!NotTold
  <2>2. QED
    BY <2>1 DEF CoreP!Next
<1>5. CASE StatusArrives
  <2>1. CASE Head(statusQ).task \in DOMAIN repo
    <3>1. Head(statusQ) \in [task : Tasks, status : Robot!Status]
      BY <1>5, HeadTailProperties DEF StatusArrives, LinkTypes
    <3>2. PICK t \in Tasks, ack \in {"started", "failed", "finished"} : Core!ReadTask(t, ack)
      BY <1>5, <2>1, <3>1 DEF StatusArrives, Robot!Status
    <3>3. CoreP!ReadTask(t, ack)
      BY <3>2 DEF Core!ReadTask, CoreP!ReadTask, Core!AckToTaskStatus, CoreP!AckToTaskStatus,
                  Core!AckStatus, CoreP!AckStatus
    <3>4. QED
      BY <3>3 DEF CoreP!Next, CoreP!OnTaskUpdated
  <2>2. QED
    BY <1>5, <2>1, CoreRests DEF StatusArrives
<1>6. CASE StatusApplied
  <2>1. Core!ApplyStatus => CoreP!ApplyStatus
    BY DEF Core!ApplyStatus, CoreP!ApplyStatus, Core!SaveTask, CoreP!SaveTask, Core!FinalStatus,
           CoreP!FinalStatus, Core!TransientStatus, CoreP!TransientStatus, Core!NoUpd, CoreP!NoUpd,
           Core!NotTold, CoreP!NotTold
  <2>2. Core!TellMission => CoreP!TellMission
    BY DEF Core!TellMission, CoreP!TellMission, Core!MissionTaskStatus, CoreP!MissionTaskStatus,
           Core!NoUpd, CoreP!NoUpd,
           Core!NotTold, CoreP!NotTold
  <2>3. Core!MissionUnreachable => CoreP!MissionUnreachable
    BY DEF Core!MissionUnreachable, CoreP!MissionUnreachable, Core!NoUpd, CoreP!NoUpd,
           Core!NotTold, CoreP!NotTold
  <2>4. QED
    BY <1>6, <2>1, <2>2, <2>3 DEF StatusApplied, CoreP!Next, CoreP!OnTaskUpdated
<1>7. ASSUME UNCHANGED coreVars PROVE UNCHANGED CoreP!vars
  BY <1>7, CoreRests
<1>8. QED
  BY <1>1, <1>2, <1>3, <1>4, <1>5, <1>6, <1>7
  DEF Next, CoreSteps, CoreSubscribes, CoreDrops, AgentSteps, AgentWorks, ReportsAgain,
      ReportsStarted, ReportsOutcome, StatusSent, AgentReconnects, AgentCrashes, vars

\* The agent's part of a step.
LEMMA RobotMoves ==
  ASSUME CoreP!DispatchInv, [Next]_vars
  PROVE  [RobotP!Next]_(RobotP!vars)
<1>1. ASSUME NEW c \in Callers, Dispatch(c) PROVE [RobotP!Next]_(RobotP!vars)
  <2>1. CASE subscribed
    <3>1. call[c].task \in Tasks
      BY <1>1 DEF Dispatch, Core!PublishOk, CoreP!DispatchInv, CoreP!TypeOK, CoreP!CallInv
    <3>2. RobotP!Accept(call[c].task)
      BY <1>1, <2>1 DEF Dispatch, Robot!Accept, RobotP!Accept, Robot!procVars, RobotP!procVars
    <3>3. QED
      BY <3>1, <3>2 DEF RobotP!Next
  <2>2. QED
    BY <1>1, <2>1, RobotRests DEF Dispatch
<1>2. CASE AgentWorks
  <2>1. ASSUME NEW m \in session, Robot!Deliver(m) PROVE RobotP!Listener
    BY <2>1 DEF Robot!Deliver, RobotP!Deliver, Robot!histVars, RobotP!histVars, RobotP!Listener
  <2>2. Robot!RecallNew => RobotP!RecallNew
    BY DEF Robot!RecallNew, RobotP!RecallNew, Robot!Victims, RobotP!Victims, Robot!PushFront,
           RobotP!PushFront, Robot!linkVars, RobotP!linkVars, Robot!histVars, RobotP!histVars
  <2>3. Robot!RecallSeen => RobotP!RecallSeen
    BY DEF Robot!RecallSeen, RobotP!RecallSeen, Robot!MoveToFront, RobotP!MoveToFront,
           Robot!linkVars, RobotP!linkVars, Robot!histVars, RobotP!histVars
  <2>4. Robot!ListenerAck => RobotP!ListenerAck
    BY DEF Robot!ListenerAck, RobotP!ListenerAck, Robot!AckOutcome, RobotP!AckOutcome, Robot!AfterAck,
           RobotP!AfterAck, Robot!Frame, RobotP!Frame, Robot!histVars, RobotP!histVars
  <2>5. Robot!AttachClient => RobotP!AttachClient
    BY DEF Robot!AttachClient, RobotP!AttachClient, Robot!histVars, RobotP!histVars
  <2>6. ASSUME NEW w \in Workers PROVE
          /\ \A final \in Robot!Final : Robot!ExecuteReturns(w, final) => RobotP!ExecuteReturns(w, final)
          /\ Robot!RememberFinal(w) => RobotP!RememberFinal(w)
          /\ Robot!WorkerAck(w) => RobotP!WorkerAck(w)
    <3>1. \A final \in Robot!Final : Robot!ExecuteReturns(w, final) => RobotP!ExecuteReturns(w, final)
      BY DEF Robot!ExecuteReturns, RobotP!ExecuteReturns, Robot!Final, RobotP!Final, Robot!linkVars,
             RobotP!linkVars
    <3>2. Robot!RememberFinal(w) => RobotP!RememberFinal(w)
      BY DEF Robot!RememberFinal, RobotP!RememberFinal, Robot!MoveToFront, RobotP!MoveToFront,
             Robot!linkVars, RobotP!linkVars, Robot!histVars, RobotP!histVars
    <3>3. Robot!WorkerAck(w) => RobotP!WorkerAck(w)
      BY DEF Robot!WorkerAck, RobotP!WorkerAck, Robot!AckOutcome, RobotP!AckOutcome, Robot!AfterAck,
             RobotP!AfterAck, Robot!Frame, RobotP!Frame, Robot!histVars, RobotP!histVars
    <3>4. QED
      BY <3>1, <3>2, <3>3
  <2>7. Robot!Final = RobotP!Final
    BY DEF Robot!Final, RobotP!Final
  <2>8. QED
    BY <1>2, <2>1, <2>2, <2>3, <2>4, <2>5, <2>6, <2>7 DEF AgentWorks, RobotP!Next, RobotP!Listener, RobotP!Worker
<1>3. CASE ReportsAgain
  <2>1. PICK ok \in BOOLEAN : Robot!Republish(ok)
    BY <1>3 DEF ReportsAgain
  <2>2. RobotP!Republish(ok)
    BY <2>1 DEF Robot!Republish, RobotP!Republish, Robot!Publish, RobotP!Publish, Robot!linkVars,
                RobotP!linkVars
  <2>3. QED
    BY <2>2 DEF RobotP!Next, RobotP!Listener
<1>4. ASSUME NEW w \in Workers, ReportsStarted(w) PROVE RobotP!Next
  <2>1. PICK ok \in BOOLEAN : Robot!StartTask(w, ok)
    BY <1>4 DEF ReportsStarted
  <2>2. RobotP!StartTask(w, ok)
    BY <2>1 DEF Robot!StartTask, RobotP!StartTask, Robot!Publish, RobotP!Publish, Robot!Frame,
                RobotP!Frame, Robot!linkVars, RobotP!linkVars
  <2>3. QED
    BY <2>2 DEF RobotP!Next, RobotP!Listener
<1>5. ASSUME NEW w \in Workers, ReportsOutcome(w) PROVE RobotP!Next
  <2>1. PICK ok \in BOOLEAN : Robot!PublishFinal(w, ok)
    BY <1>5 DEF ReportsOutcome
  <2>2. RobotP!PublishFinal(w, ok)
    BY <2>1 DEF Robot!PublishFinal, RobotP!PublishFinal, Robot!Publish, RobotP!Publish,
                Robot!linkVars, RobotP!linkVars
  <2>3. QED
    BY <2>2 DEF RobotP!Next, RobotP!Worker
<1>6. CASE AgentReconnects
  <2>1. RobotP!Reconnect
    BY <1>6 DEF AgentReconnects, Robot!Reconnect, RobotP!Reconnect, Robot!Unsent, RobotP!Unsent,
                Robot!procVars, RobotP!procVars, Robot!histVars, RobotP!histVars
  <2>2. QED
    BY <2>1 DEF RobotP!Next
<1>7. CASE AgentCrashes
  <2>1. RobotP!Crash
    BY <1>7 DEF AgentCrashes, Robot!Crash, RobotP!Crash, Robot!Unsent, RobotP!Unsent, Robot!Frame,
                RobotP!Frame, Robot!NothingSeen, RobotP!NothingSeen, Robot!histVars, RobotP!histVars
  <2>2. QED
    BY <2>1 DEF RobotP!Next
<1>8. ASSUME UNCHANGED robotVars PROVE UNCHANGED RobotP!vars
  BY <1>8, RobotRests
<1>9. QED
  BY <1>1, <1>2, <1>3, <1>4, <1>5, <1>6, <1>7, <1>8
  DEF Next, CoreSteps, SendTask, CoreConnects, CoreSubscribes, CoreDrops, CoreRestarts,
      StatusArrives, StatusApplied, AgentSteps, vars
-----------------------------------------------------------------------------
(* The statuses on their way to core *)

StatusMessage == [task : Tasks, status : Robot!Status]

\* A message that is true may be sent: the queue stays typed and true.
LEMMA StatusQueued ==
  ASSUME LinkTypes, EndsAreTrue, executed \subseteq executed',
         NEW t \in Tasks, NEW s \in Robot!Status, s \in Robot!Final => t \in executed,
         NEW ok, StatusSent(t, s, ok)
  PROVE  /\ statusQ' \in Seq(StatusMessage)
         /\ \A i \in DOMAIN statusQ' : statusQ'[i].status \in Robot!Final => statusQ'[i].task \in executed'
<1> DEFINE m == [task |-> t, status |-> s]
<1>1. /\ statusQ \in Seq(StatusMessage) /\ m \in StatusMessage /\ m.task = t /\ m.status = s
      /\ \A i \in DOMAIN statusQ : statusQ[i].status \in Robot!Final => statusQ[i].task \in executed
  BY DEF LinkTypes, EndsAreTrue, StatusMessage
<1>2. statusQ' = Append(statusQ, m) \/ statusQ' = statusQ
  BY DEF StatusSent
<1> HIDE DEF m
<1>3. CASE statusQ' = Append(statusQ, m)
  <2>1. /\ statusQ' \in Seq(StatusMessage) /\ Len(statusQ') = Len(statusQ) + 1
        /\ \A i \in 1..Len(statusQ) : statusQ'[i] = statusQ[i]
        /\ statusQ'[Len(statusQ) + 1] = m
    BY <1>1, <1>3, AppendProperties
  <2>2. DOMAIN statusQ' = 1..(Len(statusQ) + 1) /\ DOMAIN statusQ = 1..Len(statusQ) /\ Len(statusQ) \in Nat
    BY <1>1, <2>1, LenProperties
  <2>3. \A i \in DOMAIN statusQ' : i \in DOMAIN statusQ \/ i = Len(statusQ) + 1
    BY <2>2
  <2>4. QED
    BY <1>1, <2>1, <2>2, <2>3
<1>4. QED
  BY <1>1, <1>2, <1>3

\* The first message is taken away, or all are.
LEMMA StatusTaken ==
  ASSUME LinkTypes, EndsAreTrue, executed \subseteq executed',
         \/ statusQ # <<>> /\ statusQ' = Tail(statusQ)
         \/ statusQ' = <<>>
         \/ statusQ' = statusQ
  PROVE  /\ statusQ' \in Seq(StatusMessage)
         /\ \A i \in DOMAIN statusQ' : statusQ'[i].status \in Robot!Final => statusQ'[i].task \in executed'
<1>1. /\ statusQ \in Seq(StatusMessage)
      /\ \A i \in DOMAIN statusQ : statusQ[i].status \in Robot!Final => statusQ[i].task \in executed
  BY DEF LinkTypes, EndsAreTrue, StatusMessage
<1>2. CASE statusQ # <<>> /\ statusQ' = Tail(statusQ)
  <2>1. /\ statusQ' \in Seq(StatusMessage) /\ Len(statusQ') = Len(statusQ) - 1
        /\ \A i \in 1..Len(statusQ') : statusQ'[i] = statusQ[i + 1]
    BY <1>1, <1>2, HeadTailProperties
  <2>2. DOMAIN statusQ' = 1..Len(statusQ') /\ DOMAIN statusQ = 1..Len(statusQ) /\ Len(statusQ) \in Nat
    BY <1>1, <2>1, LenProperties
  <2>3. \A i \in DOMAIN statusQ' : i + 1 \in DOMAIN statusQ
    BY <2>1, <2>2
  <2>4. QED
    BY <1>1, <2>1, <2>2, <2>3
<1>3. CASE statusQ' = <<>>
  BY <1>3
<1>4. CASE statusQ' = statusQ
  BY <1>1, <1>4
<1>5. QED
  BY <1>2, <1>3, <1>4

\* Execute's return is never undone.
LEMMA ExecutedGrows ==
  ASSUME [RobotP!Next]_(RobotP!vars)
  PROVE  executed \subseteq executed'
BY DEF RobotP!Next, RobotP!Listener, RobotP!Worker, RobotP!Accept, RobotP!Deliver, RobotP!RecallNew,
       RobotP!RecallSeen, RobotP!Republish, RobotP!StartTask, RobotP!ListenerAck, RobotP!ExecuteReturns,
       RobotP!RememberFinal, RobotP!PublishFinal, RobotP!WorkerAck, RobotP!Reconnect, RobotP!Crash,
       RobotP!AttachClient, RobotP!vars, RobotP!procVars, RobotP!linkVars, RobotP!histVars

LEMMA LinksKeep ==
  ASSUME PlaneInv, [Next]_vars, executed \subseteq executed'
  PROVE  /\ LinkTypes'
         /\ \A i \in DOMAIN statusQ' : statusQ'[i].status \in Robot!Final => statusQ'[i].task \in executed'
<1>1. LinkTypes /\ EndsAreTrue /\ RobotP!TypeInv /\ RobotP!OutcomeInv
  BY DEF PlaneInv
<1>2. coreSubscribed' \in BOOLEAN /\ faults' \in FaultSets
  BY <1>1 DEF LinkTypes, Next, CoreSteps, SendTask, Dispatch, CoreConnects, CoreSubscribes, CoreDrops,
              CoreRestarts, StatusArrives, StatusApplied, AgentSteps, AgentWorks, ReportsAgain,
              ReportsStarted, ReportsOutcome, StatusSent, AgentReconnects, AgentCrashes, linkVars, vars
<1>3. /\ statusQ' \in Seq(StatusMessage)
      /\ \A i \in DOMAIN statusQ' : statusQ'[i].status \in Robot!Final => statusQ'[i].task \in executed'
  <2>1. CASE ReportsAgain
    <3>1. PICK ok \in BOOLEAN : Robot!Republish(ok) /\ StatusSent(lis.task, lis.status, ok)
      BY <2>1 DEF ReportsAgain
    <3>2. /\ lis.pc = "republish" /\ lis.task \in Tasks /\ lis.status \in Robot!Status
          /\ lis.status \in Robot!Final => lis.task \in executed
      BY <1>1, <3>1 DEF Robot!Republish, RobotP!TypeInv, RobotP!BusyFrames, RobotP!TypeOK, RobotP!Frames,
                        RobotP!Status, Robot!Status, RobotP!OutcomeInv, RobotP!Final, Robot!Final
    <3>3. QED
      BY <1>1, <3>1, <3>2, StatusQueued
  <2>2. ASSUME NEW w \in Workers, ReportsStarted(w)
        PROVE  /\ statusQ' \in Seq(StatusMessage)
               /\ \A i \in DOMAIN statusQ' : statusQ'[i].status \in Robot!Final => statusQ'[i].task \in executed'
    <3>1. PICK ok \in BOOLEAN : Robot!StartTask(w, ok) /\ StatusSent(lis.task, "started", ok)
      BY <2>2 DEF ReportsStarted
    <3>2. lis.task \in Tasks /\ "started" \in Robot!Status /\ "started" \notin Robot!Final
      BY <1>1, <3>1 DEF Robot!StartTask, RobotP!TypeInv, RobotP!BusyFrames, Robot!Status, Robot!Final
    <3>3. QED
      BY <1>1, <3>1, <3>2, StatusQueued
  <2>3. ASSUME NEW w \in Workers, ReportsOutcome(w)
        PROVE  /\ statusQ' \in Seq(StatusMessage)
               /\ \A i \in DOMAIN statusQ' : statusQ'[i].status \in Robot!Final => statusQ'[i].task \in executed'
    <3>1. PICK ok \in BOOLEAN : Robot!PublishFinal(w, ok) /\ StatusSent(run[w].task, run[w].status, ok)
      BY <2>3 DEF ReportsOutcome
    <3>2. run[w].task \in Tasks /\ run[w].status \in Robot!Status /\ run[w].task \in executed
      BY <1>1, <3>1 DEF Robot!PublishFinal, RobotP!TypeInv, RobotP!BusyFrames, RobotP!TypeOK,
                        RobotP!Frames, RobotP!Status, Robot!Status, RobotP!OutcomeInv
    <3>3. QED
      BY <1>1, <3>1, <3>2, StatusQueued
  <2>4. ASSUME \/ statusQ # <<>> /\ statusQ' = Tail(statusQ)
               \/ statusQ' = <<>>
               \/ statusQ' = statusQ
        PROVE  /\ statusQ' \in Seq(StatusMessage)
               /\ \A i \in DOMAIN statusQ' : statusQ'[i].status \in Robot!Final => statusQ'[i].task \in executed'
    BY <1>1, <2>4, StatusTaken
  <2>5. QED
    BY <2>1, <2>2, <2>3, <2>4
    DEF Next, CoreSteps, SendTask, Dispatch, CoreConnects, CoreSubscribes, CoreDrops, CoreRestarts,
        StatusArrives, StatusApplied, AgentSteps, AgentWorks, AgentReconnects, AgentCrashes, linkVars, vars
<1>4. QED
  BY <1>2, <1>3 DEF LinkTypes, StatusMessage
-----------------------------------------------------------------------------
(* Core calls a task over only if its Execute has returned *)

\* What core does with a status it has from the queue.
LEMMA EndsKeep ==
  ASSUME PlaneInv, [Next]_vars, executed \subseteq executed'
  PROVE  EndsAreTrue'
<1>1. LinkTypes /\ EndsAreTrue /\ CoreP!TypeOK /\ CoreP!UpdInv
  BY DEF PlaneInv, CoreP!DispatchInv
<1>2. \A i \in DOMAIN statusQ' : statusQ'[i].status \in Robot!Final => statusQ'[i].task \in executed'
  BY LinksKeep
<1>3. CASE StatusArrives
  <2>1. CASE Head(statusQ).task \in DOMAIN repo
    <3> DEFINE m == Head(statusQ)
    <3>1. upd' = [pc |-> "read", task |-> m.task, agent |-> repo[m.task].agent,
                  status |-> Core!AckToTaskStatus(m.status)]
          /\ UNCHANGED <<repo, settled>>
      BY <1>3, <2>1 DEF StatusArrives, Core!ReadTask
    <3>2. m.status \in Robot!Final => m.task \in executed
      <4>1. statusQ \in Seq(StatusMessage) /\ statusQ # <<>>
        BY <1>1, <1>3 DEF StatusArrives, LinkTypes, StatusMessage
      <4>2. m = statusQ[1] /\ 1 \in DOMAIN statusQ
        BY <4>1
      <4>3. QED
        BY <1>1, <4>2 DEF EndsAreTrue
    <3>3. Core!AckToTaskStatus(m.status) \in Core!FinalStatus => m.status \in Robot!Final \/ m.status = "aborted"
      BY DEF Core!AckToTaskStatus, Core!AckStatus, Core!FinalStatus, Robot!Final
    <3>4. m.status # "aborted"
      <4>1. statusQ \in Seq(StatusMessage) /\ statusQ # <<>>
        BY <1>1, <1>3 DEF StatusArrives, LinkTypes, StatusMessage
      <4>2. m \in StatusMessage
        BY <4>1, HeadTailProperties
      <4>3. QED
        BY <4>2 DEF StatusMessage, Robot!Status
    <3>5. upd'.task = m.task /\ upd'.status = Core!AckToTaskStatus(m.status)
      BY <3>1
    <3> HIDE DEF m
    <3>6. upd'.status \in Core!FinalStatus => upd'.task \in executed'
      BY <3>2, <3>3, <3>4, <3>5
    <3>7. QED
      BY <1>1, <1>2, <3>1, <3>6 DEF EndsAreTrue, FinalMeansExecuted, Core!FinalStatus
  <2>2. CASE Head(statusQ).task \notin DOMAIN repo
    BY <1>1, <1>2, <1>3, <2>2 DEF StatusArrives, coreVars, EndsAreTrue, FinalMeansExecuted, Core!FinalStatus
  <2>3. QED
    BY <2>1, <2>2
<1>4. CASE Core!ApplyStatus
  <2>1. /\ upd.pc = "read" /\ upd.task \in DOMAIN repo
        /\ upd.status \in Core!FinalStatus => upd.task \in executed
    BY <1>1, <1>4 DEF Core!ApplyStatus, EndsAreTrue, CoreP!UpdInv
  <2>2. /\ DOMAIN repo' = DOMAIN repo
        /\ \A t \in DOMAIN repo : repo'[t] = IF t = upd.task THEN [agent |-> upd.agent, status |-> upd.status]
                                                              ELSE repo[t]
    BY <1>4, <2>1 DEF Core!ApplyStatus, Core!SaveTask
  <2>3. settled' \subseteq executed'
    BY <1>1, <1>4, <2>1 DEF Core!ApplyStatus, EndsAreTrue
  <2>4. FinalMeansExecuted'
    BY <1>1, <2>1, <2>2 DEF EndsAreTrue, FinalMeansExecuted, Core!FinalStatus
  <2>5. upd'.pc # "idle" /\ upd'.status \in Core!FinalStatus => upd'.task \in executed'
    BY <1>1, <1>4, <2>1 DEF Core!ApplyStatus, Core!NoUpd, CoreP!TypeOK, Core!FinalStatus
  <2>6. QED
    BY <1>2, <2>3, <2>4, <2>5 DEF EndsAreTrue, Core!FinalStatus
<1>5. ASSUME NEW c \in Callers, Core!SaveDraft(c) PROVE EndsAreTrue'
  <2>1. \A t \in DOMAIN repo' : (t \in DOMAIN repo /\ repo'[t] = repo[t]) \/ repo'[t].status = "draft"
    BY <1>5 DEF Core!SaveDraft, Core!SaveTask
  <2>2. UNCHANGED <<upd, settled>>
    BY <1>5 DEF Core!SaveDraft
  <2>3. QED
    BY <1>1, <1>2, <2>1, <2>2 DEF EndsAreTrue, FinalMeansExecuted, Core!FinalStatus
<1>6. CASE Core!Restart
  BY <1>2, <1>6 DEF Core!Restart, Core!NoUpd, EndsAreTrue, FinalMeansExecuted
<1>7. CASE Core!TellMission \/ Core!MissionUnreachable
  BY <1>1, <1>2, <1>7 DEF Core!TellMission, Core!MissionUnreachable, Core!NoUpd, EndsAreTrue,
                          FinalMeansExecuted, Core!FinalStatus
<1>8. CASE UNCHANGED <<repo, upd, settled>>
  BY <1>1, <1>2, <1>8 DEF EndsAreTrue, FinalMeansExecuted, Core!FinalStatus
<1>9. QED
  BY <1>3, <1>4, <1>5, <1>6, <1>7, <1>8
  DEF Next, CoreSteps, SendTask, Dispatch, CoreConnects, CoreSubscribes, CoreDrops, CoreRestarts,
      StatusApplied, AgentSteps, AgentWorks, ReportsAgain, ReportsStarted, ReportsOutcome, StatusSent,
      AgentReconnects, AgentCrashes, linkVars, coreVars, vars, Core!RejectBusy, Core!CheckFree,
      Core!PublishFails, Core!PublishOk, Core!SetMQTTClient

LEMMA PlaneInitially == Init => PlaneInv
<1> SUFFICES ASSUME Init PROVE PlaneInv
  OBVIOUS
<1>1. LinkTypes
  <2>1. coreSubscribed \in BOOLEAN /\ faults \in FaultSets /\ statusQ = <<>>
    BY DEF Init
  <2>2. QED
    BY <2>1 DEF LinkTypes
<1>2. EndsAreTrue
  BY DEF Init, EndsAreTrue, FinalMeansExecuted, Core!Init, Core!NoUpd
<1>3. QED
  BY <1>1, <1>2, CoreInitially, RobotInitially DEF PlaneInv

LEMMA PlaneStep == PlaneInv /\ [Next]_vars => PlaneInv'
<1> SUFFICES ASSUME PlaneInv, [Next]_vars PROVE PlaneInv'
  OBVIOUS
<1>1. CoreP!DispatchInv'
  BY PlaneAssumption, CoreMoves, CoreP!DispatchStep DEF PlaneInv
<1>2. [RobotP!Next]_(RobotP!vars)
  BY RobotMoves DEF PlaneInv
<1>3. RobotP!TypeInv' /\ RobotP!OutcomeInv'
  BY <1>2, PlaneAssumption, RobotP!TypeStep, RobotP!OutcomeStep DEF PlaneInv
<1>4. executed \subseteq executed'
  BY <1>2, ExecutedGrows
<1>5. QED
  BY <1>1, <1>3, <1>4, LinksKeep, EndsKeep DEF PlaneInv

\* In every behaviour, restarts of either process included, core has a task as final only
\* if the agent's Execute has returned: a status is read, queued, lost or repeated, never
\* made up.
THEOREM PlaneIsSound == Spec => []PlaneSound
<1>1. PlaneInv => PlaneSound
  <2>1. CoreP!TypeOK => Core!TypeOK
    BY DEF CoreP!TypeOK, Core!TypeOK, CoreP!TaskStatus, Core!TaskStatus, CoreP!Told, Core!Told
  <2>2. RobotP!TypeOK => Robot!TypeOK
    BY DEF RobotP!TypeOK, Robot!TypeOK, RobotP!Messages, Robot!Messages, RobotP!Gens, Robot!Gens,
           RobotP!Frames, Robot!Frames, RobotP!Status, Robot!Status
  <2>3. QED
    BY <2>1, <2>2 DEF PlaneInv, PlaneSound, TypeOK, LinkTypes, EndsAreTrue, CoreP!DispatchInv,
                      RobotP!TypeInv
<1>2. QED
  BY <1>1, PlaneInitially, PlaneStep, PTL DEF Spec
-----------------------------------------------------------------------------
(* Where no process restarts, a task is run once *)

\* Whatever the agent has to do with, the broker has accepted.
AcceptedInv ==
  /\ \A m \in session : m.task \in accepted
  /\ lis.pc # "idle" => lis.task \in accepted
  /\ \A w \in Workers : run[w].pc # "idle" => run[w].task \in accepted
  /\ executed \subseteq accepted

\* The tasks the agent's process has recalled: tracked, or tracked before they were evicted.
Recalled == DOMAIN seen \cup evicted

\* No task is delivered again once the cache has evicted it.
NoEvictedTaskReturns == lis.pc = "recall" => lis.task \notin evicted

\* Every task that runs or ran was recalled, so no task is about to run a second time.
TrackedInv ==
  /\ executed \subseteq Recalled
  /\ \A w \in Workers : run[w].pc = "execute" => run[w].task \in Recalled \ executed
  /\ \A v, w \in Workers :
       (run[v].pc = "execute" /\ run[w].pc = "execute" /\ run[v].task = run[w].task) => v = w
  /\ lis.pc = "start" => lis.task \in Recalled \ executed /\ ~Running(lis.task)

OnceInv ==
  /\ AcceptedInv
  /\ ~Restarts => accepted \subseteq DOMAIN repo /\ TrackedInv

LEMMA AcceptedKeeps ==
  ASSUME RobotP!TypeInv, AcceptedInv, [RobotP!Next]_(RobotP!vars)
  PROVE  AcceptedInv'
<1>0. /\ lis \in RobotP!ListenerFrames /\ run \in [Workers -> RobotP!WorkerFrames]
      /\ session \subseteq RobotP!Messages
  BY DEF RobotP!TypeInv, RobotP!TypeOK, RobotP!ListenerFrames, RobotP!WorkerFrames
<1>1. ASSUME NEW t \in Tasks, RobotP!Accept(t) PROVE AcceptedInv'
  BY <1>1 DEF RobotP!Accept, RobotP!procVars, AcceptedInv
<1>2. ASSUME NEW m \in session, RobotP!Deliver(m) PROVE AcceptedInv'
  <2>1. m.task \in accepted /\ [m EXCEPT !.sent = TRUE].task = m.task
    BY <1>0 DEF AcceptedInv, RobotP!Messages
  <2>2. \A n \in session' : n \in session \/ n = [m EXCEPT !.sent = TRUE]
    BY <1>2 DEF RobotP!Deliver
  <2>3. lis'.task = m.task
    BY <1>2 DEF RobotP!Deliver
  <2>4. UNCHANGED <<run, accepted, executed>>
    BY <1>2 DEF RobotP!Deliver, RobotP!histVars
  <2>5. QED
    BY <2>1, <2>2, <2>3, <2>4 DEF AcceptedInv
<1>3. CASE RobotP!RecallNew \/ RobotP!RecallSeen \/ \E ok \in BOOLEAN : RobotP!Republish(ok)
  <2>1. lis'.task = lis.task /\ lis.pc # "idle"
    BY <1>0, <1>3 DEF RobotP!RecallNew, RobotP!RecallSeen, RobotP!Republish, RobotP!ListenerFrames, RobotP!Frames
  <2>2. UNCHANGED <<session, run, accepted, executed>>
    BY <1>3 DEF RobotP!RecallNew, RobotP!RecallSeen, RobotP!Republish, RobotP!linkVars, RobotP!histVars
  <2>3. QED
    BY <2>1, <2>2 DEF AcceptedInv
<1>4. CASE RobotP!ListenerAck
  <2>1. session' \subseteq session /\ lis'.pc = "idle" /\ UNCHANGED <<run, accepted, executed>>
    BY <1>4 DEF RobotP!ListenerAck, RobotP!AfterAck, RobotP!Frame, RobotP!histVars
  <2>2. QED
    BY <2>1 DEF AcceptedInv
<1>5. ASSUME NEW w \in Workers, NEW ok \in BOOLEAN, RobotP!StartTask(w, ok) PROVE AcceptedInv'
  <2>1. /\ run'[w].task = lis.task /\ lis.pc # "idle" /\ lis'.pc = "idle"
        /\ \A v \in Workers \ {w} : run'[v] = run[v]
    BY <1>0, <1>5 DEF RobotP!StartTask, RobotP!ListenerFrames, RobotP!Frames, RobotP!Frame
  <2>2. UNCHANGED <<session, accepted, executed>>
    BY <1>5 DEF RobotP!StartTask, RobotP!linkVars
  <2>3. QED
    BY <2>1, <2>2 DEF AcceptedInv
<1>6. ASSUME NEW w \in Workers, RobotP!Worker(w) PROVE AcceptedInv'
  <2>1. CASE RobotP!WorkerAck(w)
    <3>1. /\ session' \subseteq session /\ run'[w].pc = "idle" /\ UNCHANGED <<lis, accepted, executed>>
          /\ \A v \in Workers \ {w} : run'[v] = run[v]
      BY <1>0, <2>1 DEF RobotP!WorkerAck, RobotP!AfterAck, RobotP!Frame, RobotP!histVars
    <3>2. QED
      BY <3>1 DEF AcceptedInv
  <2>2. CASE ~RobotP!WorkerAck(w)
    <3>1. /\ run[w].pc # "idle" /\ run'[w].task = run[w].task /\ UNCHANGED <<session, lis, accepted>>
          /\ \A v \in Workers \ {w} : run'[v] = run[v]
          /\ executed' \subseteq executed \cup {run[w].task}
      BY <1>0, <1>6, <2>2 DEF RobotP!Worker, RobotP!ExecuteReturns, RobotP!RememberFinal,
         RobotP!PublishFinal, RobotP!WorkerFrames, RobotP!Frames, RobotP!linkVars, RobotP!histVars
    <3>2. QED
      BY <3>1 DEF AcceptedInv
  <2>3. QED
    BY <2>1, <2>2
<1>7. ASSUME session' = RobotP!Unsent PROVE \A m \in session' : \E n \in session : m.task = n.task
  BY <1>0, <1>7 DEF RobotP!Unsent, RobotP!Messages
<1>8. CASE RobotP!Reconnect
  BY <1>7, <1>8 DEF RobotP!Reconnect, RobotP!procVars, RobotP!histVars, AcceptedInv
<1>9. CASE RobotP!Crash
  BY <1>7, <1>9 DEF RobotP!Crash, RobotP!Frame, RobotP!histVars, AcceptedInv
<1>10. CASE UNCHANGED <<session, lis, run, accepted, executed>>
  BY <1>10 DEF AcceptedInv
<1>11. QED
  BY <1>1, <1>2, <1>3, <1>4, <1>5, <1>6, <1>8, <1>9, <1>10
  DEF RobotP!Next, RobotP!Listener, RobotP!AttachClient, RobotP!vars, RobotP!procVars, RobotP!linkVars,
      RobotP!histVars

LEMMA FaultsStay == [Next]_vars => UNCHANGED faults
BY DEF Next, CoreSteps, SendTask, Dispatch, CoreConnects, CoreSubscribes, CoreDrops, CoreRestarts,
       StatusArrives, StatusApplied, AgentSteps, AgentWorks, ReportsAgain, ReportsStarted,
       ReportsOutcome, StatusSent, AgentReconnects, AgentCrashes, linkVars, vars

\* What the broker has accepted, core has saved, and its repository only grows.
LEMMA AcceptedIsSaved ==
  ASSUME PlaneInv, ~Restarts, accepted \subseteq DOMAIN repo, [Next]_vars
  PROVE  accepted' \subseteq DOMAIN repo'
<1>1. /\ \A c \in Callers : call[c].pc = "saved" => call[c].task \in DOMAIN repo
      /\ upd.pc # "idle" => upd.task \in DOMAIN repo
  BY DEF PlaneInv, CoreP!DispatchInv, CoreP!CallInv, CoreP!UpdInv
<1>2. ASSUME NEW c \in Callers, Dispatch(c) PROVE accepted' \subseteq DOMAIN repo'
  BY <1>1, <1>2 DEF Dispatch, Core!PublishOk, Robot!Accept, robotVars
<1>3. ASSUME accepted' = accepted, DOMAIN repo \subseteq DOMAIN repo' PROVE accepted' \subseteq DOMAIN repo'
  BY <1>3
<1>4. ASSUME NEW c \in Callers, SendTask(c) PROVE accepted' = accepted /\ DOMAIN repo \subseteq DOMAIN repo'
  BY <1>4 DEF SendTask, Core!RejectBusy, Core!CheckFree, Core!SaveDraft, Core!SaveTask, Core!PublishFails,
              robotVars
<1>5. CASE StatusApplied
  BY <1>3, <1>5 DEF StatusApplied, Core!ApplyStatus, Core!SaveTask, Core!TellMission,
              Core!MissionUnreachable, robotVars
<1>6. CASE CoreConnects \/ CoreSubscribes \/ StatusArrives \/ CoreDrops
  BY <1>3, <1>6 DEF CoreConnects, Core!SetMQTTClient, CoreSubscribes, StatusArrives, Core!ReadTask, CoreDrops,
              coreVars, robotVars
<1>7. ~CoreRestarts
  BY DEF CoreRestarts, Restarts
<1>8. CASE AgentSteps \/ AgentReconnects \/ AgentCrashes
  BY <1>3, <1>8 DEF AgentSteps, AgentWorks, ReportsAgain, ReportsStarted, ReportsOutcome, StatusSent,
     AgentReconnects, AgentCrashes, coreVars, Robot!Deliver, Robot!RecallNew, Robot!RecallSeen,
     Robot!ListenerAck, Robot!AttachClient, Robot!ExecuteReturns, Robot!RememberFinal, Robot!WorkerAck,
     Robot!Republish, Robot!StartTask, Robot!PublishFinal, Robot!Reconnect, Robot!Crash, Robot!histVars
<1>9. CASE UNCHANGED vars
  BY <1>3, <1>9 DEF vars, coreVars, robotVars
<1>10. QED
  BY <1>2, <1>3, <1>4, <1>5, <1>6, <1>7, <1>8, <1>9 DEF Next, CoreSteps

LEMMA TrackedKeeps ==
  ASSUME NoEvictedTaskReturns, RobotP!TypeInv, TrackedInv, ~Restarts, [Next]_vars
  PROVE  TrackedInv'
<1>0. lis \in RobotP!ListenerFrames /\ run \in [Workers -> RobotP!WorkerFrames]
  BY DEF RobotP!TypeInv, RobotP!TypeOK, RobotP!ListenerFrames, RobotP!WorkerFrames
<1> USE DEF TrackedInv, Running, Recalled
<1>1. CASE Robot!RecallNew
  <2>1. lis.task \notin Recalled
    BY <1>1 DEF Robot!RecallNew, NoEvictedTaskReturns
  <2>2. Recalled \cup {lis.task} \subseteq Recalled' /\ lis'.task = lis.task
    <3>1. DOMAIN seen' = (DOMAIN seen \cup {lis.task}) \ Robot!Victims
      BY <1>1 DEF Robot!RecallNew
    <3>2. evicted' = evicted \cup Robot!Victims /\ lis'.task = lis.task
      BY <1>0, <1>1 DEF Robot!RecallNew, RobotP!ListenerFrames, RobotP!Frames
    <3>3. QED
      BY <3>1, <3>2
  <2>3. UNCHANGED <<run, executed>>
    BY <1>1 DEF Robot!RecallNew, Robot!histVars
  <2>4. QED
    BY <2>1, <2>2, <2>3
<1>2. ASSUME NEW w \in Workers, NEW ok \in BOOLEAN, Robot!StartTask(w, ok) PROVE TrackedInv'
  <2>1. /\ lis.pc = "start" /\ lis'.pc = "idle" /\ run'[w].pc = "execute" /\ run'[w].task = lis.task
        /\ \A v \in Workers \ {w} : run'[v] = run[v]
    BY <1>0, <1>2 DEF Robot!StartTask, Robot!Frame, RobotP!ListenerFrames, RobotP!Frames
  <2>2. UNCHANGED <<seen, evicted, executed>>
    BY <1>2 DEF Robot!StartTask
  <2>3. QED
    BY <2>1, <2>2
<1>3. ASSUME NEW w \in Workers, NEW final \in Robot!Final, Robot!ExecuteReturns(w, final) PROVE TrackedInv'
  <2>1. /\ run[w].pc = "execute" /\ run'[w].pc = "remember" /\ executed' = executed \cup {run[w].task}
        /\ \A v \in Workers \ {w} : run'[v] = run[v]
    BY <1>0, <1>3 DEF Robot!ExecuteReturns, RobotP!WorkerFrames, RobotP!Frames
  <2>2. UNCHANGED <<seen, evicted, lis>>
    BY <1>3 DEF Robot!ExecuteReturns
  <2>3. QED
    BY <2>1, <2>2
<1>4. ASSUME NEW w \in Workers,
             Robot!RememberFinal(w) \/ Robot!WorkerAck(w) \/ \E ok \in BOOLEAN : Robot!PublishFinal(w, ok)
      PROVE  TrackedInv'
  <2>1. /\ run'[w].pc # "execute" /\ \A v \in Workers \ {w} : run'[v] = run[v]
        /\ DOMAIN seen' = DOMAIN seen /\ UNCHANGED <<evicted, lis, executed>>
    BY <1>0, <1>4 DEF Robot!RememberFinal, Robot!WorkerAck, Robot!PublishFinal, Robot!Frame,
       RobotP!WorkerFrames, RobotP!Frames, Robot!histVars
  <2>2. QED
    BY <2>1
<1>5. CASE \/ \E m \in session : Robot!Deliver(m)
           \/ Robot!RecallSeen \/ Robot!ListenerAck \/ \E ok \in BOOLEAN : Robot!Republish(ok)
  <2>1. lis'.pc # "start" /\ UNCHANGED <<run, seen, evicted, executed>>
    <3>1. ASSUME NEW m \in session, Robot!Deliver(m)
          PROVE  lis'.pc # "start" /\ UNCHANGED <<run, seen, evicted, executed>>
      BY <3>1 DEF Robot!Deliver, Robot!histVars
    <3>2. CASE Robot!RecallSeen \/ \E ok \in BOOLEAN : Robot!Republish(ok)
      BY <1>0, <3>2 DEF Robot!RecallSeen, Robot!Republish, RobotP!ListenerFrames, RobotP!Frames,
         Robot!linkVars, Robot!histVars
    <3>3. CASE Robot!ListenerAck
      BY <3>3 DEF Robot!ListenerAck, Robot!Frame, Robot!histVars
    <3>4. QED
      BY <1>5, <3>1, <3>2, <3>3
  <2>2. QED
    BY <2>1
<1>6. CASE UNCHANGED <<run, lis, seen, evicted, executed>>
  BY <1>6
<1>7. Robot!AttachClient \/ Robot!Reconnect \/ (\E t \in Tasks : Robot!Accept(t)) \/ UNCHANGED robotVars
        => UNCHANGED <<run, lis, seen, evicted, executed>>
  BY DEF Robot!AttachClient, Robot!Reconnect, Robot!Accept, Robot!procVars, Robot!histVars, robotVars
<1>8. ~AgentCrashes
  BY DEF AgentCrashes, Restarts
<1>9. ASSUME NEW c \in Callers, Dispatch(c) PROVE UNCHANGED <<run, lis, seen, evicted, executed>>
  BY <1>9 DEF Dispatch, Robot!Accept, Robot!procVars, robotVars
<1>10. QED
  BY <1>1, <1>2, <1>3, <1>4, <1>5, <1>6, <1>7, <1>8, <1>9
  DEF Next, CoreSteps, SendTask, CoreConnects, CoreSubscribes, CoreDrops, CoreRestarts, StatusArrives,
      StatusApplied, AgentSteps, AgentWorks, ReportsAgain, ReportsStarted, ReportsOutcome,
      AgentReconnects, vars

LEMMA OnceInitially == Init => OnceInv
<1> SUFFICES ASSUME Init PROVE OnceInv
  OBVIOUS
<1>1. Robot!Init
  BY DEF Init
<1>2. AcceptedInv /\ TrackedInv
  BY <1>1 DEF Robot!Init, Robot!Frame, AcceptedInv, TrackedInv
<1>3. accepted \subseteq DOMAIN repo
  BY <1>1 DEF Robot!Init
<1>4. QED
  BY <1>2, <1>3 DEF OnceInv

LEMMA OnceStep ==
  ASSUME NoEvictedTaskReturns, PlaneInv, OnceInv, [Next]_vars
  PROVE  OnceInv'
<1>1. [RobotP!Next]_(RobotP!vars) /\ RobotP!TypeInv
  BY RobotMoves DEF PlaneInv
<1>2. AcceptedInv'
  BY <1>1, AcceptedKeeps DEF OnceInv
<1>3. Restarts' = Restarts
  BY FaultsStay DEF Restarts
<1>4. ~Restarts => accepted' \subseteq DOMAIN repo' /\ TrackedInv'
  BY <1>1, AcceptedIsSaved, TrackedKeeps DEF OnceInv
<1>5. QED
  BY <1>2, <1>3, <1>4 DEF OnceInv
-----------------------------------------------------------------------------
(* TaskPlane implements OneTaskAtATime *)

AbstractPhase == [t \in Tasks |-> IF Restarts THEN "new" ELSE Phase(t)]

\* A step that neither saves a task nor starts nor ends an Execute is a stutter.
LEMMA PhaseStays ==
  ASSUME UNCHANGED faults, UNCHANGED executed, DOMAIN repo' = DOMAIN repo,
         \A t \in Tasks : Running(t)' <=> Running(t)
  PROVE  UNCHANGED AbstractPhase
<1>1. Restarts' = Restarts
  BY DEF Restarts
<1>2. \A t \in Tasks : Phase(t)' = Phase(t)
  BY DEF Phase
<1>3. QED
  BY <1>1, <1>2 DEF AbstractPhase

\* A step that changes one task's phase.
LEMMA PhaseMoves ==
  ASSUME ~Restarts, UNCHANGED faults, NEW t \in Tasks, NEW p,
         Phase(t)' = p, \A u \in Tasks \ {t} : Phase(u)' = Phase(u)
  PROVE  AbstractPhase' = [AbstractPhase EXCEPT ![t] = p]
<1>1. ~Restarts'
  BY DEF Restarts
<1>2. AbstractPhase = [u \in Tasks |-> Phase(u)]
  BY DEF AbstractPhase
<1>3. AbstractPhase' = [u \in Tasks |-> Phase(u)']
  BY <1>1 DEF AbstractPhase
<1>4. [u \in Tasks |-> Phase(u)'] = [u \in Tasks |-> IF u = t THEN p ELSE Phase(u)]
  OBVIOUS
<1> HIDE DEF AbstractPhase
<1>5. [AbstractPhase EXCEPT ![t] = p] = [u \in Tasks |-> IF u = t THEN p ELSE Phase(u)]
  BY <1>2
<1>6. QED
  BY <1>3, <1>4, <1>5

\* SendTask's save queues the task: all tasks before it have been executed and run no more.
LEMMA SaveQueues ==
  ASSUME PlaneInv, OnceInv, ~Restarts, UNCHANGED <<faults, robotVars>>,
         NEW c \in Callers, Core!SaveDraft(c), NEW t \in Tasks, t = call[c].task
  PROVE  Abstract!Queue(t)
<1>1. /\ t \notin DOMAIN repo /\ call[c].agent = Agent
      /\ \A u \in DOMAIN repo : repo[u].agent = Agent /\ u \in executed
      /\ DOMAIN repo \subseteq Tasks
  <2>1. /\ call[c].pc = "checked" /\ CoreP!TypeOK /\ CoreP!CallInv /\ CoreP!CheckStaysTrue /\ EndsAreTrue
    BY DEF Core!SaveDraft, PlaneInv, CoreP!DispatchInv
  <2>2. call[c].agent = Agent /\ t \notin DOMAIN repo
    BY <2>1 DEF CoreP!TypeOK, CoreP!CallInv
  <2>3. \A u \in DOMAIN repo : repo[u].agent = Agent
    BY <2>1 DEF CoreP!TypeOK
  <2>4. \A u \in DOMAIN repo : u \in settled
    BY <2>1, <2>2, <2>3 DEF CoreP!CheckStaysTrue
  <2>5. QED
    BY <2>1, <2>2, <2>3, <2>4 DEF CoreP!TypeOK, EndsAreTrue
<1>2. /\ accepted \subseteq DOMAIN repo /\ TrackedInv /\ AcceptedInv
  BY DEF OnceInv
<1>3. \A u \in Tasks : Running(u) => u \in DOMAIN repo /\ u \notin executed
  BY <1>2 DEF Running, TrackedInv, AcceptedInv
<1>4. Phase(t) = "new" /\ \A u \in Tasks : Phase(u) \in {"new", "done"}
  BY <1>1, <1>2, <1>3 DEF Phase, AcceptedInv
<1>5. DOMAIN repo' = DOMAIN repo \cup {t} /\ UNCHANGED <<executed, run>>
  BY DEF Core!SaveDraft, Core!SaveTask, robotVars
<1>6. /\ \A u \in Tasks : Running(u)' <=> Running(u)
      /\ ~Restarts'
  BY <1>5 DEF Running, Restarts
<1>7. Phase(t)' = "queued" /\ \A u \in Tasks \ {t} : Phase(u)' = Phase(u)
  BY <1>1, <1>2, <1>3, <1>5, <1>6 DEF Phase, AcceptedInv
<1>8. QED
  <2>1. \A u \in Tasks : AbstractPhase[u] = Phase(u)
    BY DEF AbstractPhase
  <2>2. AbstractPhase' = [AbstractPhase EXCEPT ![t] = "queued"]
    BY <1>7, PhaseMoves
  <2>3. AbstractPhase[t] = "new" /\ \A u \in Tasks : AbstractPhase[u] \in {"new", "done"}
    BY <1>1, <1>4, <2>1
  <2>4. QED
    BY <2>2, <2>3 DEF Abstract!Queue, AbstractPhase

\* The listener's start of a worker runs the task.
LEMMA StartRuns ==
  ASSUME PlaneInv, OnceInv, ~Restarts, UNCHANGED <<faults, repo>>,
         NEW w \in Workers, NEW ok \in BOOLEAN, Robot!StartTask(w, ok),
         NEW t \in Tasks, t = lis.task
  PROVE  Abstract!Run(t)
<1>0. lis \in RobotP!ListenerFrames /\ run \in [Workers -> RobotP!WorkerFrames]
  BY DEF PlaneInv, RobotP!TypeInv, RobotP!TypeOK, RobotP!ListenerFrames, RobotP!WorkerFrames
<1>1. accepted \subseteq DOMAIN repo /\ TrackedInv /\ AcceptedInv
  BY DEF OnceInv
<1>2. lis.pc = "start" /\ t \in DOMAIN repo /\ t \notin executed /\ ~Running(t)
  BY <1>1 DEF Robot!StartTask, TrackedInv, AcceptedInv, PlaneInv, RobotP!TypeInv, RobotP!BusyFrames
<1>3. /\ run[w].pc = "idle" /\ run'[w].pc = "execute" /\ run'[w].task = t
      /\ \A v \in Workers \ {w} : run'[v] = run[v]
      /\ UNCHANGED executed
  BY <1>0 DEF Robot!StartTask, RobotP!ListenerFrames, RobotP!Frames
<1>4. Running(t)' /\ \A u \in Tasks \ {t} : Running(u)' <=> Running(u)
  BY <1>3 DEF Running
<1>5. Phase(t) = "queued" /\ Phase(t)' = "running" /\ \A u \in Tasks \ {t} : Phase(u)' = Phase(u)
  BY <1>2, <1>3, <1>4 DEF Phase
<1>6. ~Restarts'
  BY DEF Restarts
<1>7. QED
  <2>1. \A u \in Tasks : AbstractPhase[u] = Phase(u)
    BY DEF AbstractPhase
  <2>2. AbstractPhase' = [AbstractPhase EXCEPT ![t] = "running"]
    BY <1>5, PhaseMoves
  <2>3. QED
    BY <1>2, <1>5, <2>1, <2>2 DEF Abstract!Run, AbstractPhase

\* Execute's return ends it: no other worker runs the same task.
LEMMA ReturnEnds ==
  ASSUME PlaneInv, OnceInv, ~Restarts, UNCHANGED <<faults, repo>>,
         NEW w \in Workers, NEW final \in Robot!Final, Robot!ExecuteReturns(w, final),
         NEW t \in Tasks, t = run[w].task
  PROVE  Abstract!Done(t)
<1>0. run \in [Workers -> RobotP!WorkerFrames]
  BY DEF PlaneInv, RobotP!TypeInv, RobotP!TypeOK, RobotP!WorkerFrames
<1>1. TrackedInv
  BY DEF OnceInv
<1>2. run[w].pc = "execute" /\ Running(t)
  BY DEF Robot!ExecuteReturns, Running
<1>3. /\ run'[w].pc = "remember" /\ run'[w].task = t
      /\ \A v \in Workers \ {w} : run'[v] = run[v]
      /\ executed' = executed \cup {t}
  BY <1>0 DEF Robot!ExecuteReturns, RobotP!WorkerFrames, RobotP!Frames
<1>4. ~Running(t)' /\ \A u \in Tasks \ {t} : Running(u)' <=> Running(u)
  BY <1>1, <1>2, <1>3 DEF Running, TrackedInv
<1>5. Phase(t) = "running" /\ Phase(t)' = "done" /\ \A u \in Tasks \ {t} : Phase(u)' = Phase(u)
  BY <1>2, <1>3, <1>4 DEF Phase
<1>6. ~Restarts'
  BY DEF Restarts
<1>7. QED
  <2>1. \A u \in Tasks : AbstractPhase[u] = Phase(u)
    BY DEF AbstractPhase
  <2>2. AbstractPhase' = [AbstractPhase EXCEPT ![t] = "done"]
    BY <1>5, PhaseMoves
  <2>3. QED
    BY <1>2, <1>5, <2>1, <2>2 DEF Abstract!Done, AbstractPhase

\* Every step of the plane is a step of the abstract specification or a stutter.
LEMMA PhaseStep ==
  ASSUME PlaneInv, OnceInv, [Next]_vars
  PROVE  [Abstract!Next]_AbstractPhase
<1>0. UNCHANGED faults
  BY FaultsStay
<1>1. CASE Restarts
  BY <1>0, <1>1 DEF Restarts, AbstractPhase
<1>2. CASE ~Restarts
  <2>1. ASSUME NEW c \in Callers, SendTask(c), Core!SaveDraft(c) PROVE Abstract!Next
    <3>1. PICK t \in Tasks : t = call[c].task
      BY <2>1 DEF Core!SaveDraft, PlaneInv, CoreP!DispatchInv, CoreP!CallInv, CoreP!TypeOK
    <3>2. Abstract!Queue(t)
      BY <1>0, <1>2, <2>1, <3>1, SaveQueues DEF SendTask
    <3>3. QED
      BY <3>2 DEF Abstract!Next
  <2>2. ASSUME NEW w \in Workers, ReportsStarted(w) PROVE Abstract!Next
    <3>1. PICK ok \in BOOLEAN : Robot!StartTask(w, ok) /\ UNCHANGED repo
      BY <2>2 DEF ReportsStarted, StatusSent, coreVars
    <3>2. PICK t \in Tasks : t = lis.task
      BY <3>1 DEF Robot!StartTask, PlaneInv, RobotP!TypeInv, RobotP!BusyFrames
    <3>3. Abstract!Run(t)
      BY <1>0, <1>2, <3>1, <3>2, StartRuns
    <3>4. QED
      BY <3>3 DEF Abstract!Next
  <2>3. ASSUME NEW w \in Workers, NEW final \in Robot!Final, Robot!ExecuteReturns(w, final), UNCHANGED repo
        PROVE  Abstract!Next
    <3>1. PICK t \in Tasks : t = run[w].task
      BY <2>3 DEF Robot!ExecuteReturns, PlaneInv, RobotP!TypeInv, RobotP!BusyFrames
    <3>2. Abstract!Done(t)
      BY <1>0, <1>2, <2>3, <3>1, ReturnEnds
    <3>3. QED
      BY <3>2 DEF Abstract!Next
  <2>4. ASSUME DOMAIN repo' = DOMAIN repo, UNCHANGED executed, \A t \in Tasks : Running(t)' <=> Running(t)
        PROVE  UNCHANGED AbstractPhase
    BY <1>0, <2>4, PhaseStays
  <2>5. ASSUME UNCHANGED <<repo, executed, run>> PROVE UNCHANGED AbstractPhase
    BY <2>4, <2>5 DEF Running
  <2>6. ASSUME NEW c \in Callers, SendTask(c), ~Core!SaveDraft(c) PROVE UNCHANGED AbstractPhase
    BY <2>5, <2>6 DEF SendTask, Core!RejectBusy, Core!CheckFree, Core!PublishFails, robotVars
  <2>7. ASSUME NEW c \in Callers, Dispatch(c) PROVE UNCHANGED AbstractPhase
    BY <2>5, <2>7 DEF Dispatch, Core!PublishOk, Robot!Accept, Robot!procVars, robotVars
  <2>8. CASE StatusApplied
    <3>1. DOMAIN repo' = DOMAIN repo
      BY <2>8 DEF StatusApplied, Core!ApplyStatus, Core!SaveTask, Core!TellMission, Core!MissionUnreachable,
                  PlaneInv, CoreP!DispatchInv, CoreP!UpdInv
    <3>2. UNCHANGED <<executed, run>>
      BY <2>8 DEF StatusApplied, robotVars
    <3>3. QED
      BY <2>4, <3>1, <3>2 DEF Running
  <2>9. CASE CoreConnects \/ CoreSubscribes \/ StatusArrives \/ CoreDrops \/ UNCHANGED vars
    BY <2>5, <2>9 DEF CoreConnects, Core!SetMQTTClient, CoreSubscribes, StatusArrives, Core!ReadTask,
       CoreDrops, vars, coreVars, robotVars
  <2>10. CASE ReportsAgain
    BY <2>5, <2>10 DEF ReportsAgain, StatusSent, Robot!Republish, coreVars
  <2>11. ASSUME NEW w \in Workers, Robot!RememberFinal(w) \/ Robot!WorkerAck(w) \/ ReportsOutcome(w),
                UNCHANGED repo
         PROVE  UNCHANGED AbstractPhase
    <3>1. run \in [Workers -> RobotP!WorkerFrames]
      BY DEF PlaneInv, RobotP!TypeInv, RobotP!TypeOK, RobotP!WorkerFrames
    <3>2. run[w].pc # "execute" /\ run'[w].pc # "execute" /\ \A v \in Workers \ {w} : run'[v] = run[v]
      BY <2>11, <3>1 DEF Robot!RememberFinal, Robot!WorkerAck, ReportsOutcome, Robot!PublishFinal,
         Robot!Frame, RobotP!WorkerFrames, RobotP!Frames
    <3>3. UNCHANGED executed
      BY <2>11 DEF Robot!RememberFinal, Robot!WorkerAck, ReportsOutcome, Robot!PublishFinal, Robot!histVars
    <3>4. QED
      BY <2>4, <2>11, <3>2, <3>3 DEF Running
  <2>12. CASE AgentWorks
    <3>1. UNCHANGED repo
      BY <2>12 DEF AgentWorks, coreVars
    <3>2. ASSUME NEW m \in session, Robot!Deliver(m) PROVE UNCHANGED <<executed, run>>
      BY <3>2 DEF Robot!Deliver, Robot!histVars
    <3>3. Robot!RecallNew \/ Robot!RecallSeen \/ Robot!ListenerAck \/ Robot!AttachClient
            => UNCHANGED <<executed, run>>
      BY DEF Robot!RecallNew, Robot!RecallSeen, Robot!ListenerAck, Robot!AttachClient, Robot!histVars
    <3>4. QED
      BY <2>3, <2>5, <2>11, <2>12, <3>1, <3>2, <3>3 DEF AgentWorks
  <2>13. CASE AgentReconnects
    BY <2>5, <2>13 DEF AgentReconnects, Robot!Reconnect, Robot!procVars, Robot!histVars, coreVars
  <2>14. ~AgentCrashes /\ ~CoreRestarts
    BY <1>2 DEF AgentCrashes, CoreRestarts, Restarts
  <2>15. ASSUME NEW w \in Workers, ReportsOutcome(w) PROVE UNCHANGED repo
    BY <2>15 DEF ReportsOutcome, StatusSent, coreVars
  <2>16. QED
    BY <2>1, <2>2, <2>6, <2>7, <2>8, <2>9, <2>10, <2>11, <2>12, <2>13, <2>14, <2>15
    DEF Next, CoreSteps, AgentSteps
<1>3. QED
  BY <1>1, <1>2

\* Where no process restarts and no task comes back that the agent's dedup cache has evicted,
\* core and agent together keep OneTaskAtATime's promise, for any number of callers, workers,
\* duplicates and lost messages: a task is queued only when no other is queued or running, is
\* run once, and is then done.
THEOREM DispatchIsOneTaskAtATime == Spec /\ []NoEvictedTaskReturns => ImplementsOneTaskAtATime
<1>1. Init => Abstract!Init
  BY DEF Init, Core!Init, Robot!Init, Robot!Frame, Abstract!Init, Phase, Running
<1>2. NoEvictedTaskReturns /\ PlaneInv /\ OnceInv /\ [Next]_vars => OnceInv'
  BY OnceStep
<1>3. PlaneInv /\ OnceInv /\ [Next]_vars => [Abstract!Next]_AbstractPhase
  BY PhaseStep
<1>4. QED
  BY <1>1, <1>2, <1>3, PlaneInitially, OnceInitially, PlaneStep, PTL
  DEF Spec, ImplementsOneTaskAtATime, Abstract!Spec, AbstractPhase
-----------------------------------------------------------------------------
(* A cache with room for every task *)

RoomInv == RobotP!TypeInv /\ RobotP!CacheConsistent /\ evicted = {}

\* A cache with room for all tasks evicts none: a task it does not list leaves it room.
LEMMA NoVictims ==
  ASSUME IsFiniteSet(Tasks), Cardinality(Tasks) <= MaxTracked, RobotP!TypeInv, RobotP!CacheConsistent,
         lis.pc = "recall", lis.task \notin DOMAIN seen
  PROVE  Robot!Victims = {}
<1>1. /\ order \in Seq(Tasks) /\ lis.task \in Tasks /\ DOMAIN seen \subseteq Tasks
      /\ DOMAIN seen = {order[i] : i \in DOMAIN order}
      /\ \A i, j \in DOMAIN order : order[i] = order[j] => i = j
  BY DEF RobotP!TypeInv, RobotP!BusyFrames, RobotP!TypeOK, RobotP!CacheConsistent
<1>2. DOMAIN order = 1..Len(order) /\ Len(order) \in Nat /\ order \in [1..Len(order) -> Tasks]
  BY <1>1, LenProperties
<1>3. PICK n \in Nat : n = Len(order)
  BY <1>2
<1>4. Cardinality(DOMAIN seen) = n
  <2>1. order \in [1..n -> DOMAIN seen]
    BY <1>1, <1>2, <1>3
  <2>2. order \in Bijection(1..n, DOMAIN seen)
    BY <1>1, <1>2, <1>3, <2>1, Fun_IsBij
  <2>3. ExistsBijection(1..n, DOMAIN seen)
    BY <2>2 DEF ExistsBijection
  <2>4. QED
    BY <2>3, <1>3, FS_CountingElements
<1>5. PICK k \in Nat : k = Cardinality(Tasks)
  BY FS_CardinalityType
<1>6. n < k
  <2>1. DOMAIN seen \in SUBSET Tasks /\ DOMAIN seen # Tasks
    BY <1>1
  <2>2. Cardinality(DOMAIN seen) <= Cardinality(Tasks) /\ Cardinality(DOMAIN seen) # Cardinality(Tasks)
    BY <2>1, FS_Subset
  <2>3. n <= k /\ n # k
    BY <1>4, <1>5, <2>2
  <2>4. QED
    BY <2>3
<1>7. ~(Len(order) >= MaxTracked)
  <2>1. MaxTracked \in Nat
    BY PlaneAssumption
  <2>2. QED
    BY <1>3, <1>5, <1>6, <2>1
<1>8. QED
  BY <1>7 DEF Robot!Victims

\* Only recall evicts.
LEMMA EvictedGrows ==
  ASSUME evicted = {}, [RobotP!Next]_(RobotP!vars), Robot!RecallNew => Robot!Victims = {}
  PROVE  evicted' = {}
<1>1. CASE Robot!RecallNew
  BY <1>1 DEF Robot!RecallNew
<1>2. RobotP!RecallNew <=> Robot!RecallNew
  BY DEF RobotP!RecallNew, Robot!RecallNew, RobotP!Victims, Robot!Victims, RobotP!PushFront, Robot!PushFront,
         RobotP!linkVars, Robot!linkVars, RobotP!histVars, Robot!histVars
<1>3. QED
  BY <1>1, <1>2
  DEF RobotP!Next, RobotP!Listener, RobotP!Worker, RobotP!Accept, RobotP!Deliver, RobotP!RecallSeen,
      RobotP!Republish, RobotP!StartTask, RobotP!ListenerAck, RobotP!ExecuteReturns,
      RobotP!RememberFinal, RobotP!PublishFinal, RobotP!WorkerAck, RobotP!Reconnect, RobotP!Crash,
      RobotP!AttachClient, RobotP!vars, RobotP!procVars

\* No task comes back evicted, hence the promise holds of every behaviour without restarts,
\* if the dedup cache (maxTrackedTasks) has room for all tasks dispatched.
THEOREM RoomKeepsThePromise ==
  ASSUME IsFiniteSet(Tasks), Cardinality(Tasks) <= MaxTracked
  PROVE  Spec => []NoEvictedTaskReturns /\ ImplementsOneTaskAtATime
<1>1. Init => RoomInv
  <2> SUFFICES ASSUME Init PROVE RoomInv
    OBVIOUS
  <2>1. Robot!Init /\ RobotP!TypeInv
    BY RobotInitially DEF Init
  <2>2. QED
    BY <2>1, PlaneAssumption DEF Robot!Init, Robot!NothingSeen, RobotP!CacheConsistent, RoomInv
<1>2. ASSUME PlaneInv, RoomInv, [Next]_vars PROVE RoomInv'
  <2>1. [RobotP!Next]_(RobotP!vars)
    BY <1>2, RobotMoves DEF PlaneInv
  <2>2. RobotP!TypeInv' /\ RobotP!CacheConsistent'
    BY <1>2, <2>1, PlaneStep, PlaneAssumption, RobotP!CacheStep DEF RoomInv, PlaneInv
  <2>3. Robot!RecallNew => Robot!Victims = {}
    BY <1>2, NoVictims DEF Robot!RecallNew, RoomInv
  <2>4. evicted' = {}
    BY <1>2, <2>1, <2>3, EvictedGrows DEF RoomInv
  <2>5. QED
    BY <2>2, <2>4 DEF RoomInv
<1>3. RoomInv => NoEvictedTaskReturns
  BY DEF RoomInv, NoEvictedTaskReturns
<1>4. QED
  BY <1>1, <1>2, <1>3, PlaneInitially, PlaneStep, DispatchIsOneTaskAtATime, PTL DEF Spec
=============================================================================
