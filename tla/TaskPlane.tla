------------------------------ MODULE TaskPlane ------------------------------
(***************************************************************************)
(* Task dispatch end to end for one agent: core's TaskDispatcher and       *)
(* MissionTaskManager, the agent's TaskManager, and the MQTT broker        *)
(* between them.  task/new travels through the agent's persistent session  *)
(* (TaskManager's variable session); task/<id>/status goes through core's  *)
(* clean session, which holds statuses only while core is subscribed.      *)
(***************************************************************************)
EXTENDS Naturals, Sequences

CONSTANTS
  Agent, Callers, Tasks, MissionTasks, NoOne,                        \* core
  Known, Workers, MaxTracked, MaxCopies, MaxReconnects, MaxCrashes,  \* agent
  NoTask,
  FaultSets  \* the sets of faults a behaviour may suffer

Fault == {"publish",     \* core's task/new publish fails
          "status",      \* an agent's status publish fails
          "corelink",    \* core's connection drops, or it subscribes late
          "corecrash",   \* core's process restarts
          "agentlink",   \* the agent's connection drops
          "agentcrash"}  \* the agent's process restarts

\* TaskDispatcher's and TaskManager's assumptions on what they are instantiated with.
ASSUME PlaneAssumption ==
  /\ FaultSets \subseteq SUBSET Fault
  /\ MissionTasks \subseteq Tasks /\ NoOne \notin Callers /\ NoOne \notin Tasks
  /\ Known \subseteq Tasks /\ NoTask \notin Tasks
  /\ MaxTracked \in Nat \ {0} /\ MaxCopies \in Nat \ {0}
  /\ MaxReconnects \in Nat /\ MaxCrashes \in Nat

VARIABLES
  repo, mu, coreClient, call, issued, wire, upd, told, settled,  \* TaskDispatcher
  subscribed, session, gen, agentClient, seen, order, lis, run,  \* TaskManager
  accepted, executed, starts, evicted, reported,
  coreSubscribed,  \* core's session has the task/status subscription
  statusQ,         \* statuses the broker still has for core
  faults           \* what may go wrong in this behaviour

Core  == INSTANCE TaskDispatcher
           WITH client <- coreClient, Agents <- {Agent}, Acks <- {"started", "failed", "finished"}
Robot == INSTANCE TaskManager WITH client <- agentClient

coreVars  == <<repo, mu, coreClient, call, issued, wire, upd, told, settled>>
robotVars == <<subscribed, session, gen, agentClient, seen, order, lis, run,
               accepted, executed, starts, evicted, reported>>
linkVars  == <<coreSubscribed, statusQ, faults>>
vars      == <<coreVars, robotVars, linkVars>>

TypeOK ==
  /\ Core!TypeOK /\ Robot!TypeOK
  /\ coreSubscribed \in BOOLEAN
  /\ statusQ \in Seq([task : Tasks, status : Robot!Status])
  /\ faults \in FaultSets

Init ==
  /\ Core!Init /\ Robot!Init
  /\ coreSubscribed = FALSE
  /\ statusQ = <<>>
  /\ faults \in FaultSets
-----------------------------------------------------------------------------
(* Plausible bugs, each a changed form of a definition below; no run uses them, the *)
(* manifest's mutants do.                                                          *)

\* A status is taken for the agent's active task, whichever task it names.
StatusArrivesForActive ==
  /\ statusQ # <<>> /\ upd.pc = "idle"
  /\ IF Core!ActiveTasks(repo, Agent) # {}
     THEN \E t \in Core!ActiveTasks(repo, Agent) : Core!ReadTask(t, Head(statusQ).status)
     ELSE UNCHANGED coreVars
  /\ statusQ' = Tail(statusQ)
  /\ UNCHANGED <<robotVars, coreSubscribed, faults>>

\* A status published while another is on its way is dropped.
StatusSentIfIdle(t, status, ok) ==
  /\ ok \/ "status" \in faults \/ ~agentClient
  /\ statusQ' = IF ok /\ coreSubscribed /\ statusQ = <<>>
                THEN <<[task |-> t, status |-> status]>> ELSE statusQ
  /\ UNCHANGED <<coreVars, coreSubscribed, faults>>
-----------------------------------------------------------------------------
(* Core *)

SendTask(c) ==
  /\ \/ \E t \in Tasks : Core!RejectBusy(c, t, Agent) \/ Core!CheckFree(c, t, Agent)
     \/ Core!SaveDraft(c)
     \/ ("publish" \in faults \/ ~coreClient) /\ Core!PublishFails(c)
  /\ UNCHANGED <<robotVars, linkVars>>

\* The broker takes the task, and queues it if the agent's session is subscribed.
Dispatch(c) ==
  /\ Core!PublishOk(c)
  /\ IF subscribed THEN Robot!Accept(call[c].task) ELSE UNCHANGED robotVars
  /\ UNCHANGED linkVars

\* Core's OnConnect: SetMQTTClient, then subscribeTaskControlPlane.
CoreConnects ==
  /\ ~coreClient
  /\ Core!SetMQTTClient
  /\ coreSubscribed' = IF "corelink" \in faults THEN coreSubscribed ELSE TRUE
  /\ UNCHANGED <<robotVars, statusQ, faults>>

CoreSubscribes ==
  /\ coreClient /\ ~coreSubscribed
  /\ coreSubscribed' = TRUE
  /\ UNCHANGED <<coreVars, robotVars, statusQ, faults>>

\* Core's connection drops: its clean session is gone, with the statuses in it.
CoreDrops ==
  /\ "corelink" \in faults /\ coreSubscribed
  /\ coreSubscribed' = FALSE
  /\ statusQ' = <<>>
  /\ UNCHANGED <<coreVars, robotVars, faults>>

CoreRestarts ==
  /\ "corecrash" \in faults
  /\ Core!Restart
  /\ coreSubscribed' = FALSE
  /\ statusQ' = <<>>
  /\ UNCHANGED <<robotVars, faults>>

\* taskStatusHandler takes the next message; one about an unknown task is dropped.
StatusArrives ==
  /\ statusQ # <<>> /\ upd.pc = "idle"
  /\ IF Head(statusQ).task \in DOMAIN repo
     THEN Core!ReadTask(Head(statusQ).task, Head(statusQ).status)
     ELSE UNCHANGED coreVars
  /\ statusQ' = Tail(statusQ)
  /\ UNCHANGED <<robotVars, coreSubscribed, faults>>

StatusApplied ==
  /\ Core!ApplyStatus \/ Core!TellMission \/ Core!MissionUnreachable
  /\ UNCHANGED <<robotVars, linkVars>>
-----------------------------------------------------------------------------
(* The agent.  A status the broker accepts (ok) goes to core if core is subscribed. *)

StatusSent(t, status, ok) ==
  /\ ok \/ "status" \in faults \/ ~agentClient
  /\ statusQ' = IF ok /\ coreSubscribed
                THEN Append(statusQ, [task |-> t, status |-> status]) ELSE statusQ
  /\ UNCHANGED <<coreVars, coreSubscribed, faults>>

ReportsStarted(w) ==
  \E ok \in BOOLEAN : Robot!StartTask(w, ok) /\ StatusSent(lis.task, "started", ok)

ReportsAgain ==
  \E ok \in BOOLEAN : Robot!Republish(ok) /\ StatusSent(lis.task, lis.status, ok)

ReportsOutcome(w) ==
  \E ok \in BOOLEAN :
    Robot!PublishFinal(w, ok) /\ StatusSent(run[w].task, run[w].status, ok)

\* Everything the agent does without talking to core.
AgentWorks ==
  /\ \/ \E m \in session : Robot!Deliver(m)
     \/ Robot!RecallNew \/ Robot!RecallSeen \/ Robot!ListenerAck
     \/ Robot!AttachClient
     \/ \E w \in Workers : \/ \E final \in Robot!Final : Robot!ExecuteReturns(w, final)
                           \/ Robot!RememberFinal(w) \/ Robot!WorkerAck(w)
  /\ UNCHANGED <<coreVars, linkVars>>

AgentSteps ==
  AgentWorks \/ ReportsAgain \/ \E w \in Workers : ReportsStarted(w) \/ ReportsOutcome(w)

AgentReconnects ==
  "agentlink" \in faults /\ Robot!Reconnect /\ UNCHANGED <<coreVars, linkVars>>

AgentCrashes ==
  "agentcrash" \in faults /\ Robot!Crash /\ UNCHANGED <<coreVars, linkVars>>
-----------------------------------------------------------------------------
CoreSteps ==
  \/ \E c \in Callers : SendTask(c) \/ Dispatch(c)
  \/ CoreConnects \/ CoreSubscribes
  \/ StatusArrives \/ StatusApplied

Next ==
  \/ CoreSteps \/ CoreDrops \/ CoreRestarts
  \/ AgentSteps \/ AgentReconnects \/ AgentCrashes

Spec == Init /\ [][Next]_vars

\* Neither process stops for good while it has something to do, the broker delivers,
\* and every Execute returns; asked for only where nothing fails.
FairSpec == Spec /\ WF_vars(faults = {} /\ CoreSteps) /\ WF_vars(faults = {} /\ AgentSteps)
-----------------------------------------------------------------------------
(* Properties *)

Running(t) == \E w \in Workers : run[w].pc = "execute" /\ run[w].task = t

\* The abstract phase of a task; a second execution of a done task shows as running.
Phase(t) == CASE Running(t)                                            -> "running"
              [] ~Running(t) /\ t \in executed                         -> "done"
              [] ~Running(t) /\ t \notin executed /\ t \in DOMAIN repo -> "queued"
              [] OTHER                                                 -> "new"

\* A restart forgets tasks and runs them again: the promise is for behaviours without one.
Restarts == faults \cap {"corecrash", "agentcrash"} # {}
Abstract ==
  INSTANCE OneTaskAtATime WITH phase <- [t \in Tasks |-> IF Restarts THEN "new" ELSE Phase(t)]

\* Dispatch keeps the abstract promise where no process restarts: one task queued or
\* running at a time, each run once, however statuses are lost and messages redelivered.
ImplementsOneTaskAtATime == Abstract!Spec

\* Core calls a task over only if the agent's Execute has returned.
FinalMeansExecuted ==
  \A t \in DOMAIN repo : repo[t].status \in Core!FinalStatus => t \in executed

\* The same with the state's type, in every behaviour, restarts included.
PlaneSound == TypeOK /\ FinalMeansExecuted

\* A task core has seen end stays ended: the agent is not made busy by it again.
FinalStays ==
  [][\A t \in DOMAIN repo : repo[t].status \in Core!FinalStatus =>
       t \in DOMAIN repo' /\ repo'[t].status \in Core!FinalStatus]_vars

\* As long as nothing fails, a task the broker queued for an agent that can run it ends,
\* for core too.
TaskCompletes ==
  \A t \in Known :
    (faults = {} /\ t \in accepted)
      ~> (t \in DOMAIN repo /\ repo[t].status \in Core!FinalStatus)
=============================================================================
