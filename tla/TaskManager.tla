----------------------------- MODULE TaskManager -----------------------------
(***************************************************************************)
(* The agent's side of task dispatch: pkg/agentsdk's TaskManager, the      *)
(* persistent MQTT session that feeds it and the process around both.      *)
(*                                                                         *)
(* paho calls listenNewTask for one message at a time (the listener); each *)
(* first-seen task with a handler gets a goroutine of its own (a worker)   *)
(* that runs Execute, remembers the outcome, publishes it and only then    *)
(* acknowledges the message.  The broker keeps a message until it is       *)
(* acknowledged and sends it again after every reconnect, so the listener  *)
(* may see a task while a worker is anywhere in its run.                   *)
(*                                                                         *)
(* The broker and paho are external: the session is the set of messages    *)
(* the broker still holds, each perhaps already sent on the present        *)
(* connection, sent in any order (the broker's own order is one of them);  *)
(* an Ack made on an earlier connection may or may not reach the broker.   *)
(***************************************************************************)
EXTENDS Naturals, Sequences

CONSTANTS
  Tasks,          \* task ids core may publish
  Known,          \* those whose type has a registered handler
  Workers,        \* slots for task goroutines (bounds how many run at once)
  MaxTracked,     \* maxTrackedTasks
  MaxCopies,      \* times the broker may queue one publish (QoS 1 retransmission)
  MaxReconnects,  \* bound: dropped and resumed connections
  MaxCrashes,     \* bound: process restarts
  NoTask

ASSUME ManagerAssumption ==
  /\ Known \subseteq Tasks
  /\ NoTask \notin Tasks
  /\ MaxTracked \in Nat \ {0} /\ MaxCopies \in Nat \ {0}
  /\ MaxReconnects \in Nat /\ MaxCrashes \in Nat

VARIABLES
  subscribed,  \* the broker's session has the task/new subscription
  session,     \* messages the broker holds for the agent: [task, copy, sent]
  gen,         \* the present connection of the agent: [reconnects, crashes]
  client,      \* TaskManager.mqtt # nil
  seen,        \* TaskManager.seen: tracked task -> last status
  order,       \* TaskManager.seenOrder, most recently touched first
  lis,         \* the listener's frame: [pc, task, copy, gen, status]
  run,         \* the worker goroutines: [pc, task, copy, gen, status]
  accepted,    \* history: tasks the broker queued for the agent
  executed,    \* history: tasks whose Execute has returned at some time
  starts,      \* history: Execute calls per task in the present process
  evicted,     \* history: tasks evicted from seen in the present process
  reported     \* history: statuses the broker has accepted, per task

procVars == <<client, seen, order, lis, run, starts, evicted>>
linkVars == <<subscribed, session, gen>>
histVars == <<accepted, executed, reported>>
vars     == <<procVars, linkVars, histVars>>

Status == {"started", "failed", "finished"}
Final  == {"failed", "finished"}

Frame == [pc |-> "idle", task |-> NoTask, copy |-> 0,
          gen |-> [reconnects |-> 0, crashes |-> 0], status |-> "started"]

Messages == [task : Tasks, copy : 1..MaxCopies, sent : BOOLEAN]
Gens == [reconnects : 0..MaxReconnects, crashes : 0..MaxCrashes]
Frames(pcs) == [pc : pcs, task : Tasks \cup {NoTask}, copy : 0..MaxCopies,
                gen : Gens, status : Status]

TypeOK ==
  /\ subscribed \in BOOLEAN /\ client \in BOOLEAN
  /\ session \subseteq Messages
  /\ gen \in Gens
  /\ DOMAIN seen \subseteq Tasks /\ seen \in [DOMAIN seen -> Status]
  /\ order \in Seq(Tasks)
  /\ lis \in Frames({"idle", "recall", "republish", "start", "ack"})
  /\ run \in [Workers -> Frames({"idle", "execute", "remember", "publish", "ack"})]
  /\ accepted \subseteq Tasks /\ executed \subseteq Tasks /\ evicted \subseteq Tasks
  /\ starts \in [Tasks -> Nat]
  /\ reported \in [Tasks -> SUBSET Status]

NothingSeen == [t \in {} |-> "started"]

Init ==
  /\ subscribed = FALSE /\ session = {} /\ gen = [reconnects |-> 0, crashes |-> 0]
  /\ client = FALSE /\ seen = NothingSeen /\ order = <<>>
  /\ lis = Frame /\ run = [w \in Workers |-> Frame]
  /\ accepted = {} /\ executed = {} /\ evicted = {}
  /\ starts = [t \in Tasks |-> 0] /\ reported = [t \in Tasks |-> {}]
\* The session once the broker has (acked) or has not (~acked) got f's PUBACK.
AfterAck(f, acked) ==
  IF acked THEN {m \in session : ~(m.task = f.task /\ m.copy = f.copy)} ELSE session

\* An Ack made on the connection the message came by arrives; a later one may not.
AckOutcome(f) == IF f.gen = gen THEN {TRUE} ELSE BOOLEAN

\* seenOrder.PushFront, the list then cut to its first n entries.
PushFront(t, n) == [i \in 1..n |-> IF i = 1 THEN t ELSE order[i - 1]]

\* seenOrder.MoveToFront of a tracked task.
MoveToFront(t) ==
  LET k == CHOOSE i \in DOMAIN order : order[i] = t IN
  [i \in 1..Len(order) |-> IF i = 1 THEN t ELSE IF i <= k THEN order[i - 1] ELSE order[i]]
-----------------------------------------------------------------------------
(* Plausible bugs, each a changed form of a definition below; no run uses them, the *)
(* manifest's mutants do.                                                          *)

\* The process comes back with CleanSession=true.
CrashCleanSession ==
  /\ gen.crashes < MaxCrashes
  /\ gen' = [gen EXCEPT !.crashes = @ + 1]
  /\ session' = {}
  /\ client' = FALSE /\ seen' = NothingSeen /\ order' = <<>>
  /\ lis' = Frame /\ run' = [w \in Workers |-> Frame]
  /\ starts' = [t \in Tasks |-> 0] /\ evicted' = {}
  /\ UNCHANGED <<subscribed, histVars>>

\* The cache is cut one entry too late.
VictimsTooLate == IF Len(order) > MaxTracked THEN {order[Len(order)]} ELSE {}

\* First sight recorded with a status of the caller's choice.
RecallNewAs(status, isNew) ==
  LET out == IF Len(order) >= MaxTracked THEN {order[Len(order)]} ELSE {} IN
  /\ lis.pc = "recall" /\ isNew
  /\ seen' = [t \in (DOMAIN seen \cup {lis.task}) \ out |->
                IF t = lis.task THEN status ELSE seen[t]]
  /\ order' = PushFront(lis.task, IF out = {} THEN Len(order) + 1 ELSE Len(order))
  /\ evicted' = evicted \cup out
  /\ lis' = [lis EXCEPT !.pc = IF lis.task \in Known THEN "start" ELSE "ack"]
  /\ UNCHANGED <<client, run, starts, linkVars, histVars>>

\* The zero value of the status is stored.
RecallNewZero == RecallNewAs("", lis.task \notin DOMAIN seen)
\* The outcome is stored in advance.
RecallNewOptimistic == RecallNewAs("finished", lis.task \notin DOMAIN seen)
\* A task that is only known as started counts as never seen.
RecallNewIfUnfinished ==
  RecallNewAs("started", lis.task \notin {t \in DOMAIN seen : seen[t] \in Final})

\* A task with an outcome is no longer tracked.
RememberForgets(w) ==
  /\ run[w].pc = "remember"
  /\ seen' = [t \in DOMAIN seen \ {run[w].task} |-> seen[t]]
  /\ order' = SelectSeq(order, LAMBDA t : t # run[w].task)
  /\ run' = [run EXCEPT ![w].pc = "publish"]
  /\ UNCHANGED <<client, lis, starts, evicted, linkVars, histVars>>

\* The unknown-type branch's Ack is reached for every first-seen task.
ListenerAckFallsThrough ==
  /\ lis.pc \in {"start", "ack"}
  /\ \E acked \in AckOutcome(lis) : session' = AfterAck(lis, acked)
  /\ lis' = Frame
  /\ UNCHANGED <<client, seen, order, run, starts, evicted, subscribed, gen, histVars>>

\* paho acknowledges when the handler returns (SetAutoAckDisabled forgotten).
StartTaskAutoAck(w, ok) ==
  /\ lis.pc = "start" /\ run[w].pc = "idle"
  /\ ok => client
  /\ reported' = IF ok THEN [reported EXCEPT ![lis.task] = @ \cup {"started"}] ELSE reported
  /\ run' = [run EXCEPT ![w] = [lis EXCEPT !.pc = "execute"]]
  /\ starts' = [starts EXCEPT ![lis.task] = @ + 1]
  /\ session' = AfterAck(lis, TRUE)
  /\ lis' = Frame
  /\ UNCHANGED <<client, seen, order, evicted, subscribed, gen, accepted, executed>>
-----------------------------------------------------------------------------
(* The broker and the connection *)

\* The broker takes core's task/new publish.  A session that never subscribed gets
\* nothing: the message is not retained.
Accept(t) ==
  /\ t \notin accepted
  /\ subscribed
  /\ \E n \in 1..MaxCopies :
       session' = session \cup {[task |-> t, copy |-> i, sent |-> FALSE] : i \in 1..n}
  /\ accepted' = accepted \cup {t}
  /\ UNCHANGED <<procVars, subscribed, gen, executed, reported>>

\* A message not yet sent on this connection reaches listenNewTask, through
\* the subscription's route or through handleAnyIncoming; decoding always succeeds
\* on what publishNewTask wrote.
Deliver(m) ==
  /\ lis.pc = "idle" /\ m \in session /\ ~m.sent
  /\ session' = (session \ {m}) \cup {[m EXCEPT !.sent = TRUE]}
  /\ lis' = [pc |-> "recall", task |-> m.task, copy |-> m.copy, gen |-> gen,
             status |-> "started"]
  /\ UNCHANGED <<client, seen, order, run, starts, evicted, subscribed, gen, histVars>>

Unsent == {[m EXCEPT !.sent = FALSE] : m \in session}

\* The connection drops and paho resumes the session: what is not acknowledged is
\* sent again; the goroutines go on.
Reconnect ==
  /\ gen.reconnects < MaxReconnects
  /\ gen' = [gen EXCEPT !.reconnects = @ + 1]
  /\ session' = Unsent
  /\ UNCHANGED <<procVars, subscribed, histVars>>

\* The agent's process dies and comes back with a fresh TaskManager.
Crash ==
  /\ gen.crashes < MaxCrashes
  /\ gen' = [gen EXCEPT !.crashes = @ + 1]
  /\ session' = Unsent
  /\ client' = FALSE /\ seen' = NothingSeen /\ order' = <<>>
  /\ lis' = Frame /\ run' = [w \in Workers |-> Frame]
  /\ starts' = [t \in Tasks |-> 0] /\ evicted' = {}
  /\ UNCHANGED <<subscribed, histVars>>

\* handleConnect, the first time in this process: SetClient, RunNewTaskListener.
\* The subscribe may fail; an earlier process's subscription is still there then.
AttachClient ==
  /\ ~client
  /\ client' = TRUE
  /\ subscribed' \in {TRUE, subscribed}
  /\ UNCHANGED <<seen, order, lis, run, starts, evicted, session, gen, histVars>>
-----------------------------------------------------------------------------
(* The dedup cache *)

\* evictOldestLocked after one insertion into a cache that was within its bound.
Victims == IF Len(order) >= MaxTracked THEN {order[Len(order)]} ELSE {}

\* recall: first sight, recorded as started; the oldest entry may have to go.
RecallNew ==
  /\ lis.pc = "recall" /\ lis.task \notin DOMAIN seen
  /\ seen' = [t \in (DOMAIN seen \cup {lis.task}) \ Victims |->
                IF t = lis.task THEN "started" ELSE seen[t]]
  /\ order' = PushFront(lis.task, IF Victims = {} THEN Len(order) + 1 ELSE Len(order))
  /\ evicted' = evicted \cup Victims
  /\ lis' = [lis EXCEPT !.pc = IF lis.task \in Known THEN "start" ELSE "ack"]
  /\ UNCHANGED <<client, run, starts, linkVars, histVars>>

\* recall: a redelivery; the last status is taken under the lock, published later.
RecallSeen ==
  /\ lis.pc = "recall" /\ lis.task \in DOMAIN seen
  /\ order' = MoveToFront(lis.task)
  /\ lis' = [lis EXCEPT !.pc = "republish", !.status = seen[lis.task]]
  /\ UNCHANGED <<client, seen, run, starts, evicted, linkVars, histVars>>

\* publishStatus: ok when a client is attached and the broker takes the message.
Publish(t, status, ok) ==
  /\ ok => client
  /\ reported' = IF ok THEN [reported EXCEPT ![t] = @ \cup {status}] ELSE reported
-----------------------------------------------------------------------------
(* The listener and the workers *)

\* listenNewTask answers a redelivery with the status it recalled.
Republish(ok) ==
  /\ lis.pc = "republish"
  /\ Publish(lis.task, lis.status, ok)
  /\ lis' = [lis EXCEPT !.pc = "ack"]
  /\ UNCHANGED <<client, seen, order, run, starts, evicted, linkVars, accepted, executed>>

\* msg.Ack for a redelivery or an unknown task type.
ListenerAck ==
  /\ lis.pc = "ack"
  /\ \E acked \in AckOutcome(lis) : session' = AfterAck(lis, acked)
  /\ lis' = Frame
  /\ UNCHANGED <<client, seen, order, run, starts, evicted, subscribed, gen, histVars>>

\* "started" is published, then the goroutine that calls Execute begins.
StartTask(w, ok) ==
  /\ lis.pc = "start" /\ run[w].pc = "idle"
  /\ Publish(lis.task, "started", ok)
  /\ run' = [run EXCEPT ![w] = [lis EXCEPT !.pc = "execute"]]
  /\ starts' = [starts EXCEPT ![lis.task] = @ + 1]
  /\ lis' = Frame
  /\ UNCHANGED <<client, seen, order, evicted, linkVars, accepted, executed>>

\* Execute returns, with an error or without.
ExecuteReturns(w, final) ==
  /\ run[w].pc = "execute" /\ final \in Final
  /\ run' = [run EXCEPT ![w].pc = "remember", ![w].status = final]
  /\ executed' = executed \cup {run[w].task}
  /\ UNCHANGED <<client, seen, order, lis, starts, evicted, linkVars, accepted, reported>>

\* remember: the cached status is replaced if the task is still tracked.
RememberFinal(w) ==
  /\ run[w].pc = "remember"
  /\ IF run[w].task \in DOMAIN seen
     THEN /\ seen' = [seen EXCEPT ![run[w].task] = run[w].status]
          /\ order' = MoveToFront(run[w].task)
     ELSE UNCHANGED <<seen, order>>
  /\ run' = [run EXCEPT ![w].pc = "publish"]
  /\ UNCHANGED <<client, lis, starts, evicted, linkVars, histVars>>

PublishFinal(w, ok) ==
  /\ run[w].pc = "publish"
  /\ Publish(run[w].task, run[w].status, ok)
  /\ run' = [run EXCEPT ![w].pc = "ack"]
  /\ UNCHANGED <<client, seen, order, lis, starts, evicted, linkVars, accepted, executed>>

WorkerAck(w) ==
  /\ run[w].pc = "ack"
  /\ \E acked \in AckOutcome(run[w]) : session' = AfterAck(run[w], acked)
  /\ run' = [run EXCEPT ![w] = Frame]
  /\ UNCHANGED <<client, seen, order, lis, starts, evicted, subscribed, gen, histVars>>
-----------------------------------------------------------------------------
Listener ==
  \/ \E m \in session : Deliver(m)
  \/ RecallNew \/ RecallSeen
  \/ \E ok \in BOOLEAN : Republish(ok)
  \/ \E w \in Workers, ok \in BOOLEAN : StartTask(w, ok)
  \/ ListenerAck

Worker(w) ==
  \/ \E final \in Final : ExecuteReturns(w, final)
  \/ RememberFinal(w)
  \/ \E ok \in BOOLEAN : PublishFinal(w, ok)
  \/ WorkerAck(w)

Next ==
  \/ \E t \in Tasks : Accept(t)
  \/ Listener
  \/ \E w \in Workers : Worker(w)
  \/ Reconnect \/ Crash \/ AttachClient

Spec == Init /\ [][Next]_vars

\* The connection stays up long enough for the broker to deliver, the goroutines are
\* scheduled, and every Execute returns: the driver's calls end (SlamtecDriver), and a
\* jack task names a direction, for without one JackHandler waits until it is cancelled.
\* Each of them takes finitely many steps, so one condition serves all.
Goroutines == Listener \/ AttachClient \/ \E w \in Workers : Worker(w)
FairSpec == Spec /\ WF_vars(Goroutines)
-----------------------------------------------------------------------------
(* Properties *)

\* The map and the list of the cache stay the same set, within the bound.
CacheConsistent ==
  /\ DOMAIN seen = {order[i] : i \in DOMAIN order}
  /\ \A i, j \in DOMAIN order : order[i] = order[j] => i = j
  /\ Len(order) <= MaxTracked

\* Duplicate delivery executes once: a process calls Execute a second time for a
\* task only after it had to evict the task from its bounded cache.
ExecutedOnceUnlessEvicted == \A t \in Tasks : starts[t] > 1 => t \in evicted

\* The message of a task that can run stays with the broker until Execute has
\* returned: whatever crash comes before, the task is delivered again.
HeldUntilExecuted ==
  \A t \in accepted \cap Known :
    t \in executed \/ \E m \in session : m.task = t

\* While the process lives no accepted task is dropped: it is executed, being
\* executed, or still with the broker.
HeldOrRunning ==
  \A t \in accepted \cap Known :
    \/ t \in executed
    \/ \E m \in session : m.task = t
    \/ \E w \in Workers : run[w].pc = "execute" /\ run[w].task = t

\* Both, each as long as the fault that breaks it has not come: a message queued once
\* outlives every crash before the first reconnect, and no reconnect loses a task before
\* the first crash.
TasksAreHeld ==
  /\ (MaxCopies = 1 /\ gen.reconnects = 0) => HeldUntilExecuted
  /\ gen.crashes = 0 => HeldOrRunning

\* No outcome is reported for a task whose Execute has not returned, in this process
\* or an earlier one.
OutcomeOnlyIfExecuted ==
  \A t \in Tasks : reported[t] \cap Final # {} => t \in executed

\* Every task the broker queued is executed in the end, through crashes or reconnects; a
\* redelivery acknowledged while Execute runs may lose it if the process then dies.
AcceptedIsExecuted ==
  \A t \in Known :
    t \in accepted ~> (t \in executed \/ (gen.reconnects > 0 /\ gen.crashes > 0))
=============================================================================
