------------------------------- MODULE Presence -------------------------------
(***************************************************************************)
(* Which agents core believes to be online: the retained lifecycle events  *)
(* of pkg/agentsdk's Agent and its will, telemetry as a further sign of    *)
(* life, and core's AgentRegistry, which forgets an agent it has not heard *)
(* of for two minutes.  One agent: agents share no state in any of it.     *)
(*                                                                         *)
(* handleConnect runs in a goroutine of its own for each connection, waits *)
(* for every publish, and may still run when Stop is called.  paho (here:  *)
(* outbox) keeps QoS 1 messages and sends them in order once connected;    *)
(* the broker stores one retained event and notices a dead connection      *)
(* late.  Core's session is clean: what is on its way when it is cut off   *)
(* is lost.  Telemetry waits in the ingest queue, events do not.           *)
(***************************************************************************)
EXTENDS Naturals, Sequences, SequencesExt

CONSTANTS
  Stale,       \* mqttPresenceStaleAfter, in ticks
  MaxConns,    \* bound: connections of the agent
  MaxCoreCuts, \* bound: times core loses its connection, restarts of the broker included
  MaxReports   \* bound: telemetry messages

ASSUME PresenceAssumption ==
  Stale \in Nat \ {0} /\ MaxConns \in Nat /\ MaxCoreCuts \in Nat /\ MaxReports \in Nat

Conns == 1..MaxConns
AliveEvents == {"online", "registered"}   \* the events that mark an agent alive
Never == Stale                   \* an agent never seen counts as one seen too long ago

VARIABLES
  link,      \* agent's connection: "off", "on", and "dead" while the broker has not noticed
  conns,     \* connections so far
  once,      \* Agent.connectedOnce
  hook,      \* hook[k] is what connection k's handleConnect does next
  stopping,  \* Agent.Stop: "no", "publish", "wait", "over"; "crashed" for a process that is gone
  outbox,    \* paho: QoS 1 messages not yet acknowledged
  retained,  \* broker: the retained event, or "none"
  announced, \* broker: a schema announcement is retained
  core,      \* core's connection: "off", "joining" (not subscribed yet) or "on"
  cuts,      \* times core lost its connection
  toCore,    \* messages on their way to core
  ingestq,   \* telemetry messages in the Daemon's queue
  reports,   \* telemetry messages so far
  age,       \* ticks since AgentRegistry last saw the agent
  crossed,   \* history: an event that marks the agent alive left after Stop's offline
  revived    \* history: telemetry came after the last event and found the agent offline

presenceVars == <<link, conns, once, hook, stopping, outbox, retained, announced,
                 core, cuts, toCore, ingestq, reports, age, crossed, revived>>

PresenceTypeOK ==
  /\ link \in {"off", "on", "dead"} /\ conns \in 0..MaxConns /\ once \in BOOLEAN
  /\ hook \in [Conns -> {"none", "online", "first", "registered", "hooks", "over"}]
  /\ stopping \in {"no", "publish", "wait", "over", "crashed"}
  /\ outbox \in Seq(AliveEvents \cup {"offline", "schema"})
  /\ retained \in AliveEvents \cup {"offline", "none"}
  /\ announced \in BOOLEAN
  /\ core \in {"off", "joining", "on"} /\ cuts \in 0..MaxCoreCuts
  /\ toCore \in Seq(AliveEvents \cup {"offline", "telemetry"})
  /\ ingestq \in Nat /\ reports \in 0..MaxReports /\ age \in 0..Stale
  /\ crossed \in BOOLEAN /\ revived \in BOOLEAN

PresenceInit ==
  /\ link = "off" /\ conns = 0 /\ once = FALSE /\ hook = [k \in Conns |-> "none"]
  /\ stopping = "no" /\ outbox = <<>>
  /\ retained = "none" /\ announced = FALSE
  /\ core = "off" /\ cuts = 0 /\ toCore = <<>> /\ ingestq = 0
  /\ reports = 0 /\ age = Never
  /\ crossed = FALSE /\ revived = FALSE

\* OnlineAgents: last seen less than the limit ago.
IsOnline == age < Stale

\* The broker hands a message to core if core has subscribed.
Reaching(msgs) == IF core = "on" THEN toCore \o msgs ELSE toCore

\* The token handleConnect waits for: nothing of the agent's waits to be acknowledged, or
\* there is no client any more.
Answered == outbox = <<>> \/ stopping = "over"
-----------------------------------------------------------------------------
(* Plausible bugs, each a changed form of a definition below; no run uses them, the *)
(* manifest's mutants do.                                                          *)

\* The will is delivered but not retained.
WillUnretained ==
  /\ link = "dead" /\ link' = "off"
  /\ toCore' = Reaching(<<"offline">>)
  /\ UNCHANGED <<conns, once, hook, stopping, outbox, retained, announced,
                 core, cuts, ingestq, reports, age, crossed, revived>>

\* Only the first connection publishes and announces.
HandleConnectOnce(k) ==
  /\ hook[k] = "online"
  /\ outbox' = IF once THEN outbox ELSE Append(outbox, "online")
  /\ hook' = [hook EXCEPT ![k] = IF once THEN "over" ELSE "first"]
  /\ crossed' = (crossed \/ stopping = "wait")
  /\ UNCHANGED <<link, conns, once, stopping, retained, announced, core,
                 cuts, toCore, ingestq, reports, age, revived>>

\* A registered event counts for nothing.
PresenceHandlerOnlineOnly ==
  /\ toCore # <<>> /\ Head(toCore) # "telemetry"
  /\ age' = CASE Head(toCore) = "offline" -> Never
              [] Head(toCore) = "online"  -> 0
              [] OTHER -> age
  /\ toCore' = Tail(toCore) /\ revived' = FALSE
  /\ UNCHANGED <<link, conns, once, hook, stopping, outbox, retained, announced,
                 core, cuts, ingestq, reports, crossed>>

\* Nothing grows old: an agent is offline only when told so.
TickNever == FALSE /\ UNCHANGED presenceVars
-----------------------------------------------------------------------------
(* The agent *)

\* Register, and paho's reconnects: OnConnect starts handleConnect; a connection the broker
\* still held is taken over, its will published first.
Connect ==
  /\ link # "on" /\ conns < MaxConns /\ stopping \in {"no", "publish", "wait"}
  /\ link' = "on" /\ conns' = conns + 1
  /\ hook' = [hook EXCEPT ![conns + 1] = "online"]
  /\ retained' = IF link = "dead" THEN "offline" ELSE retained
  /\ toCore' = IF link = "dead" THEN Reaching(<<"offline">>) ELSE toCore
  /\ UNCHANGED <<once, stopping, outbox, announced, core, cuts, ingestq,
                 reports, age, crossed, revived>>

\* handleConnect: "online" is published on every connection; without a client it is not.
PublishOnline(k) ==
  /\ hook[k] = "online"
  /\ outbox' = IF stopping = "over" THEN outbox ELSE Append(outbox, "online")
  /\ hook' = [hook EXCEPT ![k] = "first"]
  /\ crossed' = (crossed \/ stopping = "wait")
  /\ UNCHANGED <<link, conns, once, stopping, retained, announced, core,
                 cuts, toCore, ingestq, reports, age, revived>>

\* The flag is tested and set under the lock, once the publish is acknowledged.
TestFirst(k) ==
  /\ hook[k] = "first" /\ Answered
  /\ once' = TRUE
  /\ hook' = [hook EXCEPT ![k] = IF once THEN "hooks" ELSE "registered"]
  /\ UNCHANGED <<link, conns, stopping, outbox, retained, announced, core,
                 cuts, toCore, ingestq, reports, age, crossed, revived>>

PublishRegistered(k) ==
  /\ hook[k] = "registered"
  /\ outbox' = IF stopping = "over" THEN outbox ELSE Append(outbox, "registered")
  /\ hook' = [hook EXCEPT ![k] = "hooks"]
  /\ crossed' = (crossed \/ stopping = "wait")
  /\ UNCHANGED <<link, conns, once, stopping, retained, announced, core,
                 cuts, toCore, ingestq, reports, age, revived>>

\* Once that is acknowledged the task listener is started, which TaskManager models, and
\* the hooks are run: PublishSchema.
RunHooks(k) ==
  /\ hook[k] = "hooks" /\ Answered
  /\ outbox' = IF stopping = "over" THEN outbox ELSE Append(outbox, "schema")
  /\ hook' = [hook EXCEPT ![k] = "over"]
  /\ UNCHANGED <<link, conns, once, stopping, retained, announced, core,
                 cuts, toCore, ingestq, reports, age, crossed, revived>>

\* Telemetry's Publish, QoS 0: lost unless connected.
Report ==
  /\ link = "on" /\ reports < MaxReports /\ reports' = reports + 1
  /\ toCore' = Reaching(<<"telemetry">>)
  /\ UNCHANGED <<link, conns, once, hook, stopping, outbox, retained, announced,
                 core, cuts, ingestq, age, crossed, revived>>

\* Stop publishes "offline" and waits for it; unconnected, until the next connection.
StopAgent ==
  /\ stopping = "no" /\ conns > 0
  /\ stopping' = "wait"
  /\ outbox' = Append(outbox, "offline")
  /\ UNCHANGED <<link, conns, once, hook, retained, announced, core, cuts,
                 toCore, ingestq, reports, age, crossed, revived>>

\* Then it disconnects: no will is sent, and what still waited to be sent is not.
Disconnect ==
  /\ stopping = "wait" /\ "offline" \notin ToSet(outbox)
  /\ stopping' = "over" /\ outbox' = <<>>
  /\ link' = IF link = "on" THEN "off" ELSE link
  /\ UNCHANGED <<conns, once, hook, retained, announced, core, cuts, toCore,
                 ingestq, reports, age, crossed, revived>>

\* The process dies: its goroutines and messages with it.
Crash ==
  /\ stopping \in {"no", "wait"} /\ conns > 0
  /\ stopping' = "crashed" /\ outbox' = <<>>
  /\ hook' = [k \in Conns |-> IF hook[k] = "none" THEN "none" ELSE "over"]
  /\ link' = IF link = "on" THEN "dead" ELSE link
  /\ UNCHANGED <<conns, once, retained, announced, core, cuts, toCore,
                 ingestq, reports, age, crossed, revived>>
-----------------------------------------------------------------------------
(* The broker *)

\* The first message of the outbox arrives and is acknowledged; events are retained.
Deliver ==
  /\ link = "on" /\ outbox # <<>>
  /\ LET e == Head(outbox) IN
       /\ IF e = "schema" THEN announced' = TRUE /\ UNCHANGED retained
                          ELSE retained' = e /\ UNCHANGED announced
       /\ toCore' = IF e = "schema" THEN toCore ELSE Reaching(<<e>>)
  /\ outbox' = Tail(outbox)
  /\ UNCHANGED <<link, conns, once, hook, stopping, core, cuts, ingestq,
                 reports, age, crossed, revived>>

LoseConnection ==
  /\ link = "on" /\ link' = "dead"
  /\ UNCHANGED <<conns, once, hook, stopping, outbox, retained, announced,
                 core, cuts, toCore, ingestq, reports, age, crossed, revived>>

\* The broker notices a dead connection and publishes its will, retained.
SendWill ==
  /\ link = "dead" /\ link' = "off"
  /\ retained' = "offline" /\ toCore' = Reaching(<<"offline">>)
  /\ UNCHANGED <<conns, once, hook, stopping, outbox, announced, core, cuts,
                 ingestq, reports, age, crossed, revived>>

\* A broker without persistence restarts: retained messages and sessions are gone.
BrokerRestarts ==
  /\ cuts < MaxCoreCuts /\ cuts' = cuts + 1
  /\ link' = "off" /\ retained' = "none" /\ announced' = FALSE
  /\ core' = "off" /\ toCore' = <<>>
  /\ UNCHANGED <<conns, once, hook, stopping, outbox, ingestq, reports, age, crossed, revived>>
-----------------------------------------------------------------------------
(* Core *)

CoreConnects ==
  /\ core = "off" /\ core' = "joining"
  /\ UNCHANGED <<link, conns, once, hook, stopping, outbox, retained, announced,
                 cuts, toCore, ingestq, reports, age, crossed, revived>>

\* OnConnect subscribes: the retained event comes at once (announcements: TelemetryContract).
Subscribe ==
  /\ core = "joining" /\ core' = "on"
  /\ toCore' = IF retained = "none" THEN <<>> ELSE <<retained>>
  /\ UNCHANGED <<link, conns, once, hook, stopping, outbox, retained, announced,
                 cuts, ingestq, reports, age, crossed, revived>>

CoreLosesConnection ==
  /\ core = "on" /\ cuts < MaxCoreCuts
  /\ core' = "off" /\ cuts' = cuts + 1 /\ toCore' = <<>>
  /\ UNCHANGED <<link, conns, once, hook, stopping, outbox, retained, announced,
                 ingestq, reports, age, crossed, revived>>

\* presenceHandler, on paho's dispatch goroutine.
PresenceHandler ==
  /\ toCore # <<>> /\ Head(toCore) # "telemetry"
  /\ age' = IF Head(toCore) = "offline" THEN Never ELSE 0
  /\ toCore' = Tail(toCore) /\ revived' = FALSE
  /\ UNCHANGED <<link, conns, once, hook, stopping, outbox, retained, announced,
                 core, cuts, ingestq, reports, crossed>>

\* Daemon.handle, on the same goroutine: telemetry is queued.
QueueReport ==
  /\ toCore # <<>> /\ Head(toCore) = "telemetry"
  /\ ingestq' = ingestq + 1 /\ toCore' = Tail(toCore)
  /\ UNCHANGED <<link, conns, once, hook, stopping, outbox, retained, announced,
                 core, cuts, reports, age, crossed, revived>>

\* The listener startTelemetryIngest adds: telemetry marks the agent online, even after
\* its offline event has been handled.
IngestReport ==
  /\ ingestq > 0 /\ ingestq' = ingestq - 1
  /\ age' = 0 /\ revived' = (revived \/ ~IsOnline)
  /\ UNCHANGED <<link, conns, once, hook, stopping, outbox, retained, announced,
                 core, cuts, toCore, reports, crossed>>

Tick ==
  /\ age < Stale /\ age' = age + 1
  /\ UNCHANGED <<link, conns, once, hook, stopping, outbox, retained, announced,
                 core, cuts, toCore, ingestq, reports, crossed, revived>>
-----------------------------------------------------------------------------
\* What runs by itself: goroutines, the broker's and core's work, paho's reconnects.
PresenceWork ==
  \/ \E k \in Conns :
       PublishOnline(k) \/ TestFirst(k) \/ PublishRegistered(k) \/ RunHooks(k)
  \/ Disconnect \/ Deliver \/ SendWill \/ CoreConnects \/ Subscribe
  \/ PresenceHandler \/ QueueReport \/ IngestReport \/ Tick

PresenceNext ==
  \/ PresenceWork
  \/ Connect \/ Report \/ StopAgent \/ Crash \/ LoseConnection \/ BrokerRestarts
  \/ CoreLosesConnection

PresenceSpec == PresenceInit /\ [][PresenceNext]_presenceVars
-----------------------------------------------------------------------------
(* Properties *)

\* The agent runs, is connected, and everything it had to say has arrived.
Settled ==
  /\ stopping = "no" /\ link = "on" /\ outbox = <<>>
  /\ \A k \in Conns : hook[k] \in {"none", "over"}

\* What a core that connects now is told is true: an agent that is connected and has said
\* all it had to say is retained as alive and its schema as announced, also after the broker
\* lost everything; one that has no connection is not retained as alive, unless a
\* handleConnect crossed its Stop.
RetainedIsTrue ==
  /\ Settled => retained \in AliveEvents /\ announced
  /\ (link = "off" /\ ~crossed) => retained \notin AliveEvents

\* Events are handled in the order the broker retained them: once the last of them is
\* handled core has the agent offline if the event said so, unless telemetry that was still
\* queued has revived it.
OfflineIsHeard ==
  (core = "on" /\ retained = "offline" /\ toCore = <<>> /\ ~revived) => ~IsOnline

\* However the handleConnects of old and new connections overlap, one of them announces the
\* agent: while it does, the flag keeps every other from doing so.
OneAnnounces ==
  \A k \in Conns : hook[k] = "registered" =>
    once /\ \A j \in Conns : hook[j] = "registered" => j = k

\* A core that joins while the agent is settled comes to see it online.
JoiningSeesAgent ==
  (core = "joining" /\ Settled) ~> (IsOnline \/ core = "off" \/ ~Settled)

\* An agent that is gone is offline before long, however it went, late telemetry, a crossed
\* Stop and core's own connection notwithstanding.
GoneIsOffline == (stopping \in {"over", "crashed"}) ~> [](~IsOnline)

\* The type, what is retained, who announces and what core makes of it, together.
PresenceSound == PresenceTypeOK /\ RetainedIsTrue /\ OneAnnounces /\ OfflineIsHeard

\* Core's picture follows the agent, when it is there and when it is gone.
PresenceFollows == JoiningSeesAgent /\ GoneIsOffline
=============================================================================
