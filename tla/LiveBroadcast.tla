---------------------------- MODULE LiveBroadcast ----------------------------
(***************************************************************************)
(* The live view: GET /telemetry/live subscribes a channel of capacity one *)
(* with the Broadcaster and writes what it receives to the browser;        *)
(* Publish, called from the ingest daemon's one consumer goroutine, goes   *)
(* over an agent's channels under the Broadcaster's lock and replaces what *)
(* a viewer has not read.  A viewer reads without the lock.                *)
(***************************************************************************)
EXTENDS Naturals, Sequences, FiniteSets

CONSTANTS
  Viewers,
  Slow,         \* viewers whose connection may take no more bytes
  LiveAgents,   \* agents that are watched
  MaxPublishes  \* bound: payloads, numbered from 1

ASSUME LiveAssumption == Slow \subseteq Viewers /\ LiveAgents # {} /\ MaxPublishes \in Nat

VARIABLES
  viewer,     \* handleLive of each viewer: [pc, agent, since, shown]
  channel,    \* the viewer's channel
  subs,       \* Broadcaster.subs: agent -> viewers
  publishing, \* Publish: its payload, the viewers to visit, the one just drained
  latest      \* agent -> the last payload published for it

liveVars == <<viewer, channel, subs, publishing, latest>>

Payloads == 0..MaxPublishes
NoViewer == {}
Idle == [payload |-> 0, agent |-> CHOOSE a \in LiveAgents : TRUE, todo |-> {}, drained |-> NoViewer]
Unlocked == publishing.todo = {} /\ publishing.drained = NoViewer

LiveTypeOK ==
  /\ viewer \in [Viewers -> [pc : {"out", "subscribe", "watch", "refused", "gone", "left"},
                             agent : LiveAgents, since : Payloads, shown : Payloads]]
  /\ \A v \in Viewers : Len(channel[v]) <= 1
  /\ subs \in [LiveAgents -> SUBSET Viewers] /\ latest \in [LiveAgents -> Payloads]

LiveInit ==
  /\ viewer = [v \in Viewers |-> [pc |-> "out", agent |-> Idle.agent, since |-> 0, shown |-> 0]]
  /\ channel = [v \in Viewers |-> <<>>] /\ subs = [a \in LiveAgents |-> {}]
  /\ publishing = Idle /\ latest = [a \in LiveAgents |-> 0]

Is(v, pc) == viewer[v].pc = pc
ViewerTo(v, pc) == viewer' = [viewer EXCEPT ![v].pc = pc]
-----------------------------------------------------------------------------
(* Plausible bugs *)

\* What a viewer has not read stays, the newer payload is dropped.
PublishToIfEmpty(v) ==
  /\ v \in publishing.todo
  /\ channel' = [channel EXCEPT ![v] = IF @ = <<>> THEN <<publishing.payload>> ELSE @]
  /\ publishing' = [publishing EXCEPT !.todo = @ \ {v}]
  /\ UNCHANGED <<viewer, subs, latest>>

\* A viewer that leaves takes the agent's other viewers with it.
UnsubscribeAgent(v) ==
  /\ Is(v, "gone") /\ Unlocked
  /\ subs' = [subs EXCEPT ![viewer[v].agent] = {}] /\ ViewerTo(v, "left")
  /\ UNCHANGED <<channel, publishing, latest>>
-----------------------------------------------------------------------------
\* handleLive: an operator's token and an agent id, or nothing.
HandleLive(v, agent) ==
  /\ Is(v, "out")
  /\ \E pc \in {"subscribe", "refused"} :
       viewer' = [viewer EXCEPT ![v].pc = pc, ![v].agent = agent]
  /\ UNCHANGED <<channel, subs, publishing, latest>>

Subscribe(v) ==
  /\ Is(v, "subscribe") /\ Unlocked
  /\ subs' = [subs EXCEPT ![viewer[v].agent] = @ \cup {v}]
  /\ viewer' = [viewer EXCEPT ![v].pc = "watch", ![v].since = latest[viewer[v].agent]]
  /\ UNCHANGED <<channel, publishing, latest>>

\* Publish takes the lock.
BeginPublish(agent) ==
  /\ Unlocked /\ publishing.payload < MaxPublishes
  /\ publishing' = [payload |-> publishing.payload + 1, agent |-> agent,
                    todo |-> subs[agent], drained |-> NoViewer]
  /\ latest' = [latest EXCEPT ![agent] = publishing'.payload]
  /\ UNCHANGED <<viewer, channel, subs>>

\* Its first select: the payload is sent, or what is unread is taken out.
PublishTo(v) ==
  /\ v \in publishing.todo /\ publishing.drained = NoViewer
  /\ IF channel[v] = <<>>
     THEN /\ channel' = [channel EXCEPT ![v] = <<publishing.payload>>]
          /\ publishing' = [publishing EXCEPT !.todo = @ \ {v}]
     ELSE /\ channel' = [channel EXCEPT ![v] = <<>>]
          /\ publishing' = [publishing EXCEPT !.todo = @ \ {v}, !.drained = {v}]
  /\ UNCHANGED <<viewer, subs, latest>>

\* Its last select.  Nobody else sends, so the channel is still empty.
PublishAgain(v) ==
  /\ v \in publishing.drained /\ publishing' = [publishing EXCEPT !.drained = NoViewer]
  /\ channel' = IF channel[v] = <<>> THEN [channel EXCEPT ![v] = <<publishing.payload>>] ELSE channel
  /\ UNCHANGED <<viewer, subs, latest>>

\* The viewer's loop writes a payload, at any time.
Show(v) ==
  /\ Is(v, "watch") /\ channel[v] # <<>>
  /\ viewer' = [viewer EXCEPT ![v].shown = Head(channel[v])]
  /\ channel' = [channel EXCEPT ![v] = <<>>]
  /\ UNCHANGED <<subs, publishing, latest>>

BrowserLeaves(v) ==
  /\ Is(v, "watch") /\ ViewerTo(v, "gone")
  /\ UNCHANGED <<channel, subs, publishing, latest>>

\* The deferred unsubscribe.
Unsubscribe(v) ==
  /\ Is(v, "gone") /\ Unlocked
  /\ subs' = [subs EXCEPT ![viewer[v].agent] = @ \ {v}] /\ ViewerTo(v, "left")
  /\ UNCHANGED <<channel, publishing, latest>>

Publish == \E v \in Viewers : PublishTo(v) \/ PublishAgain(v)
Watch == \E v \in Viewers \ Slow : Show(v)

LiveNext ==
  \/ Publish
  \/ \E a \in LiveAgents : BeginPublish(a) \/ \E v \in Viewers : HandleLive(v, a)
  \/ \E v \in Viewers : Subscribe(v) \/ Show(v) \/ BrowserLeaves(v) \/ Unsubscribe(v)

LiveSpec == LiveInit /\ [][LiveNext]_liveVars
-----------------------------------------------------------------------------
(* Properties *)

\* A viewer is shown payloads of its agent that are newer than its subscription, each
\* newer than the one before; one that has left is in no agent's set, so nothing leaks.
LiveSound ==
  /\ LiveTypeOK
  /\ \A v \in Viewers :
       /\ channel[v] # <<>> => Head(channel[v]) > viewer[v].shown /\ Head(channel[v]) > viewer[v].since
       /\ Is(v, "watch") = (v \in subs[viewer[v].agent]) \/ Is(v, "gone")
       /\ \A a \in LiveAgents \ {viewer[v].agent} : v \notin subs[a]

\* Publish never waits for a viewer, however slow, and a viewer that keeps reading comes to
\* be shown the last payload of its agent.
LatestIsShown ==
  <>[](Unlocked /\ \A v \in Viewers \ Slow :
         (Is(v, "watch") /\ viewer[v].since < latest[viewer[v].agent])
           => viewer[v].shown = latest[viewer[v].agent])
=============================================================================
