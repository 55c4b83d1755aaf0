--------------------------- MODULE TelemetryProofs ---------------------------
(***************************************************************************)
(* Proofs about the telemetry path of core: the live view, the pipeline    *)
(* from paho to Postgres and the queries, for any number of viewers,       *)
(* agents, messages and rows and for every size of the queues, the batch,  *)
(* the retries, the pages and the buckets.                                 *)
(***************************************************************************)
EXTENDS TelemetryPipeline, LiveBroadcast, QueryPaging, FiniteSetTheorems, SequenceLemmas

-----------------------------------------------------------------------------
(* The live view *)

\* A viewer's channel holds at most one payload.
Slot == {<<>>} \cup {<<p>> : p \in Payloads}
Stages == {"out", "subscribe", "watch", "refused", "gone", "left"}
LiveTypes ==
  /\ viewer \in [Viewers -> [pc : Stages, agent : LiveAgents, since : Payloads, shown : Payloads]]
  /\ channel \in [Viewers -> Slot]
  /\ subs \in [LiveAgents -> SUBSET Viewers] /\ latest \in [LiveAgents -> Payloads]
  /\ publishing \in [payload : Payloads, agent : LiveAgents, todo : SUBSET Viewers,
                     drained : SUBSET Viewers]

\* The lock is held for viewers of one agent, who stay subscribed until it is let go; what
\* they have, were shown or began with is older than the payload on its way, and nobody
\* else fills a channel that Publish has drained.
LockInv ==
  /\ publishing.todo \cup publishing.drained \subseteq subs[publishing.agent]
  /\ publishing.todo \cap publishing.drained = {}
  /\ \A v \in publishing.drained : channel[v] = <<>>
  /\ \A v \in publishing.todo \cup publishing.drained :
       /\ viewer[v].shown < publishing.payload /\ viewer[v].since < publishing.payload
       /\ channel[v] # <<>> => Head(channel[v]) < publishing.payload

\* No payload is newer than the one published last.
NewestInv ==
  /\ \A a \in LiveAgents : latest[a] <= publishing.payload
  /\ \A v \in Viewers : /\ viewer[v].shown <= publishing.payload
                        /\ viewer[v].since <= publishing.payload
                        /\ channel[v] # <<>> => Head(channel[v]) <= publishing.payload

\* A viewer that is not subscribed yet has nothing; one that is watches or is leaving, and
\* is among the viewers of its own agent only.  What waits for it is news.
ViewerInv ==
  \A v \in Viewers :
    /\ viewer[v].pc \in {"out", "subscribe", "refused"} => channel[v] = <<>> /\ viewer[v].shown = 0
    /\ \A a \in LiveAgents : v \in subs[a] => a = viewer[v].agent /\ viewer[v].pc \in {"watch", "gone"}
    /\ viewer[v].pc \in {"watch", "gone"} => v \in subs[viewer[v].agent]
    /\ channel[v] # <<>> => Head(channel[v]) > viewer[v].shown /\ Head(channel[v]) > viewer[v].since

\* The inductive invariant of the live view.
LiveInv == LiveTypes /\ LockInv /\ NewestInv /\ ViewerInv

\* It says all that the model's own invariant says.
LEMMA LiveInvIsSound == LiveInv => LiveSound
<1> SUFFICES ASSUME LiveInv PROVE LiveSound
  OBVIOUS
<1>1. ASSUME NEW v \in Viewers PROVE Len(channel[v]) <= 1
  <2>1. CASE channel[v] = <<>>
    BY <2>1, EmptySeq
  <2>2. CASE \E p \in Payloads : channel[v] = <<p>>
    BY <2>2
  <2>3. QED
    BY <2>1, <2>2 DEF LiveInv, LiveTypes, Slot
<1>2. LiveTypeOK
  BY <1>1 DEF LiveInv, LiveTypes, LiveTypeOK, Stages
<1>3. QED
  BY <1>2 DEF LiveInv, LiveTypes, ViewerInv, LiveSound, Is

LEMMA LiveInitInv == LiveInit => LiveInv
<1> SUFFICES ASSUME LiveInit PROVE LiveInv
  OBVIOUS
<1>1. Idle.agent \in LiveAgents /\ Idle = [payload |-> 0, agent |-> Idle.agent, todo |-> {}, drained |-> {}]
  BY LiveAssumption DEF Idle, NoViewer
<1>2. 0 \in Payloads
  BY LiveAssumption DEF Payloads
<1>3. LiveTypes
  BY <1>1, <1>2 DEF LiveInit, LiveTypes, Slot, Stages
<1>4. LockInv /\ NewestInv /\ ViewerInv
  BY <1>1 DEF LiveInit, LockInv, NewestInv, ViewerInv
<1>5. QED
  BY <1>3, <1>4 DEF LiveInv

LEMMA HandleLiveKeeps ==
  ASSUME LiveInv, NEW v \in Viewers, NEW a \in LiveAgents, HandleLive(v, a)
  PROVE  LiveInv'
<1> USE DEF LiveInv, LiveTypes, HandleLive, Is
<1>1. LiveTypes'
  <2>1. PICK pc \in {"subscribe", "refused"} : viewer' = [viewer EXCEPT ![v].pc = pc, ![v].agent = a]
    OBVIOUS
  <2>2. pc \in Stages
    BY DEF Stages
  <2> DEFINE Handlers == [pc : Stages, agent : LiveAgents, since : Payloads, shown : Payloads]
             new == [viewer[v] EXCEPT !.pc = pc, !.agent = a]
  <2>c. viewer[v] \in Handlers
    BY DEF LiveInv, LiveTypes
  <2>a. new \in Handlers
    BY <2>2, <2>c
  <2>b. viewer' = [viewer EXCEPT ![v] = new]
    BY <2>1
  <2>3. viewer' \in [Viewers -> [pc : Stages, agent : LiveAgents, since : Payloads, shown : Payloads]]
    <3> HIDE DEF new
    <3>1. QED BY <2>a, <2>b
  <2>4. QED
    BY <2>3
<1>2. LockInv'
  BY DEF LockInv
<1>3. NewestInv'
  BY DEF NewestInv
<1>4. ViewerInv'
  BY DEF ViewerInv
<1>5. QED
  BY <1>1, <1>2, <1>3, <1>4

LEMMA SubscribeKeeps ==
  ASSUME LiveInv, NEW v \in Viewers, Subscribe(v)
  PROVE  LiveInv'
<1> USE DEF LiveInv, LiveTypes, Subscribe, Is
<1>1. LiveTypes'
  BY ZenonT(30) DEF Stages
<1>2. LockInv'
  BY DEF LockInv, Unlocked, NoViewer
<1>3. NewestInv'
  BY DEF NewestInv
<1>4. ViewerInv'
  BY DEF ViewerInv
<1>5. QED
  BY <1>1, <1>2, <1>3, <1>4

LEMMA BeginPublishKeeps ==
  ASSUME LiveInv, NEW a \in LiveAgents, BeginPublish(a)
  PROVE  LiveInv'
<1> DEFINE next == publishing.payload + 1
<1>1. next \in Payloads /\ \A p \in Payloads : p <= publishing.payload => p < next
  BY LiveAssumption DEF LiveInv, LiveTypes, BeginPublish, Payloads
<1>2. /\ publishing'.payload = next /\ publishing'.agent = a
      /\ publishing'.todo = subs[a] /\ publishing'.drained = {}
      /\ publishing' \in [payload : Payloads, agent : LiveAgents, todo : SUBSET Viewers,
                          drained : SUBSET Viewers]
  BY <1>1 DEF LiveInv, LiveTypes, BeginPublish, NoViewer
<1>3. latest' = [latest EXCEPT ![a] = next] /\ UNCHANGED <<viewer, channel, subs>>
  BY <1>2 DEF BeginPublish
<1> HIDE DEF next
<1>4. LiveTypes'
  BY <1>1, <1>2, <1>3 DEF LiveInv, LiveTypes
<1>5. \A v \in Viewers : channel[v] # <<>> => Head(channel[v]) \in Payloads
  BY DEF LiveInv, LiveTypes, Slot
<1>6. \A v \in Viewers :
        /\ viewer[v].shown < next /\ viewer[v].since < next
        /\ channel[v] # <<>> => Head(channel[v]) < next
  BY <1>1, <1>5 DEF LiveInv, LiveTypes, NewestInv
<1>7. LockInv'
  BY <1>2, <1>3, <1>6 DEF LiveInv, LiveTypes, LockInv
<1>8. \A p \in Payloads : p < next => p <= next
  BY <1>1 DEF Payloads
<1>9. NewestInv'
  <2>1. \A b \in LiveAgents : latest'[b] <= publishing'.payload
    BY <1>1, <1>2, <1>3, <1>8 DEF LiveInv, LiveTypes, NewestInv, Payloads
  <2>2. QED
    BY <2>1, <1>2, <1>3, <1>5, <1>6, <1>8 DEF LiveInv, LiveTypes, NewestInv
<1>10. ViewerInv'
  BY <1>3 DEF LiveInv, ViewerInv
<1>11. QED
  BY <1>4, <1>7, <1>9, <1>10 DEF LiveInv

\* Publish fills or drains the channel of one viewer.
LEMMA PublishStepKeeps ==
  ASSUME LiveInv, NEW v \in Viewers, PublishTo(v) \/ PublishAgain(v)
  PROVE  LiveInv'
<1> DEFINE Publishings == [payload : Payloads, agent : LiveAgents, todo : SUBSET Viewers,
                          drained : SUBSET Viewers]
           Held == publishing.todo \cup publishing.drained
<1>a. publishing \in Publishings /\ publishing.todo \cap publishing.drained = {}
  BY DEF LiveInv, LiveTypes, LockInv
<1>1. /\ v \in publishing.todo \cup publishing.drained
      /\ UNCHANGED <<viewer, subs, latest>>
      /\ publishing'.payload = publishing.payload /\ publishing'.agent = publishing.agent
      /\ publishing' \in Publishings
  <2>1. CASE PublishTo(v)
    <3>1. CASE channel[v] = <<>>
      BY <1>a, <2>1, <3>1 DEF PublishTo
    <3>2. CASE channel[v] # <<>>
      <4>1. /\ v \in publishing.todo /\ UNCHANGED <<viewer, subs, latest>>
            /\ publishing' = [publishing EXCEPT !.todo = @ \ {v}, !.drained = {v}]
        BY <2>1, <3>2 DEF PublishTo
      <4>2. /\ publishing'.payload = publishing.payload /\ publishing'.agent = publishing.agent
            /\ publishing' \in Publishings
        BY <1>a, <4>1
      <4>3. QED
        BY <4>1, <4>2
    <3>3. QED
      BY <3>1, <3>2
  <2>2. CASE PublishAgain(v)
    BY <1>a, <2>2 DEF PublishAgain, NoViewer
  <2>3. QED
    BY <2>1, <2>2
<1>2. \/ /\ channel' = [channel EXCEPT ![v] = <<publishing.payload>>]
         /\ publishing'.todo \cup publishing'.drained \subseteq (publishing.todo \cup publishing.drained) \ {v}
         /\ publishing'.todo \cap publishing'.drained = {}
         /\ publishing'.drained = {}
      \/ /\ channel' = [channel EXCEPT ![v] = <<>>]
         /\ publishing'.todo \cup publishing'.drained \subseteq publishing.todo \cup publishing.drained
         /\ publishing'.todo \cap publishing'.drained = {}
         /\ publishing'.drained = {v}
  <2>1. CASE PublishTo(v)
    <3>1. CASE channel[v] = <<>>
      <4>1. publishing'.todo = publishing.todo \ {v} /\ publishing'.drained = {}
        BY <1>a, <2>1, <3>1 DEF PublishTo, NoViewer
      <4>2. channel' = [channel EXCEPT ![v] = <<publishing.payload>>]
        BY <2>1, <3>1 DEF PublishTo
      <4>3. QED
        BY <4>1, <4>2
    <3>2. CASE channel[v] # <<>>
      <4>1. publishing'.todo = publishing.todo \ {v} /\ publishing'.drained = {v}
        BY <1>a, <2>1, <3>2 DEF PublishTo
      <4>2. channel' = [channel EXCEPT ![v] = <<>>]
        BY <2>1, <3>2 DEF PublishTo
      <4>3. QED
        BY <1>1, <4>1, <4>2
    <3>3. QED
      BY <3>1, <3>2
  <2>2. CASE PublishAgain(v)
    BY <2>2 DEF LiveInv, LiveTypes, LockInv, PublishAgain, NoViewer
  <2>3. QED
    BY <2>1, <2>2
<1>3. /\ channel' \in [Viewers -> Slot]
      /\ \A u \in Viewers : u # v => channel'[u] = channel[u]
      /\ channel'[v] # <<>> => Head(channel'[v]) = publishing.payload
  BY <1>2, SMTT(30) DEF LiveInv, LiveTypes, Slot
<1>4. LiveTypes'
  BY <1>1, <1>3 DEF LiveInv, LiveTypes
<1>5. LockInv'
  <2>1. publishing'.todo \cup publishing'.drained \subseteq publishing.todo \cup publishing.drained
    BY <1>2
  <2>2. \A u \in publishing'.drained : channel'[u] = <<>>
    BY <1>2 DEF LiveInv, LiveTypes
  <2>3. ASSUME NEW u \in publishing'.todo \cup publishing'.drained, channel'[u] # <<>>
        PROVE  u # v
    BY <2>3, <1>2 DEF LiveInv, LiveTypes
  <2>4. QED
    BY <2>1, <2>2, <2>3, <1>1, <1>2, <1>3 DEF LiveInv, LiveTypes, LockInv
<1>6. publishing.payload <= publishing.payload
  BY DEF LiveInv, LiveTypes, Payloads
<1>7. NewestInv'
  BY <1>1, <1>3, <1>6 DEF LiveInv, LiveTypes, NewestInv
<1>8. /\ v \in subs[viewer[v].agent] /\ viewer[v].pc \in {"watch", "gone"}
      /\ publishing.payload > viewer[v].shown /\ publishing.payload > viewer[v].since
  BY <1>1 DEF LiveInv, LiveTypes, LockInv, ViewerInv, Payloads
<1>9. ViewerInv'
  BY <1>1, <1>3, <1>8 DEF LiveInv, LiveTypes, ViewerInv
<1>10. QED
  BY <1>4, <1>5, <1>7, <1>9 DEF LiveInv

LEMMA ShowKeeps ==
  ASSUME LiveInv, NEW v \in Viewers, Show(v)
  PROVE  LiveInv'
<1> DEFINE p == Head(channel[v])
<1>1. p \in Payloads /\ channel[v] # <<>> /\ viewer[v].pc = "watch"
  BY DEF LiveInv, LiveTypes, Slot, Show, Is
<1>2. /\ viewer' = [viewer EXCEPT ![v].shown = p]
      /\ channel' = [channel EXCEPT ![v] = <<>>]
      /\ UNCHANGED <<subs, publishing, latest>>
  BY DEF Show
<1> HIDE DEF p
<1>3. LiveTypes'
  BY <1>1, <1>2 DEF LiveInv, LiveTypes, Slot
<1>4. v \in publishing.todo \cup publishing.drained => p < publishing.payload
  BY <1>1 DEF LiveInv, LockInv, p
<1>5. LockInv'
  BY <1>1, <1>2, <1>4 DEF LiveInv, LiveTypes, LockInv
<1>6. p <= publishing.payload
  BY <1>1 DEF LiveInv, NewestInv, p
<1>7. NewestInv'
  BY <1>1, <1>2, <1>6 DEF LiveInv, LiveTypes, NewestInv
<1>8. ViewerInv'
  BY <1>1, <1>2 DEF LiveInv, LiveTypes, ViewerInv
<1>9. QED
  BY <1>3, <1>5, <1>7, <1>8 DEF LiveInv

LEMMA BrowserLeavesKeeps ==
  ASSUME LiveInv, NEW v \in Viewers, BrowserLeaves(v)
  PROVE  LiveInv'
<1> USE DEF LiveInv, LiveTypes, BrowserLeaves, Is, ViewerTo
<1>1. LiveTypes'
  BY DEF Stages
<1>2. LockInv'
  BY DEF LockInv
<1>3. NewestInv'
  BY DEF NewestInv
<1>4. ViewerInv'
  BY DEF ViewerInv
<1>5. QED
  BY <1>1, <1>2, <1>3, <1>4

LEMMA UnsubscribeKeeps ==
  ASSUME LiveInv, NEW v \in Viewers, Unsubscribe(v)
  PROVE  LiveInv'
<1> USE DEF LiveInv, LiveTypes, Unsubscribe, Is, ViewerTo
<1>1. LiveTypes'
  BY DEF Stages
<1>2. LockInv'
  BY DEF LockInv, Unlocked, NoViewer
<1>3. NewestInv'
  BY DEF NewestInv
<1>4. ViewerInv'
  BY DEF ViewerInv
<1>5. QED
  BY <1>1, <1>2, <1>3, <1>4

LEMMA LiveStep == LiveInv /\ [LiveNext]_liveVars => LiveInv'
<1> SUFFICES ASSUME LiveInv, [LiveNext]_liveVars PROVE LiveInv'
  OBVIOUS
<1>1. CASE Publish
  BY <1>1, PublishStepKeeps DEF Publish
<1>2. CASE \E a \in LiveAgents : BeginPublish(a) \/ \E v \in Viewers : HandleLive(v, a)
  BY <1>2, BeginPublishKeeps, HandleLiveKeeps
<1>3. CASE \E v \in Viewers : Subscribe(v) \/ Show(v) \/ BrowserLeaves(v) \/ Unsubscribe(v)
  BY <1>3, SubscribeKeeps, ShowKeeps, BrowserLeavesKeeps, UnsubscribeKeeps
<1>4. CASE UNCHANGED liveVars
  BY <1>4 DEF liveVars, LiveInv, LiveTypes, LockInv, NewestInv, ViewerInv
<1>5. QED
  BY <1>1, <1>2, <1>3, <1>4 DEF LiveNext

\* However Publish, the viewers' loops, new viewers and leaving ones interleave, a viewer is
\* only shown payloads of its agent newer than its subscription and than what it was shown
\* before, and no agent keeps a viewer that has left (Broadcaster, handleLive).
THEOREM LiveViewIsSound == LiveSpec => []LiveSound
<1>1. LiveSpec => []LiveInv
  BY LiveInitInv, LiveStep, PTL DEF LiveSpec
<1>2. QED
  BY <1>1, LiveInvIsSound, PTL
-----------------------------------------------------------------------------
(* Rows of a sequence *)

Sorted(q) == \A i, j \in DOMAIN q : i < j => q[i] < q[j]
Before(early, late) == \A m \in early, n \in late : m < n

LEMMA RowsTyped ==
  ASSUME NEW S, NEW q \in Seq(S)
  PROVE  Rows(q) \subseteq S
  BY LenProperties DEF Rows

LEMMA RowsOfNone == Rows(<<>>) = {}
  BY EmptySeq DEF Rows

LEMMA RowsOfTail ==
  ASSUME NEW S, NEW q \in Seq(S), q # <<>>
  PROVE  /\ Head(q) \in S /\ Tail(q) \in Seq(S) /\ Len(q) = Len(Tail(q)) + 1
         /\ Head(q) = q[1] /\ \A i \in DOMAIN Tail(q) : i + 1 \in DOMAIN q /\ Tail(q)[i] = q[i + 1]
         /\ Rows(q) = {Head(q)} \cup Rows(Tail(q))
<1>1. /\ Head(q) \in S /\ Tail(q) \in Seq(S) /\ Len(q) = Len(Tail(q)) + 1
      /\ Head(q) = q[1] /\ Len(q) \in Nat /\ Len(Tail(q)) \in Nat
      /\ DOMAIN q = 1..Len(q) /\ DOMAIN Tail(q) = 1..Len(Tail(q))
      /\ \A i \in 1..Len(Tail(q)) : Tail(q)[i] = q[i + 1]
  BY HeadTailProperties, LenProperties, EmptySeq
<1>2. \A i \in DOMAIN Tail(q) : i + 1 \in DOMAIN q /\ Tail(q)[i] = q[i + 1]
  BY <1>1
<1>3. ASSUME NEW i \in DOMAIN q PROVE q[i] = Head(q) \/ \E k \in DOMAIN Tail(q) : q[i] = Tail(q)[k]
  <2>1. CASE i = 1
    BY <1>1, <2>1
  <2>2. CASE i # 1
    <3>1. i - 1 \in DOMAIN Tail(q) /\ (i - 1) + 1 = i
      BY <1>1, <2>2
    <3>2. QED
      BY <1>1, <3>1
  <2>3. QED
    BY <2>1, <2>2
<1>4. 1 \in DOMAIN q
  BY <1>1
<1>5. QED
  BY <1>1, <1>2, <1>3, <1>4, SMTT(30) DEF Rows

LEMMA RowsOfAppend ==
  ASSUME NEW S, NEW q \in Seq(S), NEW e \in S
  PROVE  /\ Append(q, e) \in Seq(S) /\ Len(Append(q, e)) = Len(q) + 1
         /\ DOMAIN Append(q, e) = 1..Len(q) + 1 /\ DOMAIN q = 1..Len(q)
         /\ \A i \in 1..Len(q) : Append(q, e)[i] = q[i]
         /\ Append(q, e)[Len(q) + 1] = e
         /\ Rows(Append(q, e)) = Rows(q) \cup {e}
<1>1. /\ Append(q, e) \in Seq(S) /\ Len(Append(q, e)) = Len(q) + 1 /\ Len(q) \in Nat
      /\ DOMAIN Append(q, e) = 1..Len(q) + 1 /\ DOMAIN q = 1..Len(q)
      /\ \A i \in 1..Len(q) : Append(q, e)[i] = q[i]
      /\ Append(q, e)[Len(q) + 1] = e
  BY AppendProperties, LenProperties
<1>2. \A i \in 1..Len(q) + 1 : i \in 1..Len(q) \/ i = Len(q) + 1
  BY <1>1
<1>3. 1..Len(q) \subseteq 1..Len(q) + 1 /\ Len(q) + 1 \in 1..Len(q) + 1
  BY <1>1
<1>4. QED
  BY <1>1, <1>2, <1>3 DEF Rows

LEMMA RowsOfConcat ==
  ASSUME NEW S, NEW p \in Seq(S), NEW q \in Seq(S)
  PROVE  /\ p \o q \in Seq(S) /\ DOMAIN (p \o q) = 1..Len(p) + Len(q)
         /\ DOMAIN p = 1..Len(p) /\ DOMAIN q = 1..Len(q) /\ Len(p) \in Nat /\ Len(q) \in Nat
         /\ \A i \in DOMAIN p : (p \o q)[i] = p[i]
         /\ \A k \in DOMAIN q : (p \o q)[Len(p) + k] = q[k]
         /\ \A i \in 1..Len(p) + Len(q) : i \in DOMAIN p \/ \E k \in DOMAIN q : i = Len(p) + k
         /\ Rows(p \o q) = Rows(p) \cup Rows(q)
<1>1. /\ p \o q \in Seq(S) /\ DOMAIN (p \o q) = 1..Len(p) + Len(q)
      /\ DOMAIN p = 1..Len(p) /\ DOMAIN q = 1..Len(q) /\ Len(p) \in Nat /\ Len(q) \in Nat
      /\ \A i \in 1..Len(p) + Len(q) : (p \o q)[i] = IF i <= Len(p) THEN p[i] ELSE q[i - Len(p)]
  BY ConcatProperties, LenProperties
<1>2. \A i \in DOMAIN p : i \in 1..Len(p) + Len(q) /\ (p \o q)[i] = p[i]
  BY <1>1
<1>3. ASSUME NEW k \in DOMAIN q
      PROVE  Len(p) + k \in 1..Len(p) + Len(q) /\ (p \o q)[Len(p) + k] = q[k]
  <2>1. Len(p) + k \in 1..Len(p) + Len(q) /\ ~(Len(p) + k <= Len(p)) /\ (Len(p) + k) - Len(p) = k
    BY <1>1
  <2>2. QED
    BY <1>1, <2>1
<1>4. ASSUME NEW i \in 1..Len(p) + Len(q)
      PROVE  i \in DOMAIN p \/ \E k \in DOMAIN q : i = Len(p) + k
  <2>1. i \in 1..Len(p) \/ (i - Len(p) \in 1..Len(q) /\ i = Len(p) + (i - Len(p)))
    BY <1>1
  <2>2. QED
    BY <1>1, <2>1
<1>5. Rows(p \o q) = Rows(p) \cup Rows(q)
  <2>1. ASSUME NEW i \in 1..Len(p) + Len(q) PROVE (p \o q)[i] \in Rows(p) \cup Rows(q)
    BY <1>2, <1>3, <1>4 DEF Rows
  <2>2. Rows(p) \subseteq Rows(p \o q)
    BY <1>1, <1>2 DEF Rows
  <2>3. Rows(q) \subseteq Rows(p \o q)
    BY <1>1, <1>3, ZenonT(30) DEF Rows
  <2>4. Rows(p \o q) \subseteq Rows(p) \cup Rows(q)
    BY <1>1, <2>1 DEF Rows
  <2>5. QED
    BY <2>2, <2>3, <2>4
<1>6. QED
  BY <1>1, <1>2, <1>3, <1>4, <1>5

LEMMA SortedAppend ==
  ASSUME NEW q \in Seq(Nat), NEW e \in Nat, Sorted(q), \A m \in Rows(q) : m < e
  PROVE  Sorted(Append(q, e))
<1> SUFFICES ASSUME NEW i \in DOMAIN Append(q, e), NEW j \in DOMAIN Append(q, e), i < j
             PROVE  Append(q, e)[i] < Append(q, e)[j]
  BY DEF Sorted
<1>1. Len(q) \in Nat
  BY LenProperties
<1>2. i \in 1..Len(q) /\ (j \in 1..Len(q) \/ j = Len(q) + 1)
  BY <1>1, RowsOfAppend
<1>3. CASE j \in 1..Len(q)
  BY <1>2, <1>3, RowsOfAppend DEF Sorted
<1>4. CASE j = Len(q) + 1
  BY <1>2, <1>4, RowsOfAppend DEF Rows
<1>5. QED
  BY <1>2, <1>3, <1>4

LEMMA SortedTail ==
  ASSUME NEW q \in Seq(Nat), q # <<>>, Sorted(q)
  PROVE  Sorted(Tail(q)) /\ \A m \in Rows(Tail(q)) : Head(q) < m
<1>1. DOMAIN q \subseteq Nat /\ DOMAIN Tail(q) \subseteq Nat \ {0} /\ 1 \in DOMAIN q
  BY RowsOfTail, LenProperties, EmptySeq
<1>2. ASSUME NEW i \in DOMAIN Tail(q), NEW j \in DOMAIN Tail(q), i < j
      PROVE  Tail(q)[i] < Tail(q)[j]
  <2>1. i + 1 < j + 1
    BY <1>1, <1>2
  <2>2. QED
    BY <2>1, RowsOfTail DEF Sorted
<1>3. ASSUME NEW i \in DOMAIN Tail(q) PROVE Head(q) < Tail(q)[i]
  <2>1. 1 < i + 1
    BY <1>1
  <2>2. QED
    BY <1>1, <2>1, RowsOfTail DEF Sorted
<1>4. QED
  BY <1>2, <1>3 DEF Sorted, Rows
-----------------------------------------------------------------------------
(* The pipeline from paho to Postgres *)

Points == [pc : {"select", "insert", "backoff", "stopped"}, attempt : 0..MaxRetries, final : BOOLEAN]
PipelineTypes ==
  /\ arrived \in 0..MaxMessages /\ listening \in Message \cup {NoMessage}
  /\ inDropped \in Nat /\ ingested \in Nat /\ skipped \in Nat /\ dropped \in Nat
  /\ written \in Nat /\ failed \in Nat /\ forgotten \in Nat
  /\ inq \in Seq(Message) /\ Len(inq) <= IngestQueue
  /\ stq \in Seq(Message) /\ Len(stq) <= StoreQueue
  /\ batch \in Seq(Message) /\ Len(batch) <= BatchSize
  /\ run \in Points
  /\ tick \in BOOLEAN /\ cancelled \in BOOLEAN
  /\ table \in Seq(Message) /\ settled \subseteq Message
  /\ answers \in BOOLEAN

\* Only a context that has ended makes a flush the final one; a retry is left before a
\* backoff; a full batch is not waited with.
RunInv ==
  /\ run.final => cancelled
  /\ run.pc = "select" => ~run.final /\ Len(batch) < BatchSize
  /\ run.pc = "backoff" => run.attempt < MaxRetries

\* Messages keep their order through both queues, at the listener and in the batch, and
\* nothing that is still on its way was published before a row of the table.
Listened == {listening} \ {NoMessage}
Stored == Rows(table) \cup Rows(batch)
OrderInv ==
  /\ Sorted(inq) /\ Sorted(stq) /\ Sorted(batch)
  /\ Before(Stored, Rows(stq))
  /\ Before(Stored \cup Rows(stq), Listened)
  /\ Before(Stored \cup Rows(stq) \cup Listened, Rows(inq))
  /\ \A m \in Stored \cup Rows(stq) \cup Listened \cup Rows(inq) : m <= arrived
  /\ run.pc = "select" => Before(Rows(table), Rows(batch))

\* A row of the table that a row of the batch ought to precede is preceded by it: the batch
\* was committed before, and Postgres's answer was lost.
LandedInv ==
  \A i \in DOMAIN table : \A b \in Rows(batch) :
    b < table[i] => \E h \in 1..i : table[h] = b

\* Only the retry of a batch writes a row behind a later one.
TableInv ==
  \A i, j \in DOMAIN table : i < j /\ table[j] < table[i] => \E h \in 1..i : table[h] = table[j]

\* The inductive invariant of the pipeline.
PipelineInv ==
  PipelineTypes /\ RunInv /\ MessagesAccounted /\ OrderInv /\ LandedInv /\ TableInv

LEMMA MessagesAreNaturals == Message \subseteq Nat \ {0} /\ NoMessage \notin Message
  BY PipelineAssumption DEF Message, NoMessage

\* Rows may move between the store's queue, its batch and its counters.
LEMMA Accounted ==
  ASSUME PipelineTypes, MessagesAccounted,
         UNCHANGED <<arrived, inq, inDropped, ingested, listening, skipped, dropped, cancelled>>,
         Len(stq) \in Nat, Len(stq)' \in Nat, Len(batch) \in Nat, Len(batch)' \in Nat,
         written' \in Nat, failed' \in Nat, forgotten' \in Nat,
         Len(stq)' + Len(batch)' + written' + failed' + forgotten'
           = Len(stq) + Len(batch) + written + failed + forgotten,
         ~cancelled => forgotten' = forgotten
  PROVE  MessagesAccounted'
<1> DEFINE ear == IF listening = NoMessage THEN 0 ELSE 1
<1>1. ear \in Nat /\ ear' = ear
  OBVIOUS
<1>2. ingested = ear + skipped + dropped + Len(stq) + Len(batch) + written + failed + forgotten
  BY DEF MessagesAccounted
<1>3. ingested' = ear' + skipped' + dropped' + Len(stq)' + Len(batch)' + written' + failed' + forgotten'
  <2>1. /\ skipped \in Nat /\ dropped \in Nat /\ written \in Nat /\ failed \in Nat
        /\ forgotten \in Nat
    BY DEF PipelineTypes
  <2>2. PICK e \in Nat, s \in Nat, d \in Nat, q \in Nat, b \in Nat, w \in Nat, f \in Nat, g \in Nat :
          /\ e = ear /\ s = skipped /\ d = dropped /\ q = Len(stq) /\ b = Len(batch)
          /\ w = written /\ f = failed /\ g = forgotten
    BY <1>1, <2>1
  <2>3. PICK q2 \in Nat, b2 \in Nat, w2 \in Nat, f2 \in Nat, g2 \in Nat :
          /\ q2 = Len(stq)' /\ b2 = Len(batch)' /\ w2 = written' /\ f2 = failed' /\ g2 = forgotten'
    OBVIOUS
  <2> HIDE DEF ear
  <2>4. ingested = e + s + d + q + b + w + f + g
    BY <1>2, <2>2
  <2>5. q2 + b2 + w2 + f2 + g2 = q + b + w + f + g
    BY <2>2, <2>3
  <2>6. ingested = e + s + d + q2 + b2 + w2 + f2 + g2
    BY <2>4, <2>5
  <2>7. ingested' = ingested /\ skipped' = s /\ dropped' = d /\ ear' = e
    BY <1>1, <2>2
  <2>8. QED
    BY <2>3, <2>6, <2>7
<1>4. QED
  BY <1>3 DEF MessagesAccounted

\* The counters are bounded because every message is counted in one place.
LEMMA PipelineInvIsSound == PipelineInv => PipelineSound
<1> SUFFICES ASSUME PipelineInv PROVE PipelineSound
  OBVIOUS
<1>1. Len(inq) \in Nat /\ Len(stq) \in Nat /\ Len(batch) \in Nat
  BY LenProperties DEF PipelineInv, PipelineTypes
<1>a. arrived \in Nat /\ arrived <= MaxMessages
  BY PipelineAssumption DEF PipelineInv, PipelineTypes
<1>b. inDropped <= arrived /\ ingested <= arrived
  <2>1. arrived = Len(inq) + inDropped + ingested
    BY DEF PipelineInv, MessagesAccounted
  <2>2. inDropped \in Nat /\ ingested \in Nat
    BY DEF PipelineInv, PipelineTypes
  <2>3. QED
    BY <1>1, <1>a, <2>1, <2>2
<1>c. (IF listening = NoMessage THEN 0 ELSE 1) \in Nat
  OBVIOUS
<1>d. /\ skipped <= ingested /\ dropped <= ingested /\ written <= ingested /\ failed <= ingested
      /\ forgotten <= ingested
  <2> DEFINE ear == IF listening = NoMessage THEN 0 ELSE 1
  <2>1. ingested = ear + skipped + dropped + Len(stq) + Len(batch) + written + failed + forgotten
    BY DEF PipelineInv, MessagesAccounted
  <2> HIDE DEF ear
  <2>2. ear \in Nat
    BY <1>c DEF ear
  <2>3. QED
    BY <1>1, <2>1, <2>2 DEF PipelineInv, PipelineTypes
<1>2. {inDropped, ingested, skipped, dropped, written, failed, forgotten} \subseteq 0..MaxMessages
  BY <1>a, <1>b, <1>d, PipelineAssumption DEF PipelineInv, PipelineTypes
<1>3. PipelineTypeOK
  BY <1>2 DEF PipelineInv, PipelineTypes, PipelineTypeOK, Points
<1>4. \A i, j \in DOMAIN batch : i < j => batch[i] < batch[j]
  BY DEF PipelineInv, OrderInv, Sorted
<1>5. run.pc = "select" => \A b \in Rows(batch) : \A t \in Rows(table) : t < b
  BY DEF PipelineInv, OrderInv, Before
<1>6. InOrder
  BY <1>4, <1>5 DEF PipelineInv, TableInv, InOrder
<1>7. QED
  BY <1>3, <1>6 DEF PipelineInv, PipelineSound

LEMMA TableGrows ==
  ASSUME PipelineTypes, table' = table \o batch
  PROVE  /\ DOMAIN table' = 1..Len(table) + Len(batch) /\ DOMAIN table = 1..Len(table)
         /\ DOMAIN batch = 1..Len(batch) /\ Len(table) \in Nat /\ Len(batch) \in Nat
         /\ \A i \in DOMAIN table : table'[i] = table[i]
         /\ \A k \in DOMAIN batch : table'[Len(table) + k] = batch[k]
         /\ \A i \in DOMAIN table' : i \in DOMAIN table \/ \E k \in DOMAIN batch : i = Len(table) + k
<1>1. table \in Seq(Message) /\ batch \in Seq(Message)
  BY DEF PipelineTypes
<1>2. DOMAIN table' = 1..Len(table) + Len(batch)
  BY <1>1, RowsOfConcat
<1>3. \A i \in 1..Len(table) + Len(batch) : i \in DOMAIN table \/ \E k \in DOMAIN batch : i = Len(table) + k
  BY <1>1, RowsOfConcat
<1>4. QED
  BY <1>1, <1>2, <1>3, RowsOfConcat

\* A batch that is committed again is found in the table already: its rows precede those of
\* the batches in between.
LEMMA InsertKeepsOrder ==
  ASSUME PipelineTypes, Sorted(batch), LandedInv, TableInv, table' \in {table, table \o batch}
  PROVE  TableInv'
<1>1. CASE table' = table
  BY <1>1 DEF TableInv
<1>2. CASE table' = table \o batch
  <2> DEFINE n == Len(table)
  <2>1. /\ DOMAIN table' = 1..n + Len(batch) /\ DOMAIN table = 1..n /\ DOMAIN batch = 1..Len(batch)
        /\ n \in Nat /\ Len(batch) \in Nat
        /\ \A i \in DOMAIN table : table'[i] = table[i]
        /\ \A k \in DOMAIN batch : table'[n + k] = batch[k]
        /\ \A i \in DOMAIN table' : i \in DOMAIN table \/ \E k \in DOMAIN batch : i = n + k
    BY <1>2, TableGrows
  <2> HIDE DEF n
  <2>2. \A i \in DOMAIN table : \A h \in 1..i : h \in DOMAIN table
    BY <2>1
  <2>3. \A k \in DOMAIN batch : batch[k] \in Rows(batch) /\ batch[k] \in Nat
    BY RowsTyped, MessagesAreNaturals DEF PipelineTypes, Rows
  <2> SUFFICES ASSUME NEW i \in DOMAIN table', NEW j \in DOMAIN table', i < j, table'[j] < table'[i]
               PROVE  \E h \in 1..i : table'[h] = table'[j]
    BY DEF TableInv
  <2>4. CASE j \in DOMAIN table
    <3>1. i \in DOMAIN table
      BY <2>1, <2>4
    <3>2. PICK h \in 1..i : table[h] = table[j]
      BY <2>1, <2>4, <3>1 DEF TableInv
    <3>3. table'[h] = table'[j]
      BY <2>1, <2>2, <2>4, <3>1, <3>2
    <3>4. QED
      BY <3>3
  <2>5. ASSUME NEW k \in DOMAIN batch, j = n + k, i \in DOMAIN table
        PROVE  \E h \in 1..i : table'[h] = table'[j]
    <3>1. batch[k] < table[i]
      BY <2>1, <2>5
    <3>2. PICK h \in 1..i : table[h] = batch[k]
      BY <2>3, <2>5, <3>1 DEF LandedInv
    <3>3. table'[h] = table'[j]
      BY <2>1, <2>2, <2>5, <3>2
    <3>4. QED
      BY <3>3
  <2>6. ASSUME NEW k \in DOMAIN batch, j = n + k, NEW l \in DOMAIN batch, i = n + l PROVE FALSE
    <3>1. l < k
      BY <2>1, <2>6
    <3>2. batch[l] < batch[k] /\ batch[k] < batch[l]
      BY <2>1, <2>6, <3>1 DEF Sorted
    <3>3. QED
      BY <2>3, <3>2
  <2>7. QED
    BY <2>1, <2>4, <2>5, <2>6
<1>3. QED
  BY <1>1, <1>2

\* Once the batch is committed each of its rows is behind the smaller ones.
LEMMA InsertLands ==
  ASSUME PipelineTypes, Sorted(batch), LandedInv, table' \in {table, table \o batch}, batch' = batch
  PROVE  LandedInv'
<1>1. CASE table' = table
  BY <1>1 DEF LandedInv
<1>2. CASE table' = table \o batch
  <2> DEFINE n == Len(table)
  <2>1. /\ DOMAIN table' = 1..n + Len(batch) /\ DOMAIN table = 1..n /\ DOMAIN batch = 1..Len(batch)
        /\ n \in Nat /\ Len(batch) \in Nat
        /\ \A i \in DOMAIN table : table'[i] = table[i]
        /\ \A k \in DOMAIN batch : table'[n + k] = batch[k]
        /\ \A i \in DOMAIN table' : i \in DOMAIN table \/ \E k \in DOMAIN batch : i = n + k
    BY <1>2, TableGrows
  <2> HIDE DEF n
  <2>2. \A i \in DOMAIN table : \A h \in 1..i : h \in DOMAIN table
    BY <2>1
  <2>3. \A k \in DOMAIN batch : batch[k] \in Nat
    BY RowsTyped, MessagesAreNaturals DEF PipelineTypes, Rows
  <2> SUFFICES ASSUME NEW i \in DOMAIN table', NEW b \in Rows(batch), b < table'[i]
               PROVE  \E h \in 1..i : table'[h] = b
    BY DEF LandedInv
  <2>4. CASE i \in DOMAIN table
    <3>1. PICK h \in 1..i : table[h] = b
      BY <2>1, <2>4 DEF LandedInv
    <3>2. QED
      BY <2>1, <2>2, <2>4, <3>1
  <2>5. ASSUME NEW l \in DOMAIN batch, i = n + l PROVE \E h \in 1..i : table'[h] = b
    <3>1. PICK k \in DOMAIN batch : b = batch[k]
      BY DEF Rows
    <3>2. batch[k] < batch[l] /\ ~(batch[l] < batch[k])
      BY <2>1, <2>3, <2>5, <3>1
    <3>3. k < l
      BY <2>1, <3>2 DEF Sorted
    <3>4. n + k \in 1..i /\ table'[n + k] = b
      BY <2>1, <2>5, <3>1, <3>3
    <3>5. QED
      BY <3>4
  <2>6. QED
    BY <2>1, <2>4, <2>5
<1>3. QED
  BY <1>1, <1>2

LEMMA PipelineInitInv == PipelineInit => PipelineInv
<1> SUFFICES ASSUME PipelineInit PROVE PipelineInv
  OBVIOUS
<1>1. <<>> \in Seq(Message) /\ Len(<<>>) = 0 /\ DOMAIN <<>> = {}
  BY EmptySeq
<1>a. Selecting \in Points
  BY PipelineAssumption DEF Selecting, Points
<1>b. 0 \in 0..MaxMessages /\ 0 <= IngestQueue /\ 0 <= StoreQueue /\ 0 <= BatchSize
  BY PipelineAssumption
<1>2. PipelineTypes
  BY <1>1, <1>a, <1>b DEF PipelineInit, PipelineTypes
<1>3. RunInv /\ MessagesAccounted
  BY <1>1, PipelineAssumption DEF PipelineInit, RunInv, MessagesAccounted, Selecting
<1>4. OrderInv
  BY <1>1, RowsOfNone DEF PipelineInit, OrderInv, Stored, Listened, Sorted, Before
<1>5. LandedInv /\ TableInv
  BY <1>1 DEF PipelineInit, LandedInv, TableInv
<1>6. QED
  BY <1>2, <1>3, <1>4, <1>5 DEF PipelineInv

LEMMA HandleKeeps ==
  ASSUME PipelineInv, Handle
  PROVE  PipelineInv'
<1>1. arrived' \in 0..MaxMessages /\ arrived' = arrived + 1 /\ arrived' \in Message
  BY PipelineAssumption DEF PipelineInv, PipelineTypes, Handle, Message
<1>2. /\ inq' \in Seq(Message) /\ Len(inq') <= IngestQueue /\ inDropped' \in Nat
      /\ Len(inq') + inDropped' = Len(inq) + inDropped + 1 /\ Len(inq) \in Nat /\ Len(inq') \in Nat
  <2>1. Len(inq) \in Nat
    BY LenProperties DEF PipelineInv, PipelineTypes
  <2>2. CASE Len(inq) < IngestQueue
    <3>1. inq' = Append(inq, arrived') /\ inDropped' = inDropped
      BY <2>2 DEF Handle
    <3>2. inq' \in Seq(Message) /\ Len(inq') = Len(inq) + 1
      BY <1>1, <3>1, RowsOfAppend DEF PipelineInv, PipelineTypes
    <3>3. QED
      BY <2>1, <2>2, <3>1, <3>2, PipelineAssumption DEF PipelineInv, PipelineTypes
  <2>3. CASE ~(Len(inq) < IngestQueue)
    BY <2>1, <2>3 DEF PipelineInv, PipelineTypes, Handle
  <2>4. QED
    BY <2>2, <2>3
<1>3. UNCHANGED <<storeVars, ingested, listening, skipped>>
  BY DEF Handle
<1>4. PipelineTypes'
  BY <1>1, <1>2, <1>3 DEF PipelineInv, PipelineTypes, storeVars, ctxVars, fateVars
<1>5. RunInv' /\ LandedInv' /\ TableInv'
  BY <1>3 DEF PipelineInv, RunInv, LandedInv, TableInv, storeVars, ctxVars, fateVars
<1>6. MessagesAccounted'
  BY <1>1, <1>2, <1>3 DEF PipelineInv, PipelineTypes, MessagesAccounted, storeVars, ctxVars, fateVars
<1>7. \A m \in Stored \cup Rows(stq) \cup Listened \cup Rows(inq) : m < arrived' /\ m <= arrived'
  <2>1. Stored \cup Rows(stq) \cup Listened \cup Rows(inq) \subseteq Nat
    BY MessagesAreNaturals, RowsTyped DEF PipelineInv, PipelineTypes, Stored, Listened
  <2>2. QED
    BY <1>1, <2>1 DEF PipelineInv, PipelineTypes, OrderInv
<1>8. Rows(inq') \subseteq Rows(inq) \cup {arrived'} /\ Sorted(inq')
  <2>1. inq \in Seq(Nat) /\ arrived' \in Nat
    BY <1>1, MessagesAreNaturals, SeqMonotonic DEF PipelineInv, PipelineTypes
  <2>2. CASE inq' = Append(inq, arrived')
    BY <1>7, <2>1, <2>2, SortedAppend, RowsOfAppend DEF PipelineInv, OrderInv
  <2>3. CASE inq' = inq
    BY <2>3 DEF PipelineInv, OrderInv
  <2>4. QED
    BY <2>2, <2>3 DEF Handle
<1>9. Stored' = Stored /\ Listened' = Listened /\ stq' = stq /\ batch' = batch /\ run' = run /\ table' = table
  BY <1>3 DEF Stored, Listened, storeVars, fateVars
<1>10. arrived' <= arrived'
  BY <1>1
<1>11. OrderInv'
  BY <1>7, <1>8, <1>9, <1>10 DEF PipelineInv, OrderInv, Before
<1>12. QED
  BY <1>4, <1>5, <1>6, <1>11 DEF PipelineInv

\* The consumer takes the first message of the daemon's queue.
LEMMA ConsumeKeeps ==
  ASSUME PipelineInv, Consume \/ ConsumeOnly
  PROVE  PipelineInv'
<1>1. /\ listening = NoMessage /\ inq # <<>> /\ inq' = Tail(inq)
      /\ ingested' = ingested + 1
      /\ UNCHANGED <<storeVars, arrived, inDropped>>
      /\ \/ listening' = Head(inq) /\ skipped' = skipped
         \/ listening' = NoMessage /\ skipped' = skipped + 1
  BY DEF Consume, ConsumeOnly
<1>2. /\ inq' \in Seq(Message) /\ Len(inq) = Len(inq') + 1 /\ Len(inq') \in Nat
      /\ Head(inq) \in Message /\ Rows(inq) = {Head(inq)} \cup Rows(inq')
  BY <1>1, RowsOfTail, LenProperties DEF PipelineInv, PipelineTypes
<1>3. PipelineTypes'
  BY <1>1, <1>2, PipelineAssumption DEF PipelineInv, PipelineTypes, storeVars, ctxVars, fateVars
<1>4. RunInv' /\ LandedInv' /\ TableInv'
  BY <1>1 DEF PipelineInv, RunInv, LandedInv, TableInv, storeVars, ctxVars, fateVars
<1>5. MessagesAccounted'
  <2>1. /\ arrived' = Len(inq') + inDropped' + ingested'
        /\ ~cancelled' => forgotten' = 0
    BY <1>1, <1>2 DEF PipelineInv, PipelineTypes, MessagesAccounted, storeVars, ctxVars, fateVars
  <2>2. (IF listening' = NoMessage THEN 0 ELSE 1) + skipped'
          = (IF listening = NoMessage THEN 0 ELSE 1) + skipped + 1
    BY <1>1, <1>2, MessagesAreNaturals DEF PipelineInv, PipelineTypes
  <2>3. Len(stq) \in Nat /\ Len(batch) \in Nat
    BY LenProperties DEF PipelineInv, PipelineTypes
  <2>4. QED
    BY <1>1, <2>1, <2>2, <2>3, SMTT(30) DEF PipelineInv, PipelineTypes, MessagesAccounted, storeVars, ctxVars, fateVars
<1>6. Sorted(inq') /\ Before({Head(inq)}, Rows(inq'))
  <2>1. inq \in Seq(Nat)
    BY MessagesAreNaturals, SeqMonotonic DEF PipelineInv, PipelineTypes
  <2>2. QED
    BY <1>1, <2>1, SortedTail DEF PipelineInv, OrderInv, Before
<1>7. Stored' = Stored /\ stq' = stq /\ batch' = batch /\ run' = run /\ table' = table /\ arrived' = arrived
  BY <1>1 DEF Stored, storeVars, fateVars
<1>8. Listened' \subseteq {Head(inq)} /\ Listened = {}
  BY <1>1 DEF Listened
<1>9. OrderInv'
  BY <1>2, <1>6, <1>7, <1>8 DEF PipelineInv, OrderInv, Before
<1>10. QED
  BY <1>3, <1>4, <1>5, <1>9 DEF PipelineInv

LEMMA EnqueueKeeps ==
  ASSUME PipelineInv, Enqueue
  PROVE  PipelineInv'
<1>1. /\ listening \in Message /\ listening # NoMessage /\ listening' = NoMessage
      /\ UNCHANGED <<arrived, inq, inDropped, ingested, skipped, batch, run, tick, ctxVars, fateVars>>
  BY DEF PipelineInv, PipelineTypes, Enqueue
<1>2. /\ stq' \in Seq(Message) /\ Len(stq') <= StoreQueue /\ dropped' \in Nat
      /\ Len(stq') + dropped' = Len(stq) + dropped + 1 /\ Len(stq) \in Nat /\ Len(stq') \in Nat
  <2>1. Len(stq) \in Nat
    BY LenProperties DEF PipelineInv, PipelineTypes
  <2>2. CASE Len(stq) < StoreQueue
    <3>1. stq' = Append(stq, listening) /\ dropped' = dropped
      BY <2>2 DEF Enqueue
    <3>2. stq' \in Seq(Message) /\ Len(stq') = Len(stq) + 1
      BY <1>1, <3>1, RowsOfAppend DEF PipelineInv, PipelineTypes
    <3>3. QED
      BY <2>1, <2>2, <3>1, <3>2, PipelineAssumption DEF PipelineInv, PipelineTypes
  <2>3. CASE ~(Len(stq) < StoreQueue)
    BY <2>1, <2>3 DEF PipelineInv, PipelineTypes, Enqueue
  <2>4. QED
    BY <2>2, <2>3
<1>3. PipelineTypes'
  BY <1>1, <1>2 DEF PipelineInv, PipelineTypes, ctxVars, fateVars
<1>4. RunInv' /\ LandedInv' /\ TableInv'
  BY <1>1 DEF PipelineInv, RunInv, LandedInv, TableInv, ctxVars, fateVars
<1>5. MessagesAccounted'
  <2>1. /\ arrived' = Len(inq') + inDropped' + ingested'
        /\ ~cancelled' => forgotten' = 0
    BY <1>1 DEF PipelineInv, MessagesAccounted, ctxVars, fateVars
  <2>2. ingested = 1 + skipped + dropped + Len(stq) + Len(batch) + written + failed + forgotten
    BY <1>1 DEF PipelineInv, MessagesAccounted
  <2>3. Len(batch) \in Nat
    BY LenProperties DEF PipelineInv, PipelineTypes
  <2>4. ingested' = 0 + skipped' + dropped' + Len(stq') + Len(batch') + written' + failed' + forgotten'
    <3>1. UNCHANGED <<ingested, skipped, batch, written, failed, forgotten>>
      BY <1>1 DEF fateVars
    <3>2. skipped \in Nat /\ dropped \in Nat /\ written \in Nat /\ failed \in Nat /\ forgotten \in Nat
      BY DEF PipelineInv, PipelineTypes
    <3>a. PICK s \in Nat, d \in Nat, q \in Nat, b \in Nat, w \in Nat, f \in Nat, g \in Nat,
               d2 \in Nat, q2 \in Nat :
            /\ s = skipped /\ d = dropped /\ q = Len(stq) /\ b = Len(batch) /\ w = written
            /\ f = failed /\ g = forgotten /\ d2 = dropped' /\ q2 = Len(stq')
      BY <1>2, <2>3, <3>2
    <3>b. ingested = 1 + s + d + q + b + w + f + g
      BY <2>2, <3>a
    <3>c. q2 + d2 = q + d + 1
      BY <1>2, <3>a
    <3>d. ingested = 0 + s + d2 + q2 + b + w + f + g
      BY <3>b, <3>c
    <3>3. ingested = 0 + skipped + dropped' + Len(stq') + Len(batch) + written + failed + forgotten
      BY <3>a, <3>d
    <3>4. QED
      BY <3>1, <3>3
  <2>5. QED
    BY <1>1, <2>1, <2>4 DEF MessagesAccounted
<1>6. Rows(stq') \subseteq Rows(stq) \cup Listened /\ Sorted(stq')
  <2>1. stq \in Seq(Nat) /\ listening \in Nat /\ Listened = {listening}
    BY <1>1, MessagesAreNaturals, SeqMonotonic DEF PipelineInv, PipelineTypes, Listened
  <2>2. CASE stq' = Append(stq, listening)
    BY <2>1, <2>2, SortedAppend, RowsOfAppend DEF PipelineInv, OrderInv, Before
  <2>3. CASE stq' = stq
    BY <2>3 DEF PipelineInv, OrderInv
  <2>4. QED
    BY <2>2, <2>3 DEF Enqueue
<1>7. Stored' = Stored /\ inq' = inq /\ batch' = batch /\ run' = run /\ table' = table /\ arrived' = arrived
  BY <1>1 DEF Stored, fateVars
<1>8. Listened' = {}
  BY <1>1 DEF Listened
<1>9. OrderInv'
  BY <1>6, <1>7, <1>8 DEF PipelineInv, OrderInv, Before
<1>10. QED
  BY <1>3, <1>4, <1>5, <1>9 DEF PipelineInv

LEMMA TakeRowKeeps ==
  ASSUME PipelineInv, TakeRow
  PROVE  PipelineInv'
<1>1. /\ run.pc = "select" /\ stq # <<>> /\ stq' = Tail(stq) /\ batch' = Append(batch, Head(stq))
      /\ UNCHANGED <<ingestVars, dropped, tick, ctxVars, fateVars>>
      /\ run' = IF Len(batch') >= BatchSize THEN [run EXCEPT !.pc = "insert"] ELSE run
  BY DEF TakeRow
<1>2. /\ stq' \in Seq(Message) /\ Len(stq) = Len(stq') + 1 /\ Len(stq') \in Nat
      /\ Head(stq) \in Message /\ Rows(stq) = {Head(stq)} \cup Rows(stq')
  BY <1>1, RowsOfTail, LenProperties DEF PipelineInv, PipelineTypes
<1>3. /\ batch' \in Seq(Message) /\ Len(batch') = Len(batch) + 1 /\ Len(batch) \in Nat
      /\ Rows(batch') = Rows(batch) \cup {Head(stq)}
  BY <1>1, <1>2, RowsOfAppend, LenProperties DEF PipelineInv, PipelineTypes
<1>4. /\ run' \in Points /\ run'.final = run.final
      /\ run'.pc \in {"select", "insert"}
      /\ run'.pc = "select" => Len(batch') < BatchSize
  <2>1. Len(batch') \in Nat /\ BatchSize \in Nat /\ run \in Points
    BY <1>3, PipelineAssumption DEF PipelineInv, PipelineTypes
  <2>2. CASE Len(batch') >= BatchSize
    <3>1. run' = [run EXCEPT !.pc = "insert"]
      BY <1>1, <2>2
    <3>2. QED
      BY <2>1, <3>1 DEF Points
  <2>3. CASE Len(batch') < BatchSize
    <3>1. run' = run
      BY <1>1, <2>1, <2>3
    <3>2. QED
      BY <1>1, <2>1, <2>3, <3>1
  <2>4. QED
    BY <2>1, <2>2, <2>3
<1>5. PipelineTypes'
  <2>1. Len(batch') <= BatchSize /\ Len(stq') <= StoreQueue
    BY <1>1, <1>2, <1>3, PipelineAssumption, SMTT(30) DEF PipelineInv, PipelineTypes, RunInv
  <2>2. QED
    BY <1>1, <1>2, <1>3, <1>4, <2>1 DEF PipelineInv, PipelineTypes, ingestVars, ctxVars, fateVars
<1>6. RunInv'
  BY <1>1, <1>4 DEF PipelineInv, RunInv, ctxVars
<1>7. MessagesAccounted'
  <2>1. /\ UNCHANGED <<arrived, inq, inDropped, ingested, listening, skipped, dropped, cancelled>>
        /\ UNCHANGED <<written, failed, forgotten>>
    BY <1>1 DEF ingestVars, ctxVars, fateVars
  <2>2. Len(stq') + Len(batch') = Len(stq) + Len(batch)
    BY <1>2, <1>3
  <2>3. /\ written \in Nat /\ failed \in Nat /\ forgotten \in Nat
        /\ Len(stq) \in Nat /\ Len(stq') \in Nat /\ Len(batch) \in Nat /\ Len(batch') \in Nat
    BY <1>2, <1>3 DEF PipelineInv, PipelineTypes
  <2>4. Len(stq') + Len(batch') + written + failed + forgotten
           = Len(stq) + Len(batch) + written + failed + forgotten
    <3> DEFINE q == Len(stq)
               b == Len(batch)
               q2 == Len(stq')
               b2 == Len(batch')
    <3>1. q \in Nat /\ b \in Nat /\ q2 \in Nat /\ b2 \in Nat /\ q2 + b2 = q + b
      BY <2>2, <2>3
    <3> HIDE DEF q, b, q2, b2
    <3>2. q2 + b2 + written + failed + forgotten = q + b + written + failed + forgotten
      BY <2>3, <3>1
    <3>3. QED
      BY <3>2 DEF q, b, q2, b2
  <2>5. QED
    BY <2>1, <2>3, <2>4, Accounted DEF PipelineInv
<1>8. Sorted(stq') /\ Before({Head(stq)}, Rows(stq')) /\ Sorted(batch')
  <2>1. stq \in Seq(Nat) /\ batch \in Seq(Nat) /\ Head(stq) \in Nat
    BY <1>2, MessagesAreNaturals, SeqMonotonic DEF PipelineInv, PipelineTypes
  <2>2. Sorted(stq') /\ Before({Head(stq)}, Rows(stq'))
    BY <1>1, <2>1, SortedTail DEF PipelineInv, OrderInv, Before
  <2>3. \A m \in Rows(batch) : m < Head(stq)
    BY <1>2 DEF PipelineInv, OrderInv, Stored, Before
  <2>4. Sorted(batch')
    BY <1>1, <2>1, <2>3, SortedAppend DEF PipelineInv, OrderInv
  <2>5. QED
    BY <2>2, <2>4
<1>9. /\ Stored' = Stored \cup {Head(stq)} /\ Listened' = Listened
      /\ inq' = inq /\ table' = table /\ arrived' = arrived
  BY <1>1, <1>3 DEF Stored, Listened, ingestVars, fateVars
<1>10. Before(Rows(table), {Head(stq)}) /\ Before(Rows(table), Rows(batch'))
  BY <1>1, <1>2, <1>3 DEF PipelineInv, OrderInv, Stored, Before
<1>11. OrderInv'
  BY <1>2, <1>8, <1>9, <1>10 DEF PipelineInv, OrderInv, Before
<1>12. LandedInv'
  <2>1. ASSUME NEW i \in DOMAIN table, NEW b \in Rows(batch') PROVE ~(b < table[i])
    <3>1. table[i] < b
      BY <1>10 DEF Before, Rows
    <3>2. table[i] \in Nat /\ b \in Nat
      <4>1. table[i] \in Rows(table)
        BY DEF Rows
      <4>2. Rows(table) \subseteq Message /\ Rows(batch') \subseteq Message
        BY <1>3, RowsTyped DEF PipelineInv, PipelineTypes
      <4>3. QED
        BY <4>1, <4>2, MessagesAreNaturals
    <3>3. QED
      BY <3>1, <3>2
  <2>2. QED
    BY <1>9, <2>1 DEF LandedInv
<1>13. TableInv'
  BY <1>9 DEF PipelineInv, TableInv
<1>14. QED
  BY <1>5, <1>6, <1>7, <1>11, <1>12, <1>13 DEF PipelineInv

\* The steps of Run that move it and leave queues, batch, table and counters alone.
LEMMA RunMovesKeeps ==
  ASSUME PipelineInv, TakeTick \/ TakeDone \/ BackoffEnds
  PROVE  PipelineInv'
<1>1. /\ run' \in Points /\ tick' \in BOOLEAN
      /\ UNCHANGED <<ingestVars, stq, dropped, batch, ctxVars, fateVars>>
      /\ RunInv'
      /\ run'.pc = "select" => run.pc = "select"
  <2>1. CASE TakeTick
    <3>1. run' = run \/ run' = [run EXCEPT !.pc = "insert"]
      BY <2>1 DEF TakeTick
    <3>2. run' \in Points /\ run'.final = run.final /\ (run'.pc = "insert" \/ run' = run)
      BY <3>1 DEF PipelineInv, PipelineTypes, Points
    <3>3. QED
      BY <2>1, <3>2 DEF PipelineInv, RunInv, TakeTick, ctxVars
  <2>2. CASE TakeDone
    <3>1. PICK pc \in {"stopped", "insert"} : run' = [run EXCEPT !.pc = pc, !.final = TRUE]
      BY <2>2 DEF TakeDone
    <3>2. run' \in Points /\ run'.pc = pc
      BY <3>1 DEF PipelineInv, PipelineTypes, Points
    <3>3. QED
      BY <2>2, <3>2 DEF PipelineInv, PipelineTypes, RunInv, TakeDone, ctxVars
  <2>3. CASE BackoffEnds
    <3>1. run.attempt + 1 \in 0..MaxRetries
      BY <2>3, PipelineAssumption, SMTT(30) DEF PipelineInv, PipelineTypes, Points, RunInv, BackoffEnds
    <3>2. run' \in Points /\ run'.pc = "insert" /\ run'.final = run.final
      BY <2>3, <3>1 DEF PipelineInv, PipelineTypes, Points, BackoffEnds
    <3>3. QED
      BY <2>3, <3>2 DEF PipelineInv, PipelineTypes, RunInv, BackoffEnds, ctxVars
  <2>4. QED
    BY <2>1, <2>2, <2>3
<1>2. PipelineTypes'
  BY <1>1 DEF PipelineInv, PipelineTypes, ingestVars, ctxVars, fateVars
<1>3. MessagesAccounted'
  BY <1>1 DEF PipelineInv, MessagesAccounted, ingestVars, ctxVars, fateVars
<1>4. Stored' = Stored /\ Listened' = Listened
  BY <1>1 DEF Stored, Listened, ingestVars, fateVars
<1>5. OrderInv'
  BY <1>1, <1>4 DEF PipelineInv, OrderInv, ingestVars, fateVars
<1>6. LandedInv' /\ TableInv'
  BY <1>1 DEF PipelineInv, LandedInv, TableInv, fateVars
<1>7. QED
  BY <1>1, <1>2, <1>3, <1>5, <1>6 DEF PipelineInv

\* A tick of the ticker and the end of Run's context leave everything else as it is.
LEMMA TimersKeep ==
  ASSUME PipelineInv, TickerFires \/ Cancel \/ UNCHANGED pipelineVars
  PROVE  PipelineInv'
<1>1. /\ tick' \in BOOLEAN /\ cancelled' \in BOOLEAN /\ (cancelled => cancelled')
      /\ answers' = answers
      /\ UNCHANGED <<ingestVars, stq, dropped, batch, run, fateVars>>
  BY DEF PipelineInv, PipelineTypes, TickerFires, Cancel, pipelineVars, storeVars, ctxVars
<1>2. PipelineTypes'
  BY <1>1 DEF PipelineInv, PipelineTypes, ingestVars, fateVars
<1>3. RunInv' /\ MessagesAccounted'
  BY <1>1 DEF PipelineInv, RunInv, MessagesAccounted, ingestVars, fateVars
<1>4. Stored' = Stored /\ Listened' = Listened
  BY <1>1 DEF Stored, Listened, ingestVars, fateVars
<1>5. OrderInv'
  BY <1>1, <1>4 DEF PipelineInv, OrderInv, ingestVars, fateVars
<1>6. LandedInv' /\ TableInv'
  BY <1>1 DEF PipelineInv, LandedInv, TableInv, fateVars
<1>7. QED
  BY <1>2, <1>3, <1>5, <1>6 DEF PipelineInv

\* The batch is let go with the rows counted as written, failed or forgotten, and its rows
\* are in the table if the INSERT was committed.
LEMMA BatchOver ==
  ASSUME PipelineInv, run.pc \in {"insert", "backoff"}, batch' = <<>>, run' = AfterFlush,
         UNCHANGED <<ingestVars, stq, dropped, tick, ctxVars>>,
         table' \in {table, table \o batch}, settled' \subseteq settled \cup Rows(batch),
         written' \in Nat, failed' \in Nat, forgotten' \in Nat,
         written' + failed' + forgotten' = written + failed + forgotten + Len(batch),
         ~cancelled => forgotten' = forgotten
  PROVE  PipelineInv'
<1>1. batch \in Seq(Message) /\ table \in Seq(Message) /\ Len(batch) \in Nat /\ Rows(batch) \subseteq Message
  BY LenProperties, RowsTyped DEF PipelineInv, PipelineTypes
<1>2. batch' \in Seq(Message) /\ Len(batch') = 0 /\ DOMAIN batch' = {} /\ Rows(batch') = {}
  BY EmptySeq, RowsOfNone
<1>3. /\ run' \in Points /\ (run'.final => run.final)
      /\ run'.pc = "select" => ~run'.final
      /\ run'.pc \in {"select", "stopped"}
  <2>1. run \in Points /\ 0 \in 0..MaxRetries
    BY PipelineAssumption DEF PipelineInv, PipelineTypes
  <2>2. CASE run.final
    <3>1. run' = [run EXCEPT !.pc = "stopped"]
      BY <2>2 DEF AfterFlush
    <3>2. QED
      BY <2>1, <2>2, <3>1 DEF Points
  <2>3. CASE ~run.final
    <3>1. run' = Selecting
      BY <2>3 DEF AfterFlush
    <3>2. QED
      BY <2>1, <3>1 DEF Points, Selecting
  <2>4. QED
    BY <2>2, <2>3
<1>4. table' \in Seq(Message) /\ Rows(table') \subseteq Stored
  <2>1. CASE table' = table
    BY <1>1, <2>1 DEF Stored
  <2>2. CASE table' = table \o batch
    BY <1>1, <2>2, RowsOfConcat DEF Stored
  <2>3. QED
    BY <2>1, <2>2
<1>5. PipelineTypes'
  BY <1>1, <1>2, <1>3, <1>4, PipelineAssumption DEF PipelineInv, PipelineTypes, ingestVars, ctxVars
<1>6. RunInv'
  BY <1>2, <1>3, PipelineAssumption DEF PipelineInv, RunInv, ctxVars
<1>7. MessagesAccounted'
  <2>1. Len(stq) \in Nat /\ Len(stq') = Len(stq)
    BY LenProperties DEF PipelineInv, PipelineTypes
  <2>2. UNCHANGED <<arrived, inq, inDropped, ingested, listening, skipped, dropped, cancelled>>
    BY DEF ingestVars, ctxVars
  <2>3. written \in Nat /\ failed \in Nat /\ forgotten \in Nat
    BY DEF PipelineInv, PipelineTypes
  <2>4. Len(stq') + Len(batch') + written' + failed' + forgotten'
           = Len(stq) + Len(batch) + written + failed + forgotten
    <3>1. PICK q \in Nat, b \in Nat, w \in Nat, f \in Nat, g \in Nat, w2 \in Nat, f2 \in Nat, g2 \in Nat :
            /\ q = Len(stq) /\ b = Len(batch) /\ w = written /\ f = failed /\ g = forgotten
            /\ w2 = written' /\ f2 = failed' /\ g2 = forgotten'
      BY <1>1, <2>1, <2>3
    <3>2. w2 + f2 + g2 = w + f + g + b
      BY <3>1
    <3>3. q + 0 + w2 + f2 + g2 = q + b + w + f + g
      BY <3>2
    <3>4. Len(stq') = q /\ Len(batch') = 0
      BY <1>2, <2>1, <3>1
    <3>5. QED
      BY <3>1, <3>3, <3>4
  <2>5. QED
    BY <1>1, <1>2, <2>1, <2>2, <2>4, Accounted DEF PipelineInv
<1>8. /\ Stored' \subseteq Stored /\ Listened' = Listened /\ inq' = inq /\ stq' = stq
      /\ arrived' = arrived /\ Sorted(batch')
  BY <1>2, <1>4 DEF Stored, Listened, Sorted, ingestVars
<1>9. OrderInv'
  BY <1>2, <1>8 DEF PipelineInv, OrderInv, Before
<1>10. LandedInv'
  BY <1>2 DEF LandedInv
<1>11. TableInv'
  BY InsertKeepsOrder DEF PipelineInv, OrderInv
<1>12. QED
  BY <1>5, <1>6, <1>7, <1>9, <1>10, <1>11 DEF PipelineInv

LEMMA InsertOkKeeps ==
  ASSUME PipelineInv, InsertOk
  PROVE  PipelineInv'
<1>1. Len(batch) \in Nat /\ written \in Nat /\ failed \in Nat /\ forgotten \in Nat
  BY LenProperties DEF PipelineInv, PipelineTypes
<1>2. /\ run.pc = "insert" /\ batch' = <<>> /\ run' = AfterFlush
      /\ table' = table \o batch /\ settled' = settled \cup Rows(batch)
      /\ written' = written + Len(batch) /\ failed' = failed /\ forgotten' = forgotten
      /\ UNCHANGED <<ingestVars, stq, dropped, tick, ctxVars>>
  BY DEF InsertOk
<1>3. written' + failed' + forgotten' = written + failed + forgotten + Len(batch) /\ written' \in Nat
  BY <1>1, <1>2
<1>4. QED
  BY <1>1, <1>2, <1>3, BatchOver

LEMMA GiveUpKeeps ==
  ASSUME PipelineInv, NEW landed \in BOOLEAN, GiveUp(landed)
  PROVE  PipelineInv'
<1>1. Len(batch) \in Nat /\ written \in Nat /\ failed \in Nat /\ forgotten \in Nat
  BY LenProperties DEF PipelineInv, PipelineTypes
<1>2. /\ run.pc = "insert" /\ batch' = <<>> /\ run' = AfterFlush
      /\ table' \in {table, table \o batch} /\ settled' = settled \cup Rows(batch)
      /\ failed' = failed + Len(batch) /\ written' = written /\ forgotten' = forgotten
      /\ UNCHANGED <<ingestVars, stq, dropped, tick, ctxVars>>
  BY DEF GiveUp
<1>3. written' + failed' + forgotten' = written + failed + forgotten + Len(batch) /\ failed' \in Nat
  BY <1>1, <1>2
<1>4. QED
  BY <1>1, <1>2, <1>3, BatchOver

LEMMA BackoffCutKeeps ==
  ASSUME PipelineInv, BackoffCut
  PROVE  PipelineInv'
<1>1. Len(batch) \in Nat /\ written \in Nat /\ failed \in Nat /\ forgotten \in Nat
  BY LenProperties DEF PipelineInv, PipelineTypes
<1>2. /\ run.pc = "backoff" /\ batch' = <<>> /\ run' = AfterFlush
      /\ table' = table /\ settled' = settled
      /\ forgotten' = forgotten + Len(batch) /\ written' = written /\ failed' = failed
      /\ UNCHANGED <<ingestVars, stq, dropped, tick, ctxVars>>
  BY DEF BackoffCut
<1>3. written' + failed' + forgotten' = written + failed + forgotten + Len(batch) /\ forgotten' \in Nat
  BY <1>1, <1>2
<1>4. cancelled
  BY DEF BackoffCut, PipelineInv, RunInv
<1>5. QED
  BY <1>1, <1>2, <1>3, <1>4, BatchOver

LEMMA InsertFailsKeeps ==
  ASSUME PipelineInv, NEW landed \in BOOLEAN, InsertFails(landed)
  PROVE  PipelineInv'
<1>1. /\ run.pc = "insert" /\ run.attempt < MaxRetries
      /\ table' \in {table, table \o batch} /\ run' = [run EXCEPT !.pc = "backoff"]
      /\ UNCHANGED <<ingestVars, stq, dropped, batch, tick, written, failed, settled, forgotten, ctxVars>>
  BY DEF InsertFails
<1>2. run' \in Points /\ run'.pc = "backoff" /\ run'.attempt = run.attempt /\ run'.final = run.final
  BY <1>1 DEF PipelineInv, PipelineTypes, Points
<1>3. table' \in Seq(Message) /\ Rows(table') \subseteq Stored
  <2>1. batch \in Seq(Message) /\ table \in Seq(Message)
    BY DEF PipelineInv, PipelineTypes
  <2>2. CASE table' = table
    BY <2>1, <2>2 DEF Stored
  <2>3. CASE table' = table \o batch
    BY <2>1, <2>3, RowsOfConcat DEF Stored
  <2>4. QED
    BY <1>1, <2>2, <2>3
<1>4. PipelineTypes'
  BY <1>1, <1>2, <1>3 DEF PipelineInv, PipelineTypes, ingestVars, ctxVars
<1>5. RunInv'
  BY <1>1, <1>2 DEF PipelineInv, RunInv, ctxVars
<1>6. MessagesAccounted'
  BY <1>1 DEF PipelineInv, MessagesAccounted, ingestVars, ctxVars
<1>7. Stored' \subseteq Stored /\ Listened' = Listened /\ inq' = inq /\ stq' = stq /\ batch' = batch /\ arrived' = arrived
  BY <1>1, <1>3 DEF Stored, Listened, ingestVars
<1>8. OrderInv'
  BY <1>2, <1>7 DEF PipelineInv, OrderInv, Before
<1>9. TableInv' /\ LandedInv'
  BY <1>1, InsertKeepsOrder, InsertLands DEF PipelineInv, OrderInv
<1>10. QED
  BY <1>1, <1>4, <1>5, <1>6, <1>8, <1>9 DEF PipelineInv

LEMMA PipelineStep == PipelineInv /\ [PipelineNext]_pipelineVars => PipelineInv'
<1> SUFFICES ASSUME PipelineInv, [PipelineNext]_pipelineVars PROVE PipelineInv'
  OBVIOUS
<1>1. CASE Handle
  BY <1>1, HandleKeeps
<1>2. CASE Daemon
  BY <1>2, ConsumeKeeps, EnqueueKeeps DEF Daemon
<1>3. CASE Select
  BY <1>3, TakeRowKeeps, RunMovesKeeps DEF Select
<1>4. CASE InsertBatch
  BY <1>4, InsertOkKeeps, InsertFailsKeeps, GiveUpKeeps DEF InsertBatch
<1>5. CASE Backoff
  BY <1>5, RunMovesKeeps, BackoffCutKeeps DEF Backoff
<1>6. CASE TickerFires \/ Cancel \/ UNCHANGED pipelineVars
  BY <1>6, TimersKeep
<1>7. QED
  BY <1>1, <1>2, <1>3, <1>4, <1>5, <1>6 DEF PipelineNext

\* Whatever Postgres does with an INSERT, and whenever timers fire and contexts end, every
\* message paho handed over is queued, dropped and counted, skipped, batched or counted as
\* written or failed, and rows reach the table in the order of their messages, except by
\* the retry of a batch (Daemon.Run, Store.Enqueue, Store.Run, writeBatch).
THEOREM PipelineIsSound == PipelineSpec => []PipelineSound
<1>1. PipelineSpec => []PipelineInv
  BY PipelineInitInv, PipelineStep, PTL DEF PipelineSpec
<1>2. QED
  BY <1>1, PipelineInvIsSound, PTL

-----------------------------------------------------------------------------
(* Queries *)

\* A bounded set of numbers has a largest: the one the least distance below the bound.
LEMMA LargestOf ==
  ASSUME NEW S \in SUBSET Nat, S # {}, NEW m \in Nat, \A s \in S : s <= m
  PROVE  Max(S) \in S /\ \A y \in S : y <= Max(S)
<1> DEFINE T == {k \in Nat : \E s \in S : k + s = m}
<1>1. T \in SUBSET Nat /\ T # {}
  <2>1. PICK s \in S : TRUE
      OBVIOUS
  <2>2. m - s \in Nat /\ (m - s) + s = m
      BY <2>1
  <2>3. QED
      BY <2>2
<1>2. PICK x \in T : \A y \in T : x <= y
  <2> HIDE DEF T
  <2> QED
      BY <1>1, SmallestOf
<1>3. PICK s \in S : x + s = m
    OBVIOUS
<1>4. ASSUME NEW y \in S PROVE s >= y
  <2>1. y \in Nat /\ s \in Nat /\ x \in Nat /\ y <= m
      OBVIOUS
  <2>2. m - y \in T
      BY <2>1
  <2>3. x <= m - y
      BY <1>2, <2>2
  <2>4. QED
      BY <1>3, <2>1, <2>3
<1>5. Max(S) \in S /\ \A y \in S : Max(S) >= y
    BY <1>4 DEF Max
<1>6. QED
    BY <1>5

LEMMA SmallerOf ==
  ASSUME NEW a \in Nat, NEW b \in Nat
  PROVE  Min({a, b}) = IF a <= b THEN a ELSE b
BY DEF Min

LEMMA BucketsAreRuns ==
  ASSUME NEW a \in Nat, NEW b \in Nat, NEW c \in Nat, a <= b, b <= c,
         a \div BucketWidth = c \div BucketWidth
  PROVE  b \div BucketWidth = c \div BucketWidth
BY PagingAssumption

\* The last time of a page is the time of one of its rows, and no row of it is later.
LEMMA LastIsLast ==
  ASSUME NEW page \in SUBSET StoredRow, page # {}
  PROVE  /\ Last(page) \in Times
         /\ \E l \in page : l.time = Last(page)
         /\ \A q \in page : q.time <= Last(page)
<1> DEFINE S == {r.time : r \in page}
<1>1. S \in SUBSET Nat /\ S # {} /\ MaxClock \in Nat /\ \A s \in S : s <= MaxClock
    BY PagingAssumption DEF StoredRow, Times
<1>2. Max(S) \in S /\ \A y \in S : y <= Max(S)
  <2> HIDE DEF S
  <2> QED
      BY <1>1, LargestOf
<1>3. Last(page) = Max(S)
    BY DEF Last
<1>4. \A r \in page : r.time \in Times
    BY DEF StoredRow
<1>5. QED
    BY <1>2, <1>3, <1>4

LEMMA LimitIsPositive ==
  ASSUME NEW req \in Request
  PROVE  Limit(req) \in Nat \ {0}
BY PagingAssumption DEF Limit, Request

LEMMA CandidatesAreRows ==
  ASSUME NEW req, NEW tok, NEW rows \in Candidates(req, tok)
  PROVE  rows \subseteq InRange(req, tok)
BY DEF Candidates, Distincts

\* What a page holds: all the rows if they fit, and else some rows that none of the others
\* comes before.
LEMMA PageHolds ==
  ASSUME PagingTypeOK, IsFiniteSet(stored), NEW req \in Request, NEW tok,
         NEW rows \in Candidates(req, tok), NEW page \in Firsts(rows, Limit(req))
  PROVE  /\ page \subseteq rows /\ rows \subseteq InRange(req, tok)
         /\ Cardinality(rows) \in Nat
         /\ Cardinality(rows) <= Limit(req) => page = rows
         /\ Cardinality(rows) > Limit(req) =>
              /\ Last(page) \in Times
              /\ \E l \in page : l.time = Last(page)
              /\ \A q \in page : q.time <= Last(page)
              /\ \A q \in rows \ page : Last(page) <= q.time
<1>1. page \subseteq rows /\ rows \subseteq InRange(req, tok)
    BY CandidatesAreRows DEF Firsts
<1>2. rows \subseteq stored /\ rows \subseteq StoredRow
    BY <1>1 DEF InRange, PagingTypeOK
<1>3. IsFiniteSet(rows) /\ Cardinality(rows) \in Nat
    BY <1>2, FS_Subset, FS_CardinalityType
<1>4. Limit(req) \in Nat \ {0}
    BY LimitIsPositive
<1>5. Cardinality(page) = IF Limit(req) <= Cardinality(rows) THEN Limit(req) ELSE Cardinality(rows)
    BY <1>3, <1>4, SmallerOf DEF Firsts
<1>6. ASSUME Cardinality(rows) <= Limit(req) PROVE page = rows
  <2>1. Cardinality(page) = Cardinality(rows)
      BY <1>3, <1>4, <1>5, <1>6
  <2>2. QED
      BY <1>1, <1>3, <2>1, FS_Subset
<1>7. ASSUME Cardinality(rows) > Limit(req)
      PROVE  /\ Last(page) \in Times
             /\ \E l \in page : l.time = Last(page)
             /\ \A q \in page : q.time <= Last(page)
             /\ \A q \in rows \ page : Last(page) <= q.time
  <2>1. Cardinality(page) # 0
      BY <1>3, <1>4, <1>5, <1>7
  <2>2. page # {}
      BY <2>1, FS_EmptySet
  <2>3. page \in SUBSET StoredRow
      BY <1>1, <1>2
  <2>4. /\ Last(page) \in Times
        /\ \E l \in page : l.time = Last(page)
        /\ \A q \in page : q.time <= Last(page)
      BY <2>2, <2>3, LastIsLast
  <2>5. \A r \in page, q \in rows \ page : r.time <= q.time
      BY DEF Firsts
  <2>6. QED
      BY <2>4, <2>5
<1>8. QED
    BY <1>1, <1>3, <1>6, <1>7

\* A row of the range no later than the page's end is on the page, or the last row of its
\* bucket is, or it has the very time the page ended at.  The last row of a bucket cannot be
\* left out when an earlier row's time is at most the page's end: the row at that end would
\* be in the same bucket, and there is one row of a bucket.
LEMMA PageCovers ==
  ASSUME PagingTypeOK, IsFiniteSet(stored), NEW req \in Request, NEW tok,
         NEW rows \in Candidates(req, tok), NEW page \in Firsts(rows, Limit(req)),
         NEW r \in InRange(req, tok), Cardinality(rows) > Limit(req) => r.time <= Last(page)
  PROVE  \/ req.bucket /\ \E q \in page : Bucket(q) = Bucket(r) /\ q.time >= r.time
         \/ ~req.bucket /\ r \in page
         \/ Cardinality(rows) > Limit(req) /\ r.time = Last(page)
<1> DEFINE more == Cardinality(rows) > Limit(req)
<1>1. /\ page \subseteq rows /\ rows \subseteq InRange(req, tok)
      /\ ~more => page = rows
      /\ more => /\ Last(page) \in Times
                 /\ \E l \in page : l.time = Last(page)
                 /\ \A q \in page : q.time <= Last(page)
                 /\ \A q \in rows \ page : Last(page) <= q.time
  <2>1. Limit(req) \in Nat
      BY LimitIsPositive
  <2>2. QED
      BY <2>1, PageHolds
<1>2. \A q \in InRange(req, tok) : q.time \in Nat
    BY DEF InRange, PagingTypeOK, StoredRow, Times
<1>3. req.bucket \in BOOLEAN
    BY DEF Request
<1>4. CASE ~req.bucket
  <2>1. rows = InRange(req, tok)
      BY <1>4 DEF Candidates
  <2>2. CASE r \in page
      BY <1>4, <2>2
  <2>3. CASE r \notin page
    <3>1. more
        BY <1>1, <2>1, <2>3
    <3>2. Last(page) <= r.time /\ r.time <= Last(page) /\ Last(page) \in Nat
        BY <1>1, <2>1, <2>3, <3>1 DEF Times
    <3>3. r.time = Last(page)
        BY <1>2, <3>2
    <3>4. QED
        BY <3>1, <3>3
  <2>4. QED
      BY <2>2, <2>3
<1>5. CASE req.bucket
  <2>1. /\ \A p, q \in rows : Bucket(p) = Bucket(q) => p = q
        /\ \E q \in rows : Bucket(q) = Bucket(r) /\ q.time >= r.time
      BY <1>5 DEF Candidates, Distincts
  <2>2. PICK q \in rows : Bucket(q) = Bucket(r) /\ q.time >= r.time
      BY <2>1
  <2>3. q \in page
    <3>1. SUFFICES ASSUME q \notin page PROVE FALSE
        OBVIOUS
    <3>2. more
        BY <1>1, <3>1
    <3>3. PICK l \in page : l.time = Last(page)
        BY <1>1, <3>2
    <3>4. l \in rows /\ l.time <= q.time /\ r.time <= l.time
        BY <1>1, <3>1, <3>2, <3>3
    <3>5. r.time \in Nat /\ l.time \in Nat /\ q.time \in Nat
        BY <1>1, <1>2, <3>4
    <3>6. Bucket(l) = Bucket(q)
        BY <2>2, <3>4, <3>5, BucketsAreRuns DEF Bucket
    <3>7. QED
        BY <2>1, <3>1, <3>3, <3>4, <3>6
  <2>4. QED
      BY <1>5, <2>2, <2>3
<1>6. QED
    BY <1>3, <1>4, <1>5

-----------------------------------------------------------------------------
(* The client's token is the time its last page ended at, and no row it has is later. *)
TokenInv ==
  client = "paging" =>
    /\ token \in Times /\ token \in ends
    /\ \A q \in got : q.time <= token

\* Before the first request there is nothing.
FreshInv == client = "none" => got = {} /\ atFirst = {}

\* The range's open end only moves on: what was in it at first stays before its end.
AtFirstInv ==
  client # "none" => \A r \in atFirst : r \in stored /\ r.time < To(asked)

\* A row of the first range that the token went by is accounted for.
AccountedFor(r) == Sampled(r) \/ r.time \in ends
PassedInv ==
  (client = "paging" /\ ~slid) => \A r \in atFirst : r.time <= token => AccountedFor(r)
DoneInv == (client = "done" /\ ~slid) => \A r \in atFirst : AccountedFor(r)

PagingInv ==
  /\ PagingTypeOK /\ IsFiniteSet(stored) /\ got \subseteq stored
  /\ FreshInv /\ TokenInv /\ AtFirstInv /\ PassedInv /\ DoneInv

\* One request, the first or a later one: what it returns is stored and in the range, the
\* token is the last time returned, and every row of the range that the page went by, all
\* of them on the last page, is accounted for.
LEMMA PageStep ==
  ASSUME PagingTypeOK, IsFiniteSet(stored), got \subseteq stored,
         NEW req \in Request, NEW tok, Page(req, tok), asked' = req
  PROVE  /\ got \subseteq got' /\ got' \subseteq stored /\ (got' \ got) \subseteq InRange(req, tok)
         /\ ends \subseteq ends' /\ ends' \subseteq Times
         /\ client' \in {"paging", "done"}
         /\ client' = "done" => token' = Open /\ \A r \in InRange(req, tok) : AccountedFor(r)'
         /\ client' = "paging" =>
              /\ token' \in Times /\ token' \in ends'
              /\ \A q \in got' \ got : q.time <= token'
              /\ \E q \in InRange(req, tok) : q.time = token'
              /\ \A r \in InRange(req, tok) : r.time <= token' => AccountedFor(r)'
<1>0. PICK rows \in Candidates(req, tok) : \E page \in Firsts(rows, Limit(req)) :
        /\ got' = got \cup page
        /\ IF Cardinality(rows) > Limit(req)
           THEN token' = Last(page) /\ client' = "paging" /\ ends' = ends \cup {Last(page)}
           ELSE token' = Open /\ client' = "done" /\ UNCHANGED ends
    BY DEF Page
<1>1. PICK page \in Firsts(rows, Limit(req)) :
        /\ got' = got \cup page
        /\ IF Cardinality(rows) > Limit(req)
           THEN token' = Last(page) /\ client' = "paging" /\ ends' = ends \cup {Last(page)}
           ELSE token' = Open /\ client' = "done" /\ UNCHANGED ends
    BY <1>0
<1>2. /\ page \subseteq rows /\ rows \subseteq InRange(req, tok)
      /\ Cardinality(rows) > Limit(req) =>
           /\ Last(page) \in Times
           /\ \E l \in page : l.time = Last(page)
           /\ \A q \in page : q.time <= Last(page)
    BY PageHolds
<1>3. ends \subseteq Times /\ InRange(req, tok) \subseteq stored
    BY DEF PagingTypeOK, InRange
<1>4. ASSUME NEW r \in InRange(req, tok), Cardinality(rows) > Limit(req) => r.time <= Last(page)
      PROVE  AccountedFor(r)'
  <2>1. \/ req.bucket /\ \E q \in page : Bucket(q) = Bucket(r) /\ q.time >= r.time
        \/ ~req.bucket /\ r \in page
        \/ Cardinality(rows) > Limit(req) /\ r.time = Last(page)
      BY <1>4, PageCovers
  <2>2. QED
      BY <1>1, <2>1 DEF AccountedFor, Sampled, Bucket
<1>5. CASE Cardinality(rows) > Limit(req)
  <2>1. token' = Last(page) /\ client' = "paging" /\ ends' = ends \cup {Last(page)}
      BY <1>1, <1>5
  <2>2. \A r \in InRange(req, tok) : r.time <= token' => AccountedFor(r)'
      BY <1>4, <2>1
  <2>3. QED
      BY <1>1, <1>2, <1>3, <1>5, <2>1, <2>2
<1>6. CASE ~(Cardinality(rows) > Limit(req))
  <2>1. token' = Open /\ client' = "done" /\ ends' = ends
      BY <1>1, <1>6
  <2>2. \A r \in InRange(req, tok) : AccountedFor(r)'
      BY <1>4, <1>6
  <2>3. QED
      BY <1>1, <1>2, <1>3, <2>1, <2>2
<1>7. QED
    BY <1>5, <1>6

\* What a next page returns is after the token: the range starts at the token, or later.
LEMMA AfterToken ==
  ASSUME PagingTypeOK, token \in Times, NEW r \in InRange(asked, token)
  PROVE  token < r.time /\ (From(asked) <= token => After(asked, token) = token)
<1>1. /\ token \in Nat /\ token # Open
      /\ clock \in Nat /\ asked.to \in Nat /\ asked.from \in Nat /\ r.time \in Nat
    BY DEF PagingTypeOK, Request, InRange, StoredRow, Times, Open
<1>2. To(asked) \in Nat
    BY <1>1 DEF To
<1>3. From(asked) \in Int
    BY <1>1, <1>2, PagingAssumption DEF From
<1>4. After(asked, token) < r.time
    BY DEF InRange
<1>5. QED
    BY <1>1, <1>3, <1>4 DEF After

LEMMA PagingInit1 == PagingInit => PagingInv
<1> SUFFICES ASSUME PagingInit PROVE PagingInv
    OBVIOUS
<1>1. 1 \in Times
    BY PagingAssumption DEF Times
<1>2. AnyRequest \in Request
    BY PagingAssumption DEF AnyRequest, Request
<1>3. QED
    BY <1>1, <1>2, FS_EmptySet
    DEF PagingInit, PagingInv, PagingTypeOK, FreshInv, TokenInv, AtFirstInv, PassedInv, DoneInv

\* A number of rows of one time is less than the rows there may be.
LEMMA InsertKeepsType ==
  ASSUME PagingTypeOK, IsFiniteSet(stored), NEW time \in Times, Insert(time)
  PROVE  stored' \subseteq StoredRow /\ IsFiniteSet(stored')
<1> DEFINE same == {r \in stored : r.time = time}
<1>1. /\ IsFiniteSet(same) /\ Cardinality(same) <= Cardinality(stored)
      /\ Cardinality(same) \in Nat /\ Cardinality(stored) \in Nat
    BY FS_Subset, FS_CardinalityType
<1>2. Cardinality(same) \in 0..MaxRows
    BY <1>1, PagingAssumption DEF Insert
<1>3. PICK row \in StoredRow : stored' = stored \cup {row}
  <2> DEFINE row == [id |-> Cardinality(same), time |-> time]
  <2>1. row \in StoredRow
    <3> HIDE DEF same
    <3> QED
        BY <1>2 DEF StoredRow
  <2>2. stored' = stored \cup {row}
      BY DEF Insert
  <2>3. QED
      BY <2>1, <2>2
<1>4. IsFiniteSet(stored')
    BY <1>3, FS_AddElement
<1>5. QED
    BY <1>3, <1>4 DEF PagingTypeOK

LEMMA InsertKeeps ==
  ASSUME PagingInv, NEW time \in Times, Insert(time)
  PROVE  PagingInv'
<1>1. PagingTypeOK' /\ IsFiniteSet(stored')
    BY InsertKeepsType DEF PagingInv, PagingTypeOK, Insert
<1>2. stored \subseteq stored'
    BY DEF Insert
<1>3. QED
    BY <1>1, <1>2
    DEF PagingInv, Insert, FreshInv, TokenInv, AtFirstInv, PassedInv, DoneInv,
        AccountedFor, Sampled, To

LEMMA ClockKeeps ==
  ASSUME PagingInv, ClockTicks
  PROVE  PagingInv'
<1>1. PagingTypeOK'
    BY PagingAssumption DEF PagingInv, PagingTypeOK, ClockTicks, Times
<1>2. AtFirstInv'
  <2>1. clock \in Nat /\ asked.to \in Nat /\ \A r \in atFirst : r.time \in Nat
      BY DEF PagingInv, PagingTypeOK, Request, StoredRow, Times, Open
  <2>2. QED
      BY <2>1 DEF PagingInv, AtFirstInv, ClockTicks, To
<1>3. QED
    BY <1>1, <1>2
    DEF PagingInv, ClockTicks, FreshInv, TokenInv, PassedInv, DoneInv, AccountedFor, Sampled

LEMMA StatusKeeps ==
  ASSUME PagingInv, Status
  PROVE  PagingInv'
<1>1. lastSeen' \in {Open} \cup Times
  <2> DEFINE recent == {r \in stored : r.time > clock - Hour}
  <2>1. recent \in SUBSET StoredRow
      BY DEF PagingInv, PagingTypeOK
  <2>2. recent # {} => Last(recent) \in Times
    <3> HIDE DEF recent
    <3> QED
        BY <2>1, LastIsLast
  <2>3. lastSeen' = IF recent = {} THEN Open ELSE Last(recent)
      BY DEF Status
  <2>4. QED
      BY <2>2, <2>3
<1>2. PagingTypeOK'
    BY <1>1 DEF PagingInv, PagingTypeOK, Status
<1>3. QED
    BY <1>2
    DEF PagingInv, Status, FreshInv, TokenInv, AtFirstInv, PassedInv, DoneInv,
        AccountedFor, Sampled, To

LEMMA FirstPageKeeps ==
  ASSUME PagingInv, NEW req \in Request, FirstPage(req)
  PROVE  PagingInv'
<1>1. /\ PagingTypeOK /\ IsFiniteSet(stored) /\ got \subseteq stored
      /\ Page(req, Open) /\ asked' = req /\ got = {}
    BY DEF PagingInv, FirstPage, FreshInv
<1>2. /\ got' \subseteq stored /\ (got' \ got) \subseteq InRange(req, Open)
      /\ ends' \subseteq Times
      /\ client' \in {"paging", "done"}
      /\ client' = "done" => token' = Open /\ \A r \in InRange(req, Open) : AccountedFor(r)'
      /\ client' = "paging" =>
           /\ token' \in Times /\ token' \in ends'
           /\ \A q \in got' \ got : q.time <= token'
           /\ \A r \in InRange(req, Open) : r.time <= token' => AccountedFor(r)'
    BY <1>1, PageStep
<1>3. atFirst' = InRange(req, Open) /\ stored' = stored /\ clock' = clock /\ slid' = slid
      /\ lastSeen' = lastSeen
    BY DEF FirstPage
<1>4. atFirst' \subseteq stored /\ stored \subseteq StoredRow
    BY <1>1, <1>3 DEF InRange, PagingTypeOK
<1>5. PagingTypeOK'
  <2>1. got' \subseteq StoredRow /\ atFirst' \subseteq StoredRow
      BY <1>2, <1>4
  <2>2. token' \in {Open} \cup Times /\ client' \in {"none", "paging", "done"}
      BY <1>2
  <2>3. QED
      BY <1>1, <1>2, <1>3, <2>1, <2>2 DEF PagingTypeOK
<1>6. AtFirstInv'
    BY <1>1, <1>3 DEF AtFirstInv, InRange, To
<1>7. TokenInv' /\ FreshInv'
    BY <1>1, <1>2 DEF TokenInv, FreshInv
<1>8. PassedInv' /\ DoneInv'
    BY <1>2, <1>3 DEF PassedInv, DoneInv
<1>9. QED
    BY <1>1, <1>2, <1>3, <1>5, <1>6, <1>7, <1>8 DEF PagingInv

LEMMA NextPageKeeps ==
  ASSUME PagingInv, NextPage
  PROVE  PagingInv'
<1>1. /\ PagingTypeOK /\ IsFiniteSet(stored) /\ got \subseteq stored
      /\ asked \in Request /\ Page(asked, token) /\ asked' = asked /\ client = "paging"
      /\ token \in Times /\ \A q \in got : q.time <= token
    BY DEF PagingInv, NextPage, TokenInv, PagingTypeOK
<1>2. /\ got \subseteq got' /\ got' \subseteq stored /\ (got' \ got) \subseteq InRange(asked, token)
      /\ ends \subseteq ends' /\ ends' \subseteq Times
      /\ client' \in {"paging", "done"}
      /\ client' = "done" => token' = Open /\ \A r \in InRange(asked, token) : AccountedFor(r)'
      /\ client' = "paging" =>
           /\ token' \in Times /\ token' \in ends'
           /\ \A q \in got' \ got : q.time <= token'
           /\ \E q \in InRange(asked, token) : q.time = token'
           /\ \A r \in InRange(asked, token) : r.time <= token' => AccountedFor(r)'
    BY <1>1, PageStep
<1>3. /\ stored' = stored /\ clock' = clock /\ atFirst' = atFirst /\ lastSeen' = lastSeen
      /\ slid' = (slid \/ From(asked) > token)
    BY DEF NextPage
<1>4. PagingTypeOK'
  <2>1. got' \subseteq StoredRow /\ slid' \in BOOLEAN
    <3>1. slid \in BOOLEAN /\ stored \subseteq StoredRow
        BY <1>1 DEF PagingTypeOK
    <3>2. QED
        BY <1>2, <1>3, <3>1
  <2>2. token' \in {Open} \cup Times /\ client' \in {"none", "paging", "done"}
      BY <1>2
  <2>3. QED
      BY <1>1, <1>2, <1>3, <2>1, <2>2 DEF PagingTypeOK
<1>5. AtFirstInv'
    BY <1>1, <1>3 DEF PagingInv, AtFirstInv, To
<1>6. TokenInv' /\ FreshInv'
  <2>1. ASSUME client' = "paging", NEW q \in got' PROVE q.time <= token'
    <3>1. PICK p \in InRange(asked, token) : p.time = token'
        BY <1>2, <2>1
    <3>2. token < token'
        BY <1>1, <3>1, AfterToken
    <3>3. q.time \in Nat /\ token \in Nat /\ token' \in Nat
        BY <1>1, <1>2, <2>1 DEF PagingTypeOK, StoredRow, Times
    <3>4. q.time <= token \/ q.time <= token'
        BY <1>1, <1>2, <2>1
    <3>5. QED
        BY <3>2, <3>3, <3>4
  <2>2. QED
      BY <1>2, <2>1 DEF TokenInv, FreshInv
<1>7. ASSUME NEW r \in atFirst, ~slid', client' = "paging" => r.time <= token'
      PROVE  AccountedFor(r)'
  <2>1. ~slid /\ ~(From(asked) > token)
      BY <1>3, <1>7
  <2>2. /\ r \in stored /\ r.time < To(asked)
        /\ r.time <= token => AccountedFor(r)
      BY <1>1, <2>1 DEF PagingInv, AtFirstInv, PassedInv
  <2>3. CASE r.time <= token
      BY <1>1, <1>2, <2>2, <2>3 DEF AccountedFor, Sampled, Bucket
  <2>4. CASE ~(r.time <= token)
    <3>1. token < r.time /\ From(asked) <= token
      <4>1. /\ clock \in Nat /\ asked.to \in Nat /\ asked.from \in Nat
            /\ token \in Nat /\ r.time \in Nat
          BY <1>1, <2>2 DEF PagingTypeOK, Request, StoredRow, Times, Open
      <4>2. To(asked) \in Nat
          BY <4>1 DEF To
      <4>3. From(asked) \in Int
          BY <4>1, <4>2, PagingAssumption DEF From
      <4>4. QED
          BY <2>1, <2>4, <4>1, <4>3
    <3>2. After(asked, token) = token
      <4>1. token # Open
          BY <1>1 DEF Times, Open
      <4>2. token = From(asked) \/ token > From(asked)
        <5>1. token \in Nat /\ clock \in Nat /\ asked.to \in Nat /\ asked.from \in Nat
            BY <1>1 DEF PagingTypeOK, Request, Times, Open
        <5>2. From(asked) \in Int
            BY <5>1, PagingAssumption DEF From, To
        <5>3. QED
            BY <3>1, <5>1, <5>2
      <4>3. QED
          BY <4>1, <4>2 DEF After
    <3>3. r \in InRange(asked, token)
        BY <2>2, <3>1, <3>2 DEF InRange
    <3>4. QED
        BY <1>2, <1>7, <3>3
  <2>5. QED
      BY <2>3, <2>4
<1>8. PassedInv' /\ DoneInv'
    BY <1>3, <1>7 DEF PassedInv, DoneInv
<1>9. QED
    BY <1>2, <1>3, <1>4, <1>5, <1>6, <1>8 DEF PagingInv

LEMMA PagingStep ==
  PagingInv /\ [PagingNext]_pagingVars => PagingInv'
<1> SUFFICES ASSUME PagingInv, [PagingNext]_pagingVars PROVE PagingInv'
    OBVIOUS
<1>1. CASE \E time \in Times : Insert(time)
    BY <1>1, InsertKeeps
<1>2. CASE ClockTicks
    BY <1>2, ClockKeeps
<1>3. CASE NextPage
    BY <1>3, NextPageKeeps
<1>4. CASE Status
    BY <1>4, StatusKeeps
<1>5. CASE \E req \in Request : FirstPage(req)
    BY <1>5, FirstPageKeeps
<1>6. CASE UNCHANGED pagingVars
    BY <1>6 DEF PagingInv, pagingVars, PagingTypeOK, FreshInv, TokenInv, AtFirstInv, PassedInv,
                DoneInv, AccountedFor, Sampled, To
<1>7. QED
    BY <1>1, <1>2, <1>3, <1>4, <1>5, <1>6 DEF PagingNext

LEMMA PagingInvHolds == PagingSpec => []PagingInv
BY PagingInit1, PagingStep, PTL DEF PagingSpec

LEMMA PagingInvIsSound == PagingInv => PagingSound
<1> SUFFICES ASSUME PagingInv PROVE PagingSound
    OBVIOUS
<1>1. PagingTypeOK /\ got \subseteq stored /\ DoneInv
    BY DEF PagingInv
<1>2. Cardinality(got) <= Cardinality(stored)
    BY FS_Subset DEF PagingInv
<1>3. QED
    BY <1>1, <1>2 DEF PagingSound, DoneInv, AccountedFor

\* However rows come in while a client pages, and whatever Postgres picks among rows of one
\* time: when QueryTelemetry gives no further token the client has, of the rows that were in
\* the range of its first request, each one (or a row of its bucket), but for rows at the
\* time a page ended at and what an open From slid over; and it has only rows of the store.
THEOREM PagingIsSound == PagingSpec => []PagingSound
<1>1. PagingInv => PagingSound
    BY PagingInvIsSound
<1>2. QED
    BY <1>1, PagingInvHolds, PTL

\* What a page token asks for is after everything the client got before: Query's range starts
\* at the token, which is the last time returned so far.
THEOREM PagesOnlyGoOn == PagingSpec => PagesGoOn
<1>1. PagingInv /\ [PagingNext]_pagingVars
        => [client = "paging" => \A r \in got' \ got, q \in got : q.time < r.time]_pagingVars
  <2> SUFFICES ASSUME PagingInv, [PagingNext]_pagingVars, client = "paging",
                      NEW r \in got' \ got, NEW q \in got
               PROVE  q.time < r.time
      OBVIOUS
  <2>1. CASE NextPage
    <3>1. /\ PagingTypeOK /\ IsFiniteSet(stored) /\ got \subseteq stored
          /\ asked \in Request /\ Page(asked, token) /\ asked' = asked
          /\ token \in Times /\ q.time <= token
        BY <2>1 DEF PagingInv, NextPage, TokenInv, PagingTypeOK
    <3>2. r \in InRange(asked, token)
        BY <3>1, PageStep
    <3>3. token < r.time
        BY <3>1, <3>2, AfterToken
    <3>4. q.time \in Nat /\ token \in Nat /\ r.time \in Nat
        BY <3>1, <3>2 DEF PagingTypeOK, StoredRow, Times, InRange
    <3>5. QED
        BY <3>1, <3>3, <3>4
  <2>2. CASE ~NextPage
      BY <2>2 DEF PagingNext, Insert, ClockTicks, Status, pagingVars
  <2>3. QED
      BY <2>1, <2>2
<1>2. QED
    BY <1>1, PagingInvHolds, PTL DEF PagingSpec, PagesGoOn
=============================================================================
