----------------------------- MODULE RobotProofs -----------------------------
(***************************************************************************)
(* Theorems about the robot's side, for any number of runs, calls,         *)
(* layouts, subscribers and poses: the task slot of the SDK                *)
(* (AgentTaskSlot), the loops behind the emergency brake (RobotMonitor),   *)
(* the skills of the Slamtec driver (SlamtecDriver) and the poses on their *)
(* way to core (PoseStream).                                               *)
(***************************************************************************)
EXTENDS AgentTaskSlot, RobotMonitor, SlamtecDriver, PoseStream, SequenceLemmas

(* The task slot *)

\* What the goroutine of a run has acknowledged of its own outcome.
Told(r) == acks[r] \cap {"finished", "failed"}
\* An abort of the run has succeeded.
Aborted(r) == r \in aborting \/ "aborted" \in acks[r]

\* A run not begun has left no trace; an outcome of the handler is told once and last.
TracesInv ==
  \A r \in Runs :
    /\ slotRun[r].pc = "new" => acks[r] = {} /\ ~Aborted(r)
    /\ slotRun[r].pc # "over" => Told(r) = {}
    /\ \A a, b \in Told(r) : a = b
    /\ r \in aborting => "aborted" \notin acks[r]

\* The run in the slot is at work and not aborted; an aborted one's context is cancelled.
CurrentInv ==
  /\ current # NoRun => slotRun[current].pc \in {"start", "execute", "clear"} /\ ~Aborted(current)
  /\ \A r \in Runs : Aborted(r) => slotRun[r].ctx = "cancelled"

\* The goroutine that found its own id in the slot was not aborted, if the id came once.
ClearedInv ==
  \A r \in Runs :
    (~Repeated(slotRun[r].task) /\ (slotRun[r].pc = "answer" \/ Told(r) # {})) => ~Aborted(r)

\* The inductive invariant of the slot.
SlotInv == SlotTypeOK /\ TracesInv /\ CurrentInv /\ ClearedInv /\ OneLiveHandler
-----------------------------------------------------------------------------
\* An id that has come twice stays one that has.
LEMMA RepeatedStays ==
  ASSUME NEW t, Repeated(t),
         \A r \in Runs : HasBegun(r) => HasBegun(r)' /\ (slotRun[r].task)' = slotRun[r].task
  PROVE  Repeated(t)'
BY DEF Repeated

LEMMA SlotInitInv == SlotInit => SlotInv
<1> SUFFICES ASSUME SlotInit PROVE SlotInv
    OBVIOUS
<1> USE DEF SlotInit
<1>1. (CHOOSE t \in Tasks : TRUE) \in Tasks
    BY SlotAssumption
<1>2. NoRun \notin Runs
    BY DEF NoRun, Runs
<1>3. SlotTypeOK
    BY <1>1 DEF SlotTypeOK
<1>4. TracesInv /\ CurrentInv /\ ClearedInv
    BY DEF TracesInv, CurrentInv, ClearedInv, Told, Aborted
<1>5. OneLiveHandler
    BY DEF OneLiveHandler
<1>6. QED
    BY <1>3, <1>4, <1>5 DEF SlotInv

LEMMA AcceptTaskInv ==
  ASSUME SlotInv, NEW r \in Runs, NEW t \in Tasks, AcceptTask(r, t)
  PROVE  SlotInv'
<1> USE DEF SlotInv, AcceptTask, NextRun, HasBegun
<1>1. SlotTypeOK'
    BY DEF SlotTypeOK
<1>2. /\ slotRun'[r].task = t /\ slotRun'[r].pc = "start" /\ slotRun[r].pc = "new"
      /\ slotRun'[r].ctx = slotRun[r].ctx
      /\ \A s \in Runs : s # r => slotRun'[s] = slotRun[s]
    BY DEF SlotTypeOK
<1>3. \A u : Repeated(u) => Repeated(u)'
    BY <1>2, RepeatedStays
<1>4. TracesInv'
    BY <1>2, ZenonT(30) DEF TracesInv, Told, Aborted
<1>5. CurrentInv'
    BY <1>2 DEF CurrentInv, TracesInv, Aborted, NoRun, Runs
<1>6. ClearedInv'
    BY <1>2, <1>3 DEF ClearedInv, TracesInv, Told, Aborted
<1>7. OneLiveHandler'
  <2>1. (\A u \in Tasks : ~Repeated(u)') => \A u \in Tasks : ~Repeated(u)
      BY <1>3
  <2>2. NoRun \notin Runs
      BY DEF NoRun, Runs
  <2>3. QED
      BY <1>2, <2>1, <2>2 DEF OneLiveHandler
<1>8. QED
    BY <1>1, <1>4, <1>5, <1>6, <1>7

\* Steps of a goroutine that keep its task: nothing that was repeated stops being so.
LEMMA TaskKept ==
  ASSUME \A r \in Runs : HasBegun(r)' = HasBegun(r) /\ (slotRun[r].task)' = slotRun[r].task
  PROVE  \A t : Repeated(t)' = Repeated(t)
BY DEF Repeated

LEMMA AckStartedInv ==
  ASSUME SlotInv, NEW r \in Runs, AckStarted(r)
  PROVE  SlotInv'
<1> USE DEF SlotInv, AckStarted
<1>1. SlotTypeOK'
    BY DEF SlotTypeOK
<1>2. /\ slotRun'[r] = [slotRun[r] EXCEPT !.pc = "execute"]
      /\ \A s \in Runs : s # r => slotRun'[s] = slotRun[s] /\ acks'[s] = acks[s]
      /\ acks'[r] = acks[r] \cup {"started"}
    BY DEF SlotTypeOK
<1>3. \A u : Repeated(u)' = Repeated(u)
  <2>1. \A s \in Runs : HasBegun(s)' = HasBegun(s) /\ (slotRun[s].task)' = slotRun[s].task
      BY <1>2 DEF HasBegun
  <2>2. QED
      BY <2>1, TaskKept
<1>4. TracesInv'
    BY <1>2 DEF TracesInv, Told, Aborted, SlotTypeOK
<1>5. CurrentInv'
    BY <1>1, <1>2 DEF CurrentInv, Aborted, SlotTypeOK
<1>6. ClearedInv'
    BY <1>1, <1>2, <1>3 DEF ClearedInv, Told, Aborted, SlotTypeOK
<1>7. OneLiveHandler'
    BY <1>1, <1>2, <1>3 DEF OneLiveHandler, SlotTypeOK
<1>8. QED
    BY <1>1, <1>4, <1>5, <1>6, <1>7

LEMMA HandlerReturnsInv ==
  ASSUME SlotInv, NEW r \in Runs, NEW err \in BOOLEAN, HandlerReturns(r, err)
  PROVE  SlotInv'
<1> USE DEF SlotInv, HandlerReturns
<1>1. SlotTypeOK'
    BY ZenonT(30) DEF SlotTypeOK
<1>2. /\ slotRun'[r].pc = "clear" /\ slotRun'[r].task = slotRun[r].task
      /\ slotRun'[r].ctx = slotRun[r].ctx
      /\ \A s \in Runs : s # r => slotRun'[s] = slotRun[s]
    BY DEF SlotTypeOK
<1>3. \A u : Repeated(u)' = Repeated(u)
  <2>1. \A s \in Runs : HasBegun(s)' = HasBegun(s) /\ (slotRun[s].task)' = slotRun[s].task
      BY <1>2 DEF HasBegun
  <2>2. QED
      BY <2>1, TaskKept
<1>4. TracesInv'
    BY <1>2 DEF TracesInv, Told, Aborted, SlotTypeOK
<1>5. CurrentInv'
    BY <1>1, <1>2 DEF CurrentInv, Aborted, SlotTypeOK
<1>6. ClearedInv'
    BY <1>1, <1>2, <1>3 DEF ClearedInv, Told, Aborted, SlotTypeOK
<1>7. OneLiveHandler'
    BY <1>1, <1>2, <1>3 DEF OneLiveHandler, SlotTypeOK
<1>8. QED
    BY <1>1, <1>4, <1>5, <1>6, <1>7

LEMMA ClearTaskInv ==
  ASSUME SlotInv, NEW r \in Runs, ClearTask(r)
  PROVE  SlotInv'
<1> USE DEF SlotInv, ClearTask
<1>1. SlotTypeOK'
    BY DEF SlotTypeOK
<1>2. /\ slotRun'[r].pc \in {"answer", "over"} /\ slotRun'[r].task = slotRun[r].task
      /\ slotRun'[r].ctx = slotRun[r].ctx /\ slotRun[r].pc = "clear"
      /\ \A s \in Runs : s # r => slotRun'[s] = slotRun[s]
    BY DEF SlotTypeOK
<1>3. \A u : Repeated(u)' = Repeated(u)
  <2>1. \A s \in Runs : HasBegun(s)' = HasBegun(s) /\ (slotRun[s].task)' = slotRun[s].task
      BY <1>2 DEF HasBegun
  <2>2. QED
      BY <2>1, TaskKept
<1>4. TracesInv'
    BY <1>2 DEF TracesInv, Told, Aborted, SlotTypeOK
<1>5. CurrentInv'
    BY <1>1, <1>2 DEF CurrentInv, Aborted, SlotTypeOK
\* A slot with this id holds this run, or the id has come twice.
<1>6. (slotRun'[r].pc = "answer" /\ ~Repeated(slotRun[r].task)) => current = r
    BY <1>2 DEF SlotTypeOK, CurrentInv, Repeated, HasBegun
<1>7. ClearedInv'
    BY <1>1, <1>2, <1>3, <1>6 DEF ClearedInv, CurrentInv, Told, Aborted, SlotTypeOK
<1>8. OneLiveHandler'
  <2>1. SUFFICES ASSUME \A t \in Tasks : ~Repeated(t), NEW s \in Runs, s # r,
                        slotRun[s].pc \in {"start", "execute"}, slotRun[s].ctx = "live"
                 PROVE  current' = s
      BY <1>2, <1>3 DEF OneLiveHandler
  <2>2. current = s
      BY <2>1 DEF OneLiveHandler
  <2>3. slotRun[s].task # slotRun[r].task
      BY <1>2, <2>1 DEF Repeated, HasBegun, SlotTypeOK
  <2>4. QED
      BY <2>2, <2>3
<1>9. QED
    BY <1>1, <1>4, <1>5, <1>7, <1>8

LEMMA AckOutcomeInv ==
  ASSUME SlotInv, NEW r \in Runs, AckOutcome(r)
  PROVE  SlotInv'
<1> USE DEF SlotInv, AckOutcome
<1>1. SlotTypeOK'
    BY DEF SlotTypeOK
<1>2. /\ slotRun'[r].pc = "over" /\ slotRun'[r].task = slotRun[r].task
      /\ slotRun'[r].ctx = slotRun[r].ctx /\ slotRun[r].pc = "answer"
      /\ \A s \in Runs : s # r => slotRun'[s] = slotRun[s] /\ acks'[s] = acks[s]
      /\ \/ acks'[r] = acks[r] \cup {"failed"} \/ acks'[r] = acks[r] \cup {"finished"}
    BY DEF SlotTypeOK
<1>3. \A u : Repeated(u)' = Repeated(u)
  <2>1. \A s \in Runs : HasBegun(s)' = HasBegun(s) /\ (slotRun[s].task)' = slotRun[s].task
      BY <1>2 DEF HasBegun
  <2>2. QED
      BY <2>1, TaskKept
<1>4. TracesInv'
    BY <1>2 DEF TracesInv, Told, Aborted, SlotTypeOK
<1>5. CurrentInv'
    BY <1>1, <1>2 DEF CurrentInv, Aborted, SlotTypeOK
<1>6. ClearedInv'
    BY <1>1, <1>2, <1>3 DEF ClearedInv, Told, Aborted, SlotTypeOK
<1>7. OneLiveHandler'
    BY <1>1, <1>2, <1>3 DEF OneLiveHandler, SlotTypeOK
<1>8. QED
    BY <1>1, <1>4, <1>5, <1>6, <1>7

LEMMA AbortInv ==
  ASSUME SlotInv, NEW t \in Tasks, AbortCurrentTask(t)
  PROVE  SlotInv'
<1> USE DEF SlotInv, AbortCurrentTask
<1> DEFINE r == current
<1>1. SlotTypeOK' /\ r \in Runs
    BY DEF SlotTypeOK
<1>2. /\ slotRun'[r].pc = slotRun[r].pc /\ slotRun'[r].task = slotRun[r].task
      /\ slotRun'[r].ctx = "cancelled" /\ slotRun[r].pc \in {"start", "execute", "clear"}
      /\ \A s \in Runs : s # r => slotRun'[s] = slotRun[s]
    BY <1>1 DEF SlotTypeOK, CurrentInv
<1>3. \A u : Repeated(u)' = Repeated(u)
  <2>1. \A s \in Runs : HasBegun(s)' = HasBegun(s) /\ (slotRun[s].task)' = slotRun[s].task
      BY <1>2 DEF HasBegun
  <2>2. QED
      BY <2>1, TaskKept
<1>4. TracesInv'
    BY <1>1, <1>2 DEF TracesInv, CurrentInv, Told, Aborted, SlotTypeOK
<1>5. CurrentInv'
    BY <1>1, <1>2 DEF CurrentInv, Aborted, SlotTypeOK
<1>6. ClearedInv'
    BY <1>1, <1>2, <1>3 DEF ClearedInv, TracesInv, Told, Aborted, SlotTypeOK
<1>7. OneLiveHandler'
    BY <1>1, <1>2, <1>3 DEF OneLiveHandler, SlotTypeOK
<1>8. QED
    BY <1>1, <1>4, <1>5, <1>6, <1>7

LEMMA AckAbortedInv ==
  ASSUME SlotInv, NEW r \in Runs, AckAborted(r)
  PROVE  SlotInv'
<1> USE DEF SlotInv, AckAborted
<1>1. SlotTypeOK'
    BY DEF SlotTypeOK
<1>2. /\ acks'[r] = acks[r] \cup {"aborted"}
      /\ \A s \in Runs : s # r => acks'[s] = acks[s]
      /\ \A u : Repeated(u)' = Repeated(u)
    BY DEF SlotTypeOK, Repeated, HasBegun
<1>3. \A s \in Runs : Aborted(s)' = Aborted(s) /\ Told(s)' = Told(s)
    BY <1>2 DEF Aborted, Told
<1>4. TracesInv'
    BY <1>2, <1>3 DEF TracesInv, Aborted
<1>5. CurrentInv'
    BY <1>3 DEF CurrentInv, SlotTypeOK
<1>6. ClearedInv' /\ OneLiveHandler'
    BY <1>2, <1>3 DEF ClearedInv, OneLiveHandler
<1>7. QED
    BY <1>1, <1>4, <1>5, <1>6

LEMMA ParentCancelledInv ==
  ASSUME SlotInv, ParentCancelled
  PROVE  SlotInv'
<1> USE DEF SlotInv, ParentCancelled
<1>1. SlotTypeOK'
    BY DEF SlotTypeOK
<1>2. \A s \in Runs : /\ slotRun'[s].pc = slotRun[s].pc /\ slotRun'[s].task = slotRun[s].task
                      /\ HasBegun(s) => slotRun'[s].ctx = "cancelled"
    BY DEF SlotTypeOK
<1>3. \A u : Repeated(u)' = Repeated(u)
    BY <1>2 DEF Repeated, HasBegun
<1>4. TracesInv' /\ ClearedInv'
    BY <1>2, <1>3 DEF TracesInv, ClearedInv, Told, Aborted
<1>5. CurrentInv'
    BY <1>2 DEF CurrentInv, TracesInv, HasBegun, Aborted, SlotTypeOK
<1>6. OneLiveHandler'
    BY <1>2 DEF OneLiveHandler, HasBegun
<1>7. QED
    BY <1>1, <1>4, <1>5, <1>6

\* What the runs check of the slot follows from the invariant.
LEMMA SlotInvSound == SlotInv => SlotSound
<1> SUFFICES ASSUME SlotInv PROVE SlotSound
    OBVIOUS
<1> USE DEF SlotInv
<1>1. OneOutcome
  <2>1. SUFFICES ASSUME NEW r \in Runs, ~Repeated(slotRun[r].task)
                 PROVE  /\ \A a, b \in Outcomes(r) : a = b
                        /\ r \in aborting => Outcomes(r) = {}
      BY DEF OneOutcome
  <2>2. Told(r) # {} => ~Aborted(r)
      BY <2>1 DEF ClearedInv
  <2>3. /\ \A a, b \in Told(r) : a = b
        /\ r \in aborting => "aborted" \notin acks[r]
      BY DEF TracesInv
  <2>4. QED
      BY <2>2, <2>3 DEF Outcomes, Told, Aborted
<1>2. SlotIsFreed
    BY DEF SlotIsFreed, CurrentInv
<1>3. QED
    BY <1>1, <1>2 DEF SlotSound

\* The slot of the SDK, whatever tasks come however often: each task that comes once has
\* one outcome, at most one handler works uncancelled, and it is the one in the slot, and
\* a goroutine that is done never leaves the slot taken.
THEOREM SlotIsSound == SlotSpec => []SlotSound
<1>1. SlotInit => SlotInv
    BY SlotInitInv
<1>2. SlotInv /\ [SlotNext]_slotVars => SlotInv'
  <2> SUFFICES ASSUME SlotInv, [SlotNext]_slotVars PROVE SlotInv'
      OBVIOUS
  <2>1. ASSUME NEW r \in Runs, NEW t \in Tasks, AcceptTask(r, t) PROVE SlotInv'
      BY <2>1, AcceptTaskInv
  <2>2. ASSUME NEW t \in Tasks, AbortCurrentTask(t) PROVE SlotInv'
      BY <2>2, AbortInv
  <2>3. ASSUME NEW r \in Runs, TaskGoroutine(r) PROVE SlotInv'
      BY <2>3, AckStartedInv, HandlerReturnsInv, ClearTaskInv, AckOutcomeInv DEF TaskGoroutine
  <2>4. ASSUME NEW r \in Runs, AckAborted(r) PROVE SlotInv'
      BY <2>4, AckAbortedInv
  <2>5. ASSUME ParentCancelled PROVE SlotInv'
      BY <2>5, ParentCancelledInv
  <2>6. ASSUME UNCHANGED slotVars PROVE SlotInv'
      BY <2>6 DEF slotVars, SlotInv, SlotTypeOK, TracesInv, CurrentInv, ClearedInv,
                  OneLiveHandler, Told, Aborted, Repeated, HasBegun
  <2>7. ASSUME NEW t \in Tasks, RefuseTask(t) PROVE SlotInv'
      BY <2>6, <2>7 DEF RefuseTask
  <2>8. QED
      BY <2>1, <2>2, <2>3, <2>4, <2>5, <2>6, <2>7 DEF SlotNext
<1>3. QED
    BY <1>1, <1>2, SlotInvSound, PTL DEF SlotSpec
-----------------------------------------------------------------------------
(* The loops behind the emergency brake *)

\* What the health loop polled is what it cached, and what it broadcasts is the new state.
LoopInv ==
  /\ hpc \in {"swap", "broadcast"} => health = polled
  /\ hpc = "broadcast" => brakeState = polled
  /\ hpc = "poll" => health = brakeState

\* Outside a broadcast a subscriber the last one reached has the state in its channel, or
\* has read it.
ChannelInv ==
  \A s \in brakeSubs \ missed :
    hpc # "broadcast" => \/ chan[s] = <<brakeState>>
                         \/ chan[s] = <<>> /\ known[s] = {brakeState}

\* The inductive invariant of the monitor.
MonitorInv == MonitorTypeOK /\ LoopInv /\ ChannelInv

\* A channel of capacity one is empty or holds one state.
LEMMA ChannelOfOne ==
  ASSUME NEW S, NEW q \in Seq(S), Len(q) <= 1, q # <<>>
  PROVE  q = <<Head(q)>> /\ Head(q) \in S /\ Tail(q) = <<>>
<1>1. Len(q) = 1 /\ q \in [1..1 -> S]
  <2>1. Len(q) \in Nat \ {0}
      BY EmptySeq
  <2>2. Len(q) = 1
      BY <2>1
  <2>3. q \in [1..Len(q) -> S]
      BY LenProperties
  <2>4. QED
      BY <2>2, <2>3
<1>2. q = <<q[1]>> /\ Head(q) = q[1]
    BY <1>1
<1>3. Head(q) \in S /\ Tail(q) \in Seq(S) /\ Len(Tail(q)) = 0
    BY <1>1, HeadTailProperties
<1>4. Tail(q) = <<>>
    BY <1>3, EmptySeq
<1>5. QED
    BY <1>2, <1>3, <1>4

LEMMA ChannelHolds ==
  ASSUME ChannelInv, NEW u \in brakeSubs, u \notin missed, hpc # "broadcast"
  PROVE  chan[u] = <<brakeState>> \/ (chan[u] = <<>> /\ known[u] = {brakeState})
BY DEF ChannelInv

LEMMA SwapBrakeInv ==
  ASSUME MonitorInv, SwapBrake
  PROVE  MonitorInv'
<1> USE DEF MonitorInv, SwapBrake
<1>1. MonitorTypeOK'
    BY DEF MonitorTypeOK
<1>2. LoopInv'
    BY DEF LoopInv, MonitorTypeOK
<1>3. ChannelInv'
    BY DEF ChannelInv, MonitorTypeOK
<1>4. QED
    BY <1>1, <1>2, <1>3

LEMMA BroadcastInv ==
  ASSUME MonitorInv, Broadcast
  PROVE  MonitorInv'
<1> USE DEF MonitorInv, Broadcast
<1>1. \A s \in Subs : chan'[s] \in {chan[s], <<polled>>}
    BY DEF MonitorTypeOK
<1>2. <<polled>> \in Seq(BOOLEAN) /\ Len(<<polled>>) <= 1
    BY DEF MonitorTypeOK
<1>3. chan' \in [Subs -> Seq(BOOLEAN)] /\ \A s \in Subs : Len(chan'[s]) <= 1
  <2>1. \A s \in Subs : chan'[s] \in Seq(BOOLEAN) /\ Len(chan'[s]) <= 1
      BY <1>1, <1>2, Zenon DEF MonitorTypeOK
  <2>2. QED
      BY <2>1
<1>4. MonitorTypeOK'
    BY <1>3 DEF MonitorTypeOK
<1>5. LoopInv'
    BY DEF LoopInv
<1>6. ChannelInv'
  <2>1. SUFFICES ASSUME NEW s \in brakeSubs, s \notin missed' PROVE chan'[s] = <<polled>>
      BY DEF ChannelInv, LoopInv
  <2>2. QED
      BY <2>1 DEF MonitorTypeOK
<1>7. QED
    BY <1>4, <1>5, <1>6

LEMMA BrakeChInv ==
  ASSUME MonitorInv, NEW s \in Subs, BrakeCh(s)
  PROVE  MonitorInv'
<1> USE DEF MonitorInv, BrakeCh
<1>1. <<brakeState>> \in Seq(BOOLEAN) /\ Len(<<brakeState>>) = 1
    BY DEF MonitorTypeOK
<1>2. MonitorTypeOK'
    BY <1>1 DEF MonitorTypeOK
<1>3. LoopInv'
    BY DEF LoopInv
<1>4. ChannelInv'
    BY DEF ChannelInv, MonitorTypeOK
<1>5. QED
    BY <1>2, <1>3, <1>4

LEMMA ReadBrakeInv ==
  ASSUME MonitorInv, NEW s \in Subs, ReadBrake(s)
  PROVE  MonitorInv'
<1> USE DEF MonitorInv, ReadBrake
<1>1. chan[s] = <<Head(chan[s])>> /\ Head(chan[s]) \in BOOLEAN /\ Tail(chan[s]) = <<>>
    BY ChannelOfOne DEF MonitorTypeOK
<1>2. /\ chan' = [chan EXCEPT ![s] = <<>>] /\ known' = [known EXCEPT ![s] = {Head(chan[s])}]
      /\ Len(<<>>) = 0 /\ <<>> \in Seq(BOOLEAN)
  <2>1. chan' = [chan EXCEPT ![s] = <<>>]
      BY <1>1
  <2>2. QED
      BY <2>1, EmptySeq
<1>3. MonitorTypeOK'
    BY <1>1, <1>2 DEF MonitorTypeOK
<1>4. LoopInv'
    BY DEF LoopInv
<1>5. ChannelInv'
  <2>1. SUFFICES ASSUME NEW u \in brakeSubs, u \notin missed, hpc # "broadcast"
                 PROVE  \/ chan'[u] = <<brakeState>>
                        \/ chan'[u] = <<>> /\ known'[u] = {brakeState}
      BY DEF ChannelInv
  <2>2. chan[u] = <<brakeState>> \/ (chan[u] = <<>> /\ known[u] = {brakeState})
      BY <2>1, ChannelHolds
  <2>3. CASE u = s
    <3>1. chan[s] = <<brakeState>>
        BY <2>2, <2>3
    <3>2. Head(chan[s]) = brakeState
        BY <3>1
    <3>3. QED
        BY <1>2, <2>1, <2>3, <3>2 DEF MonitorTypeOK
  <2>4. CASE u # s
      BY <1>2, <2>1, <2>2, <2>4 DEF MonitorTypeOK
  <2>5. QED
      BY <2>3, <2>4
<1>6. QED
    BY <1>3, <1>4, <1>5

\* Of the brake, for any number of subscribers and any changes of the robot: registering
\* before seeding loses no transition except to a full channel, and between two rounds of
\* the health loop the brake and the ESTOP status are one answer.
THEOREM MonitorIsSound == MonitorSpec => []MonitorSound
<1>1. MonitorInit => MonitorInv
  <2> SUFFICES ASSUME MonitorInit PROVE MonitorInv
      OBVIOUS
  <2>1. <<>> \in Seq(BOOLEAN) /\ Len(<<>>) = 0
      OBVIOUS
  <2>2. MonitorTypeOK
    <3>1. flips \in 0..MaxFlips
        BY MonitorAssumption DEF MonitorInit
    <3>2. chan \in [Subs -> Seq(BOOLEAN)] /\ \A s \in Subs : Len(chan[s]) <= 1
        BY <2>1 DEF MonitorInit
    <3>3. QED
        BY <3>1, <3>2 DEF MonitorInit, MonitorTypeOK
  <2>3. LoopInv /\ ChannelInv
      BY DEF MonitorInit, LoopInv, ChannelInv
  <2>4. QED
      BY <2>2, <2>3 DEF MonitorInv
<1>2. MonitorInv /\ [MonitorNext]_monitorVars => MonitorInv'
  <2> SUFFICES ASSUME MonitorInv, [MonitorNext]_monitorVars PROVE MonitorInv'
      OBVIOUS
  <2>1. ASSUME RobotChanges PROVE MonitorInv'
    <3>1. flips' \in 0..MaxFlips
        BY <2>1, MonitorAssumption DEF RobotChanges, MonitorInv, MonitorTypeOK
    <3>2. estop' \in BOOLEAN /\ docked' \in BOOLEAN
        BY <2>1, Zenon DEF RobotChanges, MonitorInv, MonitorTypeOK
    <3>3. MonitorTypeOK' /\ LoopInv' /\ ChannelInv'
        BY <2>1, <3>1, <3>2
           DEF RobotChanges, MonitorInv, MonitorTypeOK, LoopInv, ChannelInv
    <3>4. QED
        BY <3>3 DEF MonitorInv
  <2>2. ASSUME NEW reachable \in BOOLEAN, StartLoops(reachable) PROVE MonitorInv'
      BY <2>2 DEF StartLoops, MonitorInv, MonitorTypeOK, LoopInv, ChannelInv
  <2>3. ASSUME PollHealth PROVE MonitorInv'
      BY <2>3 DEF PollHealth, MonitorInv, MonitorTypeOK, LoopInv, ChannelInv
  <2>4. ASSUME PollPower PROVE MonitorInv'
      BY <2>4 DEF PollPower, MonitorInv, MonitorTypeOK, LoopInv, ChannelInv
  <2>5. ASSUME UNCHANGED monitorVars PROVE MonitorInv'
      BY <2>5 DEF monitorVars, MonitorInv, MonitorTypeOK, LoopInv, ChannelInv
  <2>6. QED
      BY <2>1, <2>2, <2>3, <2>4, <2>5, SwapBrakeInv, BroadcastInv, BrakeChInv, ReadBrakeInv
         DEF MonitorNext, HealthLoop
<1>3. MonitorInv => MonitorSound
  <2> SUFFICES ASSUME MonitorInv PROVE MonitorSound
      OBVIOUS
  <2>1. ReaderKnowsBrake
      BY DEF MonitorInv, MonitorTypeOK, ChannelInv, ReaderKnowsBrake
  <2>2. EstopFollowsBrake
      BY DEF MonitorInv, LoopInv, EstopFollowsBrake, IsStatusActive, IsBrakeOn
  <2>3. QED
      BY <2>1, <2>2 DEF MonitorInv, MonitorSound
<1>4. QED
    BY <1>1, <1>2, <1>3, PTL DEF MonitorSpec
-----------------------------------------------------------------------------
(* The skills of the Slamtec driver *)

\* Where a call stands fits its kind.
KindOK(x) ==
  /\ x.pc = "idle" <=> x.kind = NoKind
  /\ x.pc = "poll" => x.kind \in Moves \cup Jacks
  /\ x.pc = "settle" => x.kind = "localise"
  /\ x.pc = "store" => x.kind \in {"brakeon", "brakeoff"}
  /\ x.pc # "over" => x.result = "none"
KindInv == \A c \in Calls : KindOK(call[c])

\* The actions of a call are known to the robot, are a prefix of the plan, and have ended
\* well but for the last, that one too once the next is due or the call succeeded.
ActsOK(c) ==
  LET acts == call[c].acts
      plan == Plan(call[c].kind) IN
  /\ acts # <<>> => call[c].kind \in Moves
  /\ \A i \in DOMAIN acts : acts[i] \in DOMAIN motion /\ motion[acts[i]].kind = plan[i]
  /\ \A i \in DOMAIN acts : i < Len(acts) \/ call[c].pc = "request" => Ended(acts[i])
  /\ call[c].kind \in Moves =>
       /\ Len(acts) <= Len(plan)
       /\ call[c].pc = "request" => Len(acts) < Len(plan)
       /\ call[c].pc = "poll" => acts # <<>>
       /\ call[c].result = "success" =>
            Len(acts) = Len(plan) /\ \A i \in DOMAIN acts : Ended(acts[i])

\* Unless muddled, one call at a time keeps a copy in step, and it is where it says.
OnLayout(c) == Active(c) /\ call[c].kind = "localise"
OnSoft(c)   == Active(c) /\ Copy(call[c].kind) = "soft"

LayoutInv ==
  "layout" \notin muddled =>
    /\ \A c, d \in Calls : OnLayout(c) /\ OnLayout(d) => c = d
    /\ \A c \in Calls : OnLayout(c) =>
         layoutID = call[c].arg /\ (call[c].pc = "settle" => floor = layoutID)
    /\ (\A c \in Calls : ~OnLayout(c)) => layoutID = floor
SoftInv ==
  "soft" \notin muddled =>
    /\ \A c, d \in Calls : OnSoft(c) /\ OnSoft(d) => c = d
    /\ \A c \in Calls : call[c].pc = "store" => (brake <=> call[c].kind = "brakeon")
    /\ (\A c \in Calls : call[c].pc # "store") => (soft <=> brake)

\* The inductive invariant of the driver.
DriverInv ==
  /\ DriverTypeOK /\ KindInv /\ (\A c \in Calls : ActsOK(c))
  /\ MovesForSomeone /\ LayoutInv /\ SoftInv

\* An action of the robot that is over stays as it ended, whatever the robot does next.
MotionGrows ==
  \A k \in DOMAIN motion :
    /\ k \in DOMAIN motion' /\ motion'[k].kind = motion[k].kind
    /\ Ended(k) => Ended(k)'

\* What is kept of a call's actions is kept while the call itself takes no step.
LEMMA OtherActsOK ==
  ASSUME NEW d \in Calls, ActsOK(d), call'[d] = call[d], MotionGrows
  PROVE  ActsOK(d)'
BY DEF ActsOK, MotionGrows

\* A call whose actions have all ended well, and that the next one may be due for.
LEMMA EndedActsOK ==
  ASSUME NEW c \in Calls, ActsOK(c), MotionGrows,
         call'[c].acts = call[c].acts, call'[c].kind = call[c].kind,
         \A i \in DOMAIN call[c].acts : Ended(call[c].acts[i]),
         call'[c].pc = "request", call'[c].result = "none",
         Len(call[c].acts) < Len(Plan(call[c].kind))
  PROVE  ActsOK(c)'
<1>1. PICK acts, plan, kind : acts = call[c].acts /\ kind = call[c].kind /\ plan = Plan(kind)
    OBVIOUS
<1>2. /\ acts # <<>> => kind \in Moves
      /\ kind \in Moves => Len(acts) <= Len(plan)
      /\ \A i \in DOMAIN acts : acts[i] \in DOMAIN motion /\ motion[acts[i]].kind = plan[i]
    BY <1>1 DEF ActsOK
<1>3. \A i \in DOMAIN acts :
         /\ acts[i] \in DOMAIN motion' /\ motion'[acts[i]].kind = plan[i]
         /\ Ended(acts[i])'
    BY <1>1, <1>2 DEF MotionGrows
<1>4. QED
    BY <1>1, <1>2, <1>3 DEF ActsOK

\* A plan has one to three actions.
LEMMA PlanLength ==
  ASSUME NEW kind \in Moves
  PROVE  /\ Plan(kind) \in Seq(ActionKinds) /\ Len(Plan(kind)) \in 1..3
         /\ 0 < Len(Plan(kind)) /\ 0 <= Len(Plan(kind))
<1>1. {<<"move">>, <<"gohome">>, <<"leavelift">>, <<"totag">>} \subseteq Seq(ActionKinds)
    BY DEF ActionKinds
<1>2. <<"move", "enterlift", "rotate">> \in Seq(ActionKinds)
    BY DEF ActionKinds
<1>3. Plan(kind) \in {<<"move">>, <<"gohome">>, <<"leavelift">>, <<"totag">>,
                     <<"move", "enterlift", "rotate">>}
    BY Zenon DEF Moves, Plan, GoTo, GoChargeNearby, EnterLift, ExitLift, MoveToTag
<1>4. (\A x : Len(<<x>>) = 1) /\ \A x, y, z : Len(<<x, y, z>>) = 3
    OBVIOUS
<1>5. QED
  <2>1. CASE Plan(kind) = <<"move", "enterlift", "rotate">>
      BY <1>2, <1>4, <2>1
  <2>2. CASE Plan(kind) # <<"move", "enterlift", "rotate">>
    <3>1. Plan(kind) \in {<<"move">>, <<"gohome">>, <<"leavelift">>, <<"totag">>}
        BY <1>3, <2>2
    <3>2. PICK x : Plan(kind) = <<x>>
        BY <3>1
    <3>3. Len(Plan(kind)) = 1
        BY <3>2
    <3>4. Plan(kind) \in Seq(ActionKinds)
        BY <1>1, <3>1, Zenon
    <3>5. 1 \in 1..3 /\ 0 < 1 /\ 0 <= 1
        OBVIOUS
    <3>6. QED
        BY <3>3, <3>4, <3>5, Zenon
  <2>3. QED
      BY <2>1, <2>2

LEMMA DriverInitInv == DriverInit => DriverInv
<1> SUFFICES ASSUME DriverInit PROVE DriverInv
    OBVIOUS
<1> USE DEF DriverInit
<1>1. ALayout \in Layouts
    BY DriverAssumption DEF ALayout
<1>2. DriverTypeOK
  <2>1. Idle \in CallRecord
      BY <1>1 DEF Idle, CallRecord
  <2>2. /\ failed \in 0..MaxFaults /\ Len(motion) <= MaxActions
        /\ motion \in Seq(ActionRecord)
      BY DriverAssumption
  <2>3. QED
      BY <1>1, <2>1, <2>2 DEF DriverTypeOK
<1>3. KindInv /\ \A c \in Calls : ActsOK(c)
    BY DEF KindInv, KindOK, ActsOK, Idle, NoKind, Moves
<1>4. MovesForSomeone
    BY DEF MovesForSomeone
<1>5. LayoutInv
    BY DEF LayoutInv, OnLayout, Active, Idle
<1>6. SoftInv
    BY DEF SoftInv, OnSoft, Active, Idle
<1>7. QED
    BY <1>2, <1>3, <1>4, <1>5, <1>6 DEF DriverInv

\* A call that answers, changing nothing else: with success only after its plan, and not
\* while its action runs well unless it was cancelled or out of time.
LEMMA AnswerInv ==
  ASSUME DriverInv, NEW c \in Calls, NEW r \in {"success", "failed", "timeout", "cancelled"},
         Active(c), call' = Answered(c, r),
         UNCHANGED <<layoutID, soft, motion, jack, floor, brake, failed, muddled>>,
         call[c].pc # "store", call[c].pc = "request" => call[c].kind # "localise",
         (r = "success" /\ call[c].kind \in Moves) =>
            Len(call[c].acts) = Len(Plan(call[c].kind)) /\ Ended(Current(c)),
         (call[c].pc = "poll" /\ call[c].acts # <<>> /\ r \notin {"timeout", "cancelled"}) =>
            motion[Current(c)].state # "running" \/ motion[Current(c)].result # "ok"
  PROVE  DriverInv'
<1> USE DEF DriverInv
<1>1. /\ call'[c] = [call[c] EXCEPT !.pc = "over", !.result = r]
      /\ \A d \in Calls : d # c => call'[d] = call[d]
      /\ call' \in [Calls -> CallRecord]
  <2>1. call[c] \in CallRecord
      BY DEF DriverTypeOK
  <2>2. [call[c] EXCEPT !.pc = "over", !.result = r] \in CallRecord
      BY <2>1 DEF CallRecord
  <2>3. call' = [call EXCEPT ![c] = [call[c] EXCEPT !.pc = "over", !.result = r]]
      BY DEF DriverTypeOK, Answered
  <2>4. QED
      BY <2>2, <2>3 DEF DriverTypeOK
<1>2. /\ call'[c].pc = "over" /\ call'[c].result = r /\ call'[c].kind = call[c].kind
      /\ call'[c].acts = call[c].acts /\ call'[c].arg = call[c].arg
    BY <1>1 DEF DriverTypeOK, CallRecord
<1>3. DriverTypeOK'
    BY <1>1 DEF DriverTypeOK
<1>4. KindInv'
  <2>1. call[c].kind # NoKind
      BY DEF KindInv, KindOK, Active
  <2>2. KindOK(call'[c])
      BY <1>2, <2>1 DEF KindOK
  <2>3. \A d \in Calls : d # c => KindOK(call'[d])
      BY <1>1 DEF KindInv
  <2>4. QED
      BY <2>2, <2>3 DEF KindInv
<1>5. \A d \in Calls : ActsOK(d)'
  <2>1. MotionGrows
      BY DEF MotionGrows, Ended
  <2>2. \A d \in Calls : d # c => ActsOK(d)'
      BY <1>1, <2>1, OtherActsOK
  <2>3. ActsOK(c)'
    <3>1. call[c].acts \in Seq(1..MaxActions) /\ Len(call[c].acts) \in Nat
          /\ DOMAIN call[c].acts = 1..Len(call[c].acts)
        BY DEF DriverTypeOK, CallRecord
    <3>2. ASSUME r = "success", call[c].kind \in Moves, NEW i \in DOMAIN call[c].acts
          PROVE  Ended(call[c].acts[i])
        BY <3>1, <3>2 DEF ActsOK, Current
    <3>3. QED
        BY <1>2, <3>1, <3>2 DEF ActsOK, Ended
  <2>4. QED
      BY <2>2, <2>3
<1>6. MovesForSomeone'
  <2>1. SUFFICES ASSUME NEW k \in DOMAIN motion, Running(k), motion[k].result = "ok"
                 PROVE  \/ \E d \in Calls :
                             /\ call'[d].acts # <<>> /\ Current(d)' = k
                             /\ call'[d].pc = "poll" \/ call'[d].result \in {"timeout", "cancelled"}
                        \/ /\ failed > 0
                           /\ \A d \in Calls : \A i \in DOMAIN call'[d].acts : call'[d].acts[i] # k
      BY DEF MovesForSomeone, Running
  <2>2. \A d \in Calls : call'[d].acts = call[d].acts /\ Current(d)' = Current(d)
      BY <1>1, <1>2 DEF Current
  <2>3. CASE failed > 0 /\ \A d \in Calls : \A i \in DOMAIN call[d].acts : call[d].acts[i] # k
      BY <2>2, <2>3
  <2>4. ASSUME NEW d \in Calls, call[d].acts # <<>>, Current(d) = k,
               call[d].pc = "poll" \/ call[d].result \in {"timeout", "cancelled"}
        PROVE  call'[d].pc = "poll" \/ call'[d].result \in {"timeout", "cancelled"}
      BY <1>1, <1>2, <2>1, <2>4 DEF Running, KindInv, KindOK, Active
  <2>5. QED
      BY <2>1, <2>2, <2>3, <2>4 DEF MovesForSomeone
<1>7. LayoutInv'
  <2>1. \A d \in Calls : OnLayout(d)' <=> OnLayout(d) /\ d # c
      BY <1>1, <1>2 DEF OnLayout, Active
  <2>2. ASSUME "layout" \notin muddled, call[c].kind = "localise" PROVE layoutID = floor
      BY <2>2 DEF LayoutInv, OnLayout, KindInv, KindOK, Active, Moves, Jacks,
                  DriverTypeOK, CallRecord
  <2>3. CASE "layout" \notin muddled /\ \A d \in Calls : ~OnLayout(d)'
      BY <2>1, <2>2, <2>3 DEF LayoutInv, OnLayout
  <2>4. CASE \E d \in Calls : OnLayout(d)'
      BY <1>1, <2>1, <2>4 DEF LayoutInv
  <2>5. QED
      BY <2>3, <2>4 DEF LayoutInv
<1>8. SoftInv'
  <2>1. \A d \in Calls : OnSoft(d)' => OnSoft(d)
      BY <1>1, <1>2 DEF OnSoft, Active
  <2>2. \A d \in Calls : call'[d].pc = "store" <=> call[d].pc = "store"
      BY <1>1, <1>2
  <2>3. \A d \in Calls : call'[d].kind = call[d].kind
      BY <1>1, <1>2
  <2>4. QED
      BY <2>1, <2>2, <2>3 DEF SoftInv
<1>9. QED
    BY <1>3, <1>4, <1>5, <1>6, <1>7, <1>8

\* Nothing happens to the layout's copy, or to the brake's, while the calls that keep it
\* stay where they are.
LEMMA LayoutKept ==
  ASSUME LayoutInv, UNCHANGED <<layoutID, floor>>, muddled \subseteq muddled',
         \A d \in Calls : OnLayout(d)' = OnLayout(d),
         \A d \in Calls : OnLayout(d) => call'[d].arg = call[d].arg /\ call'[d].pc = call[d].pc
  PROVE  LayoutInv'
BY DEF LayoutInv

LEMMA SoftKept ==
  ASSUME SoftInv, UNCHANGED <<soft, brake>>, muddled \subseteq muddled',
         \A d \in Calls : OnSoft(d)' => OnSoft(d),
         \A d \in Calls : call'[d].pc = "store" <=> call[d].pc = "store",
         \A d \in Calls : call[d].pc = "store" => call'[d].kind = call[d].kind
  PROVE  SoftInv'
BY DEF SoftInv

\* A step of a call without robot actions leaves those of the others as they are.
LEMMA StillCallStep ==
  ASSUME DriverInv, NEW c \in Calls, NEW x \in CallRecord, call' = [call EXCEPT ![c] = x],
         UNCHANGED motion, failed' \in Nat, failed' >= failed,
         call[c].acts = <<>>, x.acts = <<>>, KindOK(x),
         x.kind \in Moves => x.pc # "poll" /\ x.result # "success"
  PROVE  /\ call' \in [Calls -> CallRecord] /\ KindInv' /\ \A d \in Calls : ActsOK(d)'
         /\ MovesForSomeone'
<1> USE DEF DriverInv
<1>1. /\ call' \in [Calls -> CallRecord] /\ call'[c] = x
      /\ \A d \in Calls : d # c => call'[d] = call[d]
    BY DEF DriverTypeOK
<1>2. KindInv'
    BY <1>1 DEF KindInv
<1>3. MotionGrows
    BY DEF MotionGrows, Ended
<1>4. ActsOK(c)'
  <2>1. x.kind \in Moves => 0 < Len(Plan(x.kind)) /\ 0 <= Len(Plan(x.kind))
    <3>1. SUFFICES ASSUME x.kind \in Moves
                   PROVE  0 < Len(Plan(x.kind)) /\ 0 <= Len(Plan(x.kind))
        OBVIOUS
    <3>2. QED
        BY <3>1, PlanLength
  <2>2. DOMAIN x.acts = {} /\ Len(x.acts) = 0
      OBVIOUS
  <2>3. QED
      BY <1>1, <2>1, <2>2 DEF ActsOK
<1>5. \A d \in Calls : ActsOK(d)'
    BY <1>1, <1>3, <1>4, OtherActsOK
<1>6. MovesForSomeone'
  <2>1. failed \in Nat
      BY DEF DriverTypeOK
  <2>2. failed > 0 => failed' > 0
      BY <2>1
  <2>3. DOMAIN <<>> = {}
      OBVIOUS
  <2>4. QED
      BY <1>1, <2>2, <2>3 DEF MovesForSomeone, Running, Current
<1>7. QED
    BY <1>1, <1>2, <1>5, <1>6

\* The calls that answer at once, or after a poll, a deadline or a wait.
LEMMA AnsweringInv ==
  ASSUME DriverInv, NEW c \in Calls,
         \/ TargetUnknown(c) \/ SubmitRejected(c) \/ PollFailed(c) \/ PollJack(c)
         \/ Deadline(c) \/ CancelSeen(c) \/ Settled(c) \/ Stub(c)
  PROVE  DriverInv'
<1> USE DEF DriverInv
<1>1. KindOK(call[c]) /\ (call[c].acts # <<>> => call[c].kind \in Moves)
    BY DEF KindInv, ActsOK
<1>2. CASE TargetUnknown(c)
    BY <1>2, AnswerInv DEF TargetUnknown, Active
<1>3. CASE SubmitRejected(c)
    BY <1>3, AnswerInv DEF SubmitRejected, Active, Moves
<1>4. CASE PollFailed(c)
    BY <1>4, AnswerInv DEF PollFailed, Active
<1>5. CASE PollJack(c)
    BY <1>1, <1>5, AnswerInv DEF PollJack, Active, Jacks, Moves
<1>6. CASE Deadline(c)
    BY <1>6, AnswerInv DEF Deadline, Active
<1>7. CASE CancelSeen(c)
    BY <1>7, AnswerInv DEF CancelSeen, Active
<1>8. CASE Settled(c)
    BY <1>1, <1>8, AnswerInv DEF Settled, Active, KindOK, Moves
<1>9. CASE Stub(c)
    BY <1>9, AnswerInv DEF Stub, Active, Moves
<1>10. QED
    BY <1>2, <1>3, <1>4, <1>5, <1>6, <1>7, <1>8, <1>9

LEMMA BeginInv ==
  ASSUME DriverInv, NEW c \in Calls, NEW kind \in Kinds, NEW arg \in Layouts,
         Begin(c, kind, arg)
  PROVE  DriverInv'
<1> USE DEF DriverInv, Begin
<1> DEFINE x == [call[c] EXCEPT !.kind = kind, !.pc = "request", !.arg = arg]
<1>1. call[c] \in CallRecord /\ call[c].pc = "idle"
    BY DEF DriverTypeOK, NextCall
<1>2. /\ x \in CallRecord /\ x.kind = kind /\ x.pc = "request" /\ x.arg = arg
      /\ x.acts = call[c].acts /\ x.result = call[c].result
    BY <1>1 DEF CallRecord
<1>3. call' = [call EXCEPT ![c] = x]
    BY DEF DriverTypeOK
<1> HIDE DEF x
<1>4. call'[c] = x /\ \A d \in Calls : d # c => call'[d] = call[d]
    BY <1>3 DEF DriverTypeOK
<1>5. KindOK(x) /\ call[c].acts = <<>> /\ x.result = "none"
  <2>1. kind # NoKind
      BY DEF Kinds, Moves, Jacks, NoKind
  <2>2. KindOK(call[c])
      BY DEF KindInv
  <2>3. call[c].kind = NoKind /\ NoKind \notin Moves /\ call[c].result = "none"
      BY <1>1, <2>2 DEF KindOK, NoKind, Moves
  <2>4. QED
      BY <1>2, <2>1, <2>3 DEF KindOK, ActsOK
<1>6. failed' \in Nat /\ failed' >= failed /\ motion' = motion /\ x.acts = <<>>
    BY <1>2, <1>5 DEF DriverTypeOK
<1>7. /\ call' \in [Calls -> CallRecord] /\ KindInv' /\ \A d \in Calls : ActsOK(d)'
      /\ MovesForSomeone'
    BY <1>2, <1>3, <1>5, <1>6, StillCallStep, Zenon
<1>8. DriverTypeOK'
  <2>1. Overlaps(kind) \subseteq {"layout", "soft"}
      BY DEF Overlaps, Copy
  <2>2. muddled' \subseteq {"layout", "soft"}
      BY <2>1 DEF DriverTypeOK, MuddledAfterBegin
  <2>3. QED
      BY <1>7, <2>2 DEF DriverTypeOK
<1>9. LayoutInv'
  <2>1. \A d \in Calls : d # c => OnLayout(d)' = OnLayout(d)
      BY <1>4 DEF OnLayout, Active
  <2>2. ~OnLayout(c) /\ (OnLayout(c)' <=> kind = "localise")
      BY <1>1, <1>2, <1>4 DEF OnLayout, Active
  <2>3. CASE kind = "localise"
    <3>1. \A d \in Calls : OnLayout(d) => "layout" \in muddled'
      <4>1. \A d \in Calls : OnLayout(d) => "layout" \in Overlaps(kind)
          BY <2>3 DEF Overlaps, Copy, OnLayout
      <4>2. QED
          BY <4>1 DEF MuddledAfterBegin
    <3>2. QED
        BY <1>2, <1>4, <2>1, <2>2, <2>3, <3>1 DEF LayoutInv
  <2>4. CASE kind # "localise"
    <3>1. muddled \subseteq muddled'
        BY <2>4 DEF MuddledAfterBegin
    <3>2. QED
        BY <1>4, <2>1, <2>2, <2>4, <3>1 DEF LayoutInv
  <2>5. QED
      BY <2>3, <2>4
<1>10. SoftInv'
  <2>1. \A d \in Calls : d # c => OnSoft(d)' = OnSoft(d)
      BY <1>4 DEF OnSoft, Active
  <2>2. ~OnSoft(c) /\ (OnSoft(c)' <=> Copy(kind) = "soft")
      BY <1>1, <1>2, <1>4 DEF OnSoft, Active
  <2>3. /\ "soft" \in muddled => "soft" \in muddled'
        /\ \A d \in Calls : OnSoft(d) /\ Copy(kind) = "soft" => "soft" \in muddled'
    <3>1. \A d \in Calls : OnSoft(d) /\ Copy(kind) = "soft" => "soft" \in Overlaps(kind)
        BY DEF Overlaps, OnSoft
    <3>2. kind = "localise" => Copy(kind) # "soft"
        BY DEF Copy
    <3>3. QED
        BY <3>1, <3>2 DEF MuddledAfterBegin
  <2>4. \A d \in Calls : /\ call'[d].pc = "store" <=> call[d].pc = "store"
                         /\ call[d].pc = "store" => call'[d].kind = call[d].kind
      BY <1>1, <1>2, <1>4
  <2>5. QED
      BY <2>1, <2>2, <2>3, <2>4 DEF SoftInv
<1>11. QED
    BY <1>7, <1>8, <1>9, <1>10

LEMMA CancelInv ==
  ASSUME DriverInv, NEW c \in Calls, Cancel(c)
  PROVE  DriverInv'
<1> USE DEF DriverInv, Cancel
<1>1. call[c] \in CallRecord /\ [call[c] EXCEPT !.cancelled = TRUE] \in CallRecord
    BY ZenonT(30) DEF DriverTypeOK, CallRecord
<1>2. /\ call' \in [Calls -> CallRecord]
      /\ \A d \in Calls : /\ call'[d].kind = call[d].kind /\ call'[d].pc = call[d].pc
                          /\ call'[d].acts = call[d].acts /\ call'[d].arg = call[d].arg
                          /\ call'[d].result = call[d].result
    BY <1>1 DEF DriverTypeOK, CallRecord
<1>3. DriverTypeOK' /\ KindInv'
    BY <1>2 DEF DriverTypeOK, KindInv, KindOK
<1>4. \A d \in Calls : ActsOK(d)'
    BY <1>2 DEF ActsOK, Ended
<1>5. MovesForSomeone'
    BY <1>2 DEF MovesForSomeone, Running, Current
<1>6. \A d \in Calls : OnLayout(d)' = OnLayout(d) /\ OnSoft(d)' = OnSoft(d)
    BY <1>2 DEF OnLayout, OnSoft, Active
<1>7. LayoutInv' /\ SoftInv'
    BY <1>2, <1>6, LayoutKept, SoftKept
<1>8. QED
    BY <1>3, <1>4, <1>5, <1>7

\* A call of a skill that makes the robot do no action goes on to pc, or answers.
LEMMA SkillStep ==
  ASSUME DriverInv, NEW c \in Calls, NEW pc \in {"poll", "settle", "store", "over"},
         NEW r \in {"none", "success", "failed", "timeout", "cancelled"},
         call[c].kind \notin Moves, call[c].pc # "idle", r # "none" => pc = "over",
         call' = [call EXCEPT ![c] = [call[c] EXCEPT !.pc = pc, !.result = r]],
         pc = "poll" => call[c].kind \in Jacks, pc = "settle" => call[c].kind = "localise",
         pc = "store" => call[c].kind \in {"brakeon", "brakeoff"},
         UNCHANGED motion, failed' \in 0..MaxFaults, failed' >= failed
  PROVE  /\ call' \in [Calls -> CallRecord] /\ KindInv' /\ \A d \in Calls : ActsOK(d)'
         /\ MovesForSomeone'
         /\ call'[c].pc = pc /\ call'[c].kind = call[c].kind /\ call'[c].arg = call[c].arg
         /\ \A d \in Calls : d # c => call'[d] = call[d]
<1> USE DEF DriverInv
<1> DEFINE x == [call[c] EXCEPT !.pc = pc, !.result = r]
<1>1. call[c] \in CallRecord
    BY DEF DriverTypeOK
<1>2. /\ x \in CallRecord /\ x.kind = call[c].kind /\ x.pc = pc /\ x.arg = call[c].arg
      /\ x.acts = call[c].acts /\ x.result = r
    BY <1>1 DEF CallRecord
<1>3. call' = [call EXCEPT ![c] = x]
    OBVIOUS
<1> HIDE DEF x
<1>4. call'[c] = x /\ \A d \in Calls : d # c => call'[d] = call[d]
    BY <1>3 DEF DriverTypeOK
<1>5. call[c].acts = <<>> /\ x.acts = <<>>
    BY <1>2 DEF ActsOK
<1>6. KindOK(x)
  <2>1. KindOK(call[c])
      BY DEF KindInv
  <2>2. QED
      BY <1>2, <2>1 DEF KindOK
<1>7. failed' \in Nat
    OBVIOUS
<1>8. x.kind \notin Moves
    BY <1>2
<1>9. /\ call' \in [Calls -> CallRecord] /\ KindInv' /\ \A d \in Calls : ActsOK(d)'
      /\ MovesForSomeone'
    BY <1>2, <1>3, <1>5, <1>6, <1>7, <1>8, StillCallStep, Zenon
<1>10. QED
    BY <1>2, <1>4, <1>9

LEMMA JackCommandInv ==
  ASSUME DriverInv, NEW c \in Calls, NEW ok \in BOOLEAN, JackCommand(c, ok)
  PROVE  DriverInv'
<1> USE DEF DriverInv, JackCommand
<1>1. /\ call[c] \in CallRecord /\ call[c].kind \notin Moves /\ call[c].result = "none"
    BY DEF DriverTypeOK, KindInv, KindOK, Jacks, Moves
<1>2. PICK pc \in {"poll", "over"}, r \in {"none", "failed"} :
        /\ r # "none" => pc = "over"
        /\ call' = [call EXCEPT ![c] = [call[c] EXCEPT !.pc = pc, !.result = r]]
  <2>1. CASE ok
    <3>1. [call[c] EXCEPT !.pc = "poll"] = [call[c] EXCEPT !.pc = "poll", !.result = "none"]
        BY <1>1 DEF CallRecord
    <3>2. call' = [call EXCEPT ![c] = [call[c] EXCEPT !.pc = "poll"]]
        BY <2>1 DEF DriverTypeOK
    <3>3. QED
        BY <3>1, <3>2
  <2>2. CASE ~ok
    <3>1. call' = [call EXCEPT ![c] = [call[c] EXCEPT !.pc = "over", !.result = "failed"]]
        BY <2>2 DEF DriverTypeOK, Answered
    <3>2. QED
        BY <3>1
  <2>3. QED
      BY <2>1, <2>2
<1>3. failed' \in 0..MaxFaults /\ failed' >= failed
    BY DriverAssumption DEF DriverTypeOK
<1>4. /\ call' \in [Calls -> CallRecord] /\ KindInv' /\ \A d \in Calls : ActsOK(d)'
      /\ MovesForSomeone' /\ call'[c].pc = pc /\ call'[c].kind = call[c].kind
      /\ \A d \in Calls : d # c => call'[d] = call[d]
    BY <1>1, <1>2, <1>3, SkillStep
<1>5. DriverTypeOK'
  <2>1. jack' \in [stage : {"up", "down"}, target : {"up", "down"}, alarm : BOOLEAN]
      BY DEF DriverTypeOK
  <2>2. QED
      BY <1>3, <1>4, <2>1 DEF DriverTypeOK
<1>6. \A d \in Calls : OnLayout(d)' = OnLayout(d) /\ ~OnSoft(c) /\ ~OnLayout(c)
    BY <1>4 DEF OnLayout, Active, OnSoft, Copy, Jacks
<1>7. \A d \in Calls : OnSoft(d)' => OnSoft(d)
    BY <1>4 DEF Active, OnSoft, Copy, Jacks
<1>8. LayoutInv'
    BY <1>4, <1>6, LayoutKept
<1>9. SoftInv'
    BY <1>4, <1>7, SoftKept
<1>10. QED
    BY <1>4, <1>5, <1>8, <1>9

LEMMA MoveFloorInv ==
  ASSUME DriverInv, NEW c \in Calls, MoveFloor(c)
  PROVE  DriverInv'
<1> USE DEF DriverInv, MoveFloor
<1>1. /\ call[c] \in CallRecord /\ call[c].kind \notin Moves /\ call[c].result = "none"
    BY DEF DriverTypeOK, KindInv, KindOK, Moves
<1>2. call' = [call EXCEPT ![c] = [call[c] EXCEPT !.pc = "settle", !.result = "none"]]
  <2>1. [call[c] EXCEPT !.pc = "settle"] = [call[c] EXCEPT !.pc = "settle", !.result = "none"]
      BY <1>1 DEF CallRecord
  <2>2. call' = [call EXCEPT ![c] = [call[c] EXCEPT !.pc = "settle"]]
      BY DEF DriverTypeOK
  <2>3. QED
      BY <2>1, <2>2
<1>3. failed' \in 0..MaxFaults /\ failed' >= failed
    BY DriverAssumption DEF DriverTypeOK
<1>4. /\ call' \in [Calls -> CallRecord] /\ KindInv' /\ \A d \in Calls : ActsOK(d)'
      /\ MovesForSomeone' /\ call'[c].pc = "settle" /\ call'[c].kind = call[c].kind
      /\ call'[c].arg = call[c].arg
      /\ \A d \in Calls : d # c => call'[d] = call[d]
    BY <1>1, <1>2, <1>3, SkillStep
<1>5. DriverTypeOK'
    BY <1>1, <1>4 DEF DriverTypeOK, CallRecord
<1>6. \A d \in Calls : OnLayout(d)' = OnLayout(d) /\ OnSoft(d)' = OnSoft(d) /\ OnLayout(c)
    BY <1>4 DEF OnLayout, Active, OnSoft, Copy
<1>7. LayoutInv'
    BY <1>4, <1>6 DEF LayoutInv
<1>8. SoftInv'
    BY <1>4, <1>6, SoftKept
<1>9. QED
    BY <1>4, <1>5, <1>7, <1>8

LEMMA FloorNotMovedInv ==
  ASSUME DriverInv, NEW c \in Calls, FloorNotMoved(c)
  PROVE  DriverInv'
<1> USE DEF DriverInv, FloorNotMoved
<1>1. /\ call[c] \in CallRecord /\ call[c].kind \notin Moves /\ call[c].result = "none"
    BY DEF DriverTypeOK, KindInv, KindOK, Moves
<1>2. PICK pc \in {"settle", "over"}, r \in {"none", "failed"} :
        /\ r # "none" => pc = "over"
        /\ call' = [call EXCEPT ![c] = [call[c] EXCEPT !.pc = pc, !.result = r]]
  <2>1. CASE call' = [call EXCEPT ![c].pc = "settle"]
    <3>1. [call[c] EXCEPT !.pc = "settle"] = [call[c] EXCEPT !.pc = "settle", !.result = "none"]
        BY <1>1 DEF CallRecord
    <3>2. call' = [call EXCEPT ![c] = [call[c] EXCEPT !.pc = "settle"]]
        BY <2>1 DEF DriverTypeOK
    <3>3. QED
        BY <3>1, <3>2
  <2>2. CASE call' = Answered(c, "failed")
    <3>1. call' = [call EXCEPT ![c] = [call[c] EXCEPT !.pc = "over", !.result = "failed"]]
        BY <2>2 DEF DriverTypeOK, Answered
    <3>2. QED
        BY <3>1
  <2>3. QED
      BY <2>1, <2>2
<1>3. failed' \in 0..MaxFaults /\ failed' >= failed
    BY DriverAssumption DEF DriverTypeOK
<1>4. /\ call' \in [Calls -> CallRecord] /\ KindInv' /\ \A d \in Calls : ActsOK(d)'
      /\ MovesForSomeone' /\ call'[c].pc = pc /\ call'[c].kind = call[c].kind
      /\ \A d \in Calls : d # c => call'[d] = call[d]
    BY <1>1, <1>2, <1>3, SkillStep
<1>5. DriverTypeOK'
  <2>1. floor' \in Layouts /\ muddled' \subseteq {"layout", "soft"}
      BY <1>1 DEF DriverTypeOK, CallRecord
  <2>2. QED
      BY <1>3, <1>4, <2>1 DEF DriverTypeOK
<1>6. LayoutInv'
    BY DEF LayoutInv
<1>7. \A d \in Calls : OnSoft(d)' => OnSoft(d)
    BY <1>4 DEF Active, OnSoft, Copy
<1>8. SoftInv'
  <2>1. muddled \subseteq muddled' /\ soft' = soft /\ brake' = brake
      OBVIOUS
  <2>2. \A d \in Calls : /\ call'[d].pc = "store" <=> call[d].pc = "store"
                         /\ call'[d].kind = call[d].kind
      BY <1>4
  <2>3. QED
      BY <1>7, <2>1, <2>2, SoftKept
<1>9. QED
    BY <1>4, <1>5, <1>6, <1>8

LEMMA SetOneSideInv ==
  ASSUME DriverInv, NEW c \in Calls, SetOneSide(c)
  PROVE  DriverInv'
<1> USE DEF DriverInv, SetOneSide
<1>1. /\ call[c] \in CallRecord /\ call[c].kind \notin Moves
    BY DEF DriverTypeOK, Moves
<1>2. call' = [call EXCEPT ![c] = [call[c] EXCEPT !.pc = "over", !.result = "success"]]
    BY DEF DriverTypeOK, Answered
<1>3. failed' \in 0..MaxFaults /\ failed' >= failed
    BY DriverAssumption DEF DriverTypeOK
<1>4. /\ call' \in [Calls -> CallRecord] /\ KindInv' /\ \A d \in Calls : ActsOK(d)'
      /\ MovesForSomeone' /\ call'[c].pc = "over" /\ call'[c].kind = call[c].kind
      /\ \A d \in Calls : d # c => call'[d] = call[d]
    BY <1>1, <1>2, <1>3, SkillStep
<1>5. DriverTypeOK'
  <2>1. floor' \in Layouts /\ layoutID' \in Layouts \cup {NoLayout} /\ muddled' \subseteq {"layout", "soft"}
      BY <1>1 DEF DriverTypeOK, CallRecord
  <2>2. QED
      BY <1>3, <1>4, <2>1 DEF DriverTypeOK
<1>6. LayoutInv'
    BY DEF LayoutInv
<1>7. \A d \in Calls : OnSoft(d)' => OnSoft(d)
    BY <1>4 DEF Active, OnSoft, Copy
<1>8. SoftInv'
  <2>1. muddled \subseteq muddled' /\ soft' = soft /\ brake' = brake
      OBVIOUS
  <2>2. \A d \in Calls : /\ call'[d].pc = "store" <=> call[d].pc = "store"
                         /\ call'[d].kind = call[d].kind
      BY <1>4
  <2>3. QED
      BY <1>7, <2>1, <2>2, SoftKept
<1>9. QED
    BY <1>4, <1>5, <1>6, <1>8

LEMMA SetBrakeInv ==
  ASSUME DriverInv, NEW c \in Calls, SetBrake(c)
  PROVE  DriverInv'
<1> USE DEF DriverInv, SetBrake
<1>1. /\ call[c] \in CallRecord /\ call[c].kind \notin Moves /\ call[c].result = "none"
    BY DEF DriverTypeOK, KindInv, KindOK, Moves
<1>2. call' = [call EXCEPT ![c] = [call[c] EXCEPT !.pc = "store", !.result = "none"]]
  <2>1. [call[c] EXCEPT !.pc = "store"] = [call[c] EXCEPT !.pc = "store", !.result = "none"]
      BY <1>1 DEF CallRecord
  <2>2. call' = [call EXCEPT ![c] = [call[c] EXCEPT !.pc = "store"]]
      BY DEF DriverTypeOK
  <2>3. QED
      BY <2>1, <2>2
<1>3. failed' \in 0..MaxFaults /\ failed' >= failed
    BY DriverAssumption DEF DriverTypeOK
<1>4. /\ call' \in [Calls -> CallRecord] /\ KindInv' /\ \A d \in Calls : ActsOK(d)'
      /\ MovesForSomeone' /\ call'[c].pc = "store" /\ call'[c].kind = call[c].kind
      /\ call'[c].arg = call[c].arg
      /\ \A d \in Calls : d # c => call'[d] = call[d]
    BY <1>1, <1>2, <1>3, SkillStep
<1>5. DriverTypeOK'
  <2>1. brake' \in BOOLEAN /\ muddled' \subseteq {"layout", "soft"}
      BY DEF DriverTypeOK
  <2>2. QED
      BY <1>4, <2>1 DEF DriverTypeOK
<1>6. \A d \in Calls : OnLayout(d)' = OnLayout(d) /\ ~OnLayout(c)
    BY <1>4 DEF OnLayout, Active
<1>7. LayoutInv'
  <2>1. "layout" \in muddled => "layout" \in muddled'
      OBVIOUS
  <2>2. QED
      BY <1>4, <1>6, <2>1 DEF LayoutInv
<1>8. SoftInv'
  <2>1. \A d \in Calls : OnSoft(d)' <=> OnSoft(d)
      BY <1>4 DEF OnSoft, Active
  <2>2. \A d \in Calls : call[d].pc = "store" => OnSoft(d)
      BY DEF KindInv, KindOK, OnSoft, Active, Copy
  <2>3. OnSoft(c)
      BY DEF OnSoft, Active, Copy
  <2>4. "soft" \notin muddled' => \A d \in Calls : OnSoft(d) => d = c
    <3>1. CASE \E d \in Calls \ {c} : Active(d) /\ Copy(call[d].kind) = "soft"
        BY <2>3, <3>1 DEF SoftInv
    <3>2. CASE ~\E d \in Calls \ {c} : Active(d) /\ Copy(call[d].kind) = "soft"
        BY <3>2 DEF OnSoft
    <3>3. QED
        BY <3>1, <3>2
  <2>5. brake' <=> call'[c].kind = "brakeon"
      BY <1>4
  <2>6. "soft" \notin muddled' => \A d \in Calls : call'[d].pc = "store" => d = c
      BY <1>4, <2>2, <2>4
  <2>7. QED
      BY <1>4, <2>1, <2>4, <2>5, <2>6 DEF SoftInv
<1>9. QED
    BY <1>4, <1>5, <1>7, <1>8

LEMMA BrakeRefusedInv ==
  ASSUME DriverInv, NEW c \in Calls, BrakeRefused(c)
  PROVE  DriverInv'
<1> USE DEF DriverInv, BrakeRefused
<1>1. /\ call[c] \in CallRecord /\ call[c].kind \notin Moves
    BY DEF DriverTypeOK, Moves
<1>2. call' = [call EXCEPT ![c] = [call[c] EXCEPT !.pc = "over", !.result = "failed"]]
    BY DEF DriverTypeOK, Answered
<1>3. failed' \in 0..MaxFaults /\ failed' >= failed
    BY DriverAssumption DEF DriverTypeOK
<1>4. /\ call' \in [Calls -> CallRecord] /\ KindInv' /\ \A d \in Calls : ActsOK(d)'
      /\ MovesForSomeone' /\ call'[c].pc = "over" /\ call'[c].kind = call[c].kind
      /\ \A d \in Calls : d # c => call'[d] = call[d]
    BY <1>1, <1>2, <1>3, SkillStep
<1>5. DriverTypeOK'
  <2>1. brake' \in BOOLEAN /\ muddled' \subseteq {"layout", "soft"}
      BY DEF DriverTypeOK
  <2>2. QED
      BY <1>3, <1>4, <2>1 DEF DriverTypeOK
<1>6. \A d \in Calls : OnLayout(d)' = OnLayout(d) /\ ~OnLayout(c)
    BY <1>4 DEF OnLayout, Active
<1>7. LayoutInv'
  <2>1. muddled \subseteq muddled' /\ layoutID' = layoutID /\ floor' = floor
      OBVIOUS
  <2>2. QED
      BY <1>4, <1>6, <2>1, LayoutKept
<1>8. SoftInv'
  <2>1. CASE brake' = brake /\ muddled' = muddled
    <3>1. \A d \in Calls : OnSoft(d)' => OnSoft(d)
        BY <1>4 DEF OnSoft, Active
    <3>2. \A d \in Calls : /\ call'[d].pc = "store" <=> call[d].pc = "store"
                           /\ call'[d].kind = call[d].kind
        BY <1>4
    <3>3. QED
        BY <2>1, <3>1, <3>2, SoftKept
  <2>2. CASE "soft" \in muddled'
      BY <2>2 DEF SoftInv
  <2>3. QED
      BY <2>1, <2>2
<1>9. QED
    BY <1>4, <1>5, <1>7, <1>8

LEMMA StoreBrakeInv ==
  ASSUME DriverInv, NEW c \in Calls, StoreBrake(c)
  PROVE  DriverInv'
<1> USE DEF DriverInv, StoreBrake
<1>1. /\ call[c] \in CallRecord /\ call[c].kind \in {"brakeon", "brakeoff"}
      /\ call[c].kind \notin Moves
    BY DEF DriverTypeOK, KindInv, KindOK, Moves
<1>2. call' = [call EXCEPT ![c] = [call[c] EXCEPT !.pc = "over", !.result = "success"]]
    BY DEF DriverTypeOK, Answered
<1>3. failed' \in 0..MaxFaults /\ failed' >= failed
    BY DriverAssumption DEF DriverTypeOK
<1>4. /\ call' \in [Calls -> CallRecord] /\ KindInv' /\ \A d \in Calls : ActsOK(d)'
      /\ MovesForSomeone' /\ call'[c].pc = "over" /\ call'[c].kind = call[c].kind
      /\ \A d \in Calls : d # c => call'[d] = call[d]
    BY <1>1, <1>2, <1>3, SkillStep
<1>5. DriverTypeOK'
  <2>1. soft' \in BOOLEAN
      OBVIOUS
  <2>2. QED
      BY <1>4, <2>1 DEF DriverTypeOK
<1>6. \A d \in Calls : OnLayout(d)' = OnLayout(d) /\ ~OnLayout(c)
    BY <1>1, <1>4 DEF OnLayout, Active
<1>7. LayoutInv'
    BY <1>4, <1>6, LayoutKept
<1>8. SoftInv'
  <2>1. \A d \in Calls : call[d].pc = "store" => OnSoft(d)
      BY DEF KindInv, KindOK, OnSoft, Active, Copy
  <2>2. "soft" \notin muddled => \A d \in Calls : OnSoft(d) => d = c
      BY <2>1 DEF SoftInv
  <2>3. \A d \in Calls : OnSoft(d)' => OnSoft(d) /\ d # c
      BY <1>4 DEF OnSoft, Active
  <2>4. "soft" \notin muddled => \A d \in Calls : ~OnSoft(d)' /\ call'[d].pc # "store"
      BY <1>4, <2>1, <2>2, <2>3
  <2>5. "soft" \notin muddled => (soft' <=> brake')
      BY DEF SoftInv
  <2>6. QED
      BY <2>4, <2>5 DEF SoftInv
<1>9. QED
    BY <1>4, <1>5, <1>7, <1>8

\* Stopping leaves the actions that are over as they are, and none running.
LEMMA StoppedProps ==
  ASSUME motion \in Seq(ActionRecord)
  PROVE  /\ Stopped \in Seq(ActionRecord) /\ Len(Stopped) = Len(motion)
         /\ DOMAIN Stopped = DOMAIN motion
         /\ \A k \in DOMAIN motion :
              /\ Stopped[k].kind = motion[k].kind /\ Stopped[k].state = "done"
              /\ motion[k].state = "done" => Stopped[k] = motion[k]
<1>1. /\ Len(motion) \in Nat /\ DOMAIN motion = 1..Len(motion)
      /\ \A k \in DOMAIN motion : motion[k] \in ActionRecord
    OBVIOUS
<1>2. \A k \in DOMAIN motion :
        /\ Stopped[k] \in ActionRecord
        /\ Stopped[k].kind = motion[k].kind /\ Stopped[k].state = "done"
        /\ motion[k].state = "done" => Stopped[k] = motion[k]
    BY <1>1 DEF Stopped, Running, ActionRecord
<1>3. Stopped \in [1..Len(motion) -> ActionRecord]
    BY <1>1, <1>2 DEF Stopped
<1>4. QED
    BY <1>1, <1>2, <1>3

\* An action the robot accepts ends the one that runs, and comes last.
LEMMA AcceptingProps ==
  ASSUME motion \in Seq(ActionRecord), NEW kind \in ActionKinds, motion' = Accepting(kind)
  PROVE  /\ motion' \in Seq(ActionRecord) /\ Len(motion') = Len(motion) + 1
         /\ MotionGrows /\ \A k \in DOMAIN motion : ~Running(k)'
         /\ motion'[Len(motion) + 1].kind = kind
<1> DEFINE n == Len(motion)
           new == [kind |-> kind, state |-> "running", result |-> "ok"]
<1>1. n \in Nat /\ DOMAIN motion = 1..n /\ \A k \in 1..n : motion[k] \in ActionRecord
    OBVIOUS
<1>2. motion' = Append(Stopped, new) /\ new \in ActionRecord /\ new.kind = kind
    BY DEF Accepting, ActionRecord
<1> HIDE DEF new
<1>3. /\ motion' \in Seq(ActionRecord) /\ Len(motion') = n + 1 /\ motion'[n + 1] = new
      /\ DOMAIN motion' = 1..(n + 1) /\ \A k \in 1..n : motion'[k] = Stopped[k]
    BY <1>1, <1>2, StoppedProps
<1>4. \A k \in 1..n : k \in 1..(n + 1)
    BY <1>1
<1> HIDE DEF n
<1>5. MotionGrows
    BY <1>1, <1>3, <1>4, StoppedProps DEF MotionGrows, Ended
<1>6. \A k \in DOMAIN motion : ~Running(k)'
    BY <1>1, <1>3, StoppedProps DEF Running
<1>7. QED
    BY <1>2, <1>3, <1>5, <1>6 DEF n

LEMMA SubmitInv ==
  ASSUME DriverInv, NEW c \in Calls, Submit(c)
  PROVE  DriverInv'
<1> USE DEF DriverInv, Submit
<1> DEFINE acts == call[c].acts
           plan == Plan(call[c].kind)
           n == Len(motion)
           x == [call[c] EXCEPT !.pc = "poll", !.acts = Append(acts, n + 1)]
<1>1. /\ call[c] \in CallRecord /\ acts \in Seq(1..MaxActions) /\ Len(acts) \in Nat
      /\ motion \in Seq(ActionRecord) /\ n \in Nat /\ DOMAIN motion = 1..n
      /\ n + 1 \in 1..MaxActions
    BY DriverAssumption DEF DriverTypeOK, CallRecord
<1>2. plan \in Seq(ActionKinds) /\ Len(acts) < Len(plan) /\ Len(plan) \in Nat
    BY PlanLength DEF ActsOK
<1>3. plan[Len(acts) + 1] \in ActionKinds
    BY <1>1, <1>2
<1>4. /\ motion' \in Seq(ActionRecord) /\ Len(motion') = n + 1
      /\ MotionGrows /\ \A k \in DOMAIN motion : ~Running(k)'
      /\ motion'[n + 1].kind = plan[Len(acts) + 1]
    BY <1>1, <1>3, AcceptingProps
<1>5. /\ Append(acts, n + 1) \in Seq(1..MaxActions)
      /\ Len(Append(acts, n + 1)) = Len(acts) + 1
      /\ Append(acts, n + 1)[Len(acts) + 1] = n + 1
      /\ \A i \in 1..Len(acts) : Append(acts, n + 1)[i] = acts[i]
      /\ DOMAIN Append(acts, n + 1) = 1..(Len(acts) + 1) /\ DOMAIN acts = 1..Len(acts)
    BY <1>1
<1>6. /\ x \in CallRecord /\ x.pc = "poll" /\ x.kind = call[c].kind /\ x.arg = call[c].arg
      /\ x.acts = Append(acts, n + 1) /\ x.result = call[c].result
    BY <1>1, <1>5 DEF CallRecord
<1>7. call' = [call EXCEPT ![c] = x]
    BY DEF DriverTypeOK
<1> HIDE DEF x
<1>8. call'[c] = x /\ \A d \in Calls : d # c => call'[d] = call[d]
    BY <1>7 DEF DriverTypeOK
<1>9. DriverTypeOK'
  <2>1. call' \in [Calls -> CallRecord]
      BY <1>6, <1>7 DEF DriverTypeOK
  <2>2. Len(motion') <= MaxActions
      BY <1>1, <1>4
  <2>3. QED
      BY <1>4, <2>1, <2>2 DEF DriverTypeOK
<1>10. call[c].pc = "request" /\ call[c].kind \in Moves /\ call[c].result = "none"
    BY DEF KindInv, KindOK
<1>11. KindInv'
  <2>1. KindOK(x)
      BY <1>6, <1>10 DEF KindOK, Moves, NoKind
  <2>2. QED
      BY <1>8, <2>1 DEF KindInv
<1>12. \A i \in 1..Len(acts) : /\ acts[i] \in DOMAIN motion /\ motion[acts[i]].kind = plan[i]
                              /\ Ended(acts[i])
    BY <1>5, <1>10 DEF ActsOK
<1> HIDE DEF DriverInv, Submit, acts, plan, n
<1>13. ActsOK(c)'
  <2>1. \A i \in 1..Len(acts) :
           /\ acts[i] \in DOMAIN motion' /\ motion'[acts[i]].kind = plan[i]
           /\ motion'[acts[i]].state = "done" /\ motion'[acts[i]].result = "ok"
      BY <1>4, <1>12 DEF MotionGrows, Ended
  <2>2. n + 1 \in DOMAIN motion' /\ motion'[n + 1].kind = plan[Len(acts) + 1]
      BY <1>1, <1>4
  <2>3. ASSUME NEW i \in DOMAIN x.acts
        PROVE  /\ x.acts[i] \in DOMAIN motion' /\ motion'[x.acts[i]].kind = plan[i]
               /\ i < Len(x.acts) => /\ motion'[x.acts[i]].state = "done"
                                     /\ motion'[x.acts[i]].result = "ok"
    <3>1. CASE i = Len(acts) + 1
        BY <1>1, <1>5, <1>6, <2>2, <3>1
    <3>2. CASE i \in 1..Len(acts)
        BY <1>5, <1>6, <2>1, <3>2
    <3>3. QED
        BY <1>1, <1>5, <1>6, <3>1, <3>2
  <2>4. Len(x.acts) = Len(acts) + 1 /\ Len(x.acts) <= Len(plan)
      BY <1>1, <1>2, <1>5, <1>6
  <2>5. x.acts # <<>>
      BY <1>1, <2>4
  <2>6. plan = Plan(x.kind) /\ x.kind \in Moves
      BY <1>6, <1>10 DEF plan
  <2>7. QED
      BY <1>6, <1>8, <1>10, <2>3, <2>4, <2>5, <2>6 DEF ActsOK, Ended
<1>14. \A d \in Calls : ActsOK(d)'
  <2>1. \A d \in Calls : ActsOK(d)
      BY DEF DriverInv
  <2>2. \A d \in Calls : d # c => ActsOK(d)'
      BY <1>4, <1>8, <2>1, OtherActsOK
  <2>3. QED
      BY <1>13, <2>2
<1>15. MovesForSomeone'
  <2>1. SUFFICES ASSUME NEW k \in DOMAIN motion', Running(k)'
                 PROVE  call'[c].acts # <<>> /\ Current(c)' = k /\ call'[c].pc = "poll"
      BY DEF MovesForSomeone
  <2>2. k = n + 1
      BY <1>1, <1>4, <2>1
  <2>3. Len(x.acts) = Len(acts) + 1 /\ x.acts[Len(x.acts)] = n + 1
      BY <1>1, <1>5, <1>6
  <2>4. x.acts # <<>>
      BY <1>1, <2>3
  <2>5. QED
      BY <1>6, <1>8, <2>2, <2>3, <2>4 DEF Current
<1>16. \A d \in Calls : OnLayout(d)' = OnLayout(d) /\ OnSoft(d)' = OnSoft(d) /\ ~OnLayout(c)
    BY <1>6, <1>8, <1>10 DEF OnLayout, OnSoft, Active, Moves
<1>17. LayoutInv'
    BY <1>8, <1>16, LayoutKept DEF Submit, DriverInv
<1>18. SoftInv'
    BY <1>6, <1>8, <1>10, <1>16, SoftKept DEF Submit, DriverInv
<1>19. QED
    BY <1>9, <1>11, <1>14, <1>15, <1>17, <1>18 DEF DriverInv

LEMMA SubmitLostInv ==
  ASSUME DriverInv, NEW c \in Calls, SubmitLost(c)
  PROVE  DriverInv'
<1> USE DEF DriverInv, SubmitLost
<1> DEFINE x == [call[c] EXCEPT !.pc = "over", !.result = "failed"]
           n == Len(motion)
<1>1. /\ call[c] \in CallRecord /\ call[c].acts \in Seq(1..MaxActions)
      /\ motion \in Seq(ActionRecord) /\ n \in Nat /\ DOMAIN motion = 1..n
      /\ Len(call[c].acts) \in Nat /\ DOMAIN call[c].acts = 1..Len(call[c].acts)
    BY DEF DriverTypeOK, CallRecord
<1>2. Plan(call[c].kind)[Len(call[c].acts) + 1] \in ActionKinds
  <2>1. /\ Plan(call[c].kind) \in Seq(ActionKinds)
        /\ Len(call[c].acts) < Len(Plan(call[c].kind))
      BY PlanLength DEF ActsOK
  <2>2. QED
      BY <1>1, <2>1
<1>3. /\ x \in CallRecord /\ x.pc = "over" /\ x.kind = call[c].kind /\ x.acts = call[c].acts
      /\ x.result = "failed"
    BY <1>1 DEF CallRecord
<1>4. call' = [call EXCEPT ![c] = x]
    BY DEF DriverTypeOK, Answered
<1> HIDE DEF x
<1>5. call'[c] = x /\ \A d \in Calls : d # c => call'[d] = call[d]
    BY <1>4 DEF DriverTypeOK
\* The robot has taken the action, or it has not.
<1>6. /\ motion' \in Seq(ActionRecord) /\ Len(motion') <= MaxActions /\ MotionGrows
      /\ \/ motion' = motion
         \/ Len(motion') = n + 1 /\ \A k \in DOMAIN motion : ~Running(k)'
  <2>1. CASE motion' = motion
      BY <2>1 DEF DriverTypeOK, MotionGrows, Ended
  <2>2. CASE /\ motion' = Accepting(Plan(call[c].kind)[Len(call[c].acts) + 1])
             /\ Len(motion) < MaxActions
    <3>1. /\ motion' \in Seq(ActionRecord) /\ Len(motion') = n + 1
          /\ MotionGrows /\ \A k \in DOMAIN motion : ~Running(k)'
        BY <1>1, <1>2, <2>2, AcceptingProps
    <3>2. n + 1 <= MaxActions
        BY <1>1, <2>2, DriverAssumption
    <3>3. QED
        BY <3>1, <3>2
  <2>3. QED
      BY <2>1, <2>2
<1>7. failed' \in 0..MaxFaults /\ failed' > 0
    BY DriverAssumption DEF DriverTypeOK
<1>8. DriverTypeOK'
  <2>1. call' \in [Calls -> CallRecord]
      BY <1>3, <1>4 DEF DriverTypeOK
  <2>2. QED
      BY <1>6, <1>7, <2>1 DEF DriverTypeOK
<1>9. KindInv'
  <2>1. KindOK(x)
      BY <1>3 DEF KindOK, Moves, NoKind
  <2>2. QED
      BY <1>5, <2>1 DEF KindInv
<1>10. \A d \in Calls : ActsOK(d)'
  <2>1. \A d \in Calls : d # c => ActsOK(d)'
      BY <1>5, <1>6, OtherActsOK
  <2>2. \A i \in DOMAIN call[c].acts :
           /\ call[c].acts[i] \in DOMAIN motion'
           /\ motion'[call[c].acts[i]].kind = Plan(call[c].kind)[i]
           /\ motion'[call[c].acts[i]].state = "done" /\ motion'[call[c].acts[i]].result = "ok"
      BY <1>6 DEF ActsOK, MotionGrows, Ended
  <2>3. call[c].kind \in Moves /\ Len(call[c].acts) <= Len(Plan(call[c].kind))
      BY DEF ActsOK
  <2>4. ActsOK(c)'
      BY <1>3, <1>5, <2>2, <2>3, SMTT(30) DEF ActsOK, Ended
  <2>5. QED
      BY <2>1, <2>4
<1>11. call[c].pc = "request" /\ call[c].result = "none" /\ call[c].kind \in Moves
    BY DEF KindInv, KindOK
<1>12. MovesForSomeone'
  <2>1. CASE motion' = motion
      BY <1>3, <1>5, <1>7, <1>11, <2>1 DEF MovesForSomeone, Running, Current
  <2>2. CASE Len(motion') = n + 1 /\ \A k \in DOMAIN motion : ~Running(k)'
    <3>1. SUFFICES ASSUME NEW k \in DOMAIN motion', Running(k)'
                   PROVE  \A d \in Calls : \A i \in DOMAIN call'[d].acts : call'[d].acts[i] # k
        BY <1>7 DEF MovesForSomeone
    <3>2. k = n + 1 /\ k \notin DOMAIN motion
        BY <1>1, <1>6, <2>2, <3>1
    <3>3. \A d \in Calls : call'[d].acts = call[d].acts
        BY <1>3, <1>5
    <3>4. QED
        BY <3>2, <3>3 DEF ActsOK
  <2>3. QED
      BY <1>6, <2>1, <2>2
<1>13. \A d \in Calls : OnLayout(d)' = OnLayout(d) /\ OnSoft(d)' = OnSoft(d) /\ ~OnLayout(c)
    BY <1>3, <1>5, <1>11 DEF OnLayout, OnSoft, Active, Moves, Copy
<1>14. LayoutInv'
    BY <1>5, <1>13, LayoutKept
<1>15. SoftInv'
    BY <1>3, <1>5, <1>11, <1>13, SoftKept
<1>16. QED
    BY <1>8, <1>9, <1>10, <1>12, <1>14, <1>15

LEMMA PollDoneInv ==
  ASSUME DriverInv, NEW c \in Calls, PollDone(c)
  PROVE  DriverInv'
<1> USE DEF DriverInv, PollDone
<1>1. CASE Len(call[c].acts) = Len(Plan(call[c].kind))
  <2>1. motion[Current(c)].state # "running"
      BY DEF Ended
  <2>2. QED
      BY <1>1, <2>1, AnswerInv DEF Active
<1>2. CASE Len(call[c].acts) # Len(Plan(call[c].kind))
  <2> DEFINE x == [call[c] EXCEPT !.pc = "request"]
  <2>1. /\ call[c] \in CallRecord /\ call[c].result = "none"
        /\ call[c].acts \in Seq(1..MaxActions)
        /\ Len(call[c].acts) \in Nat /\ DOMAIN call[c].acts = 1..Len(call[c].acts)
      BY DEF DriverTypeOK, CallRecord, KindInv, KindOK
  <2>2. /\ x \in CallRecord /\ x.pc = "request" /\ x.kind = call[c].kind
        /\ x.acts = call[c].acts /\ x.result = "none" /\ x.arg = call[c].arg
      BY <2>1 DEF CallRecord
  <2>3. call' = [call EXCEPT ![c] = x]
      BY <1>2 DEF DriverTypeOK
  <2> HIDE DEF x
  <2>4. call'[c] = x /\ \A d \in Calls : d # c => call'[d] = call[d]
      BY <2>3 DEF DriverTypeOK
  <2>5. DriverTypeOK'
    <3>1. call' \in [Calls -> CallRecord]
        BY <2>2, <2>3 DEF DriverTypeOK
    <3>2. QED
        BY <3>1 DEF DriverTypeOK
  <2>6. KindInv'
    <3>1. KindOK(x)
        BY <2>2 DEF KindOK, Moves, NoKind
    <3>2. QED
        BY <2>4, <3>1 DEF KindInv
  <2>7. \A i \in DOMAIN call[c].acts : Ended(call[c].acts[i])
    <3>1. \A i \in DOMAIN call[c].acts : i < Len(call[c].acts) => Ended(call[c].acts[i])
        BY DEF ActsOK
    <3>2. QED
        BY <2>1, <3>1 DEF Current
  <2>8. \A d \in Calls : ActsOK(d)'
    <3>1. MotionGrows
        BY DEF MotionGrows, Ended
    <3>2. \A d \in Calls : d # c => ActsOK(d)'
        BY <2>4, <3>1, OtherActsOK
    <3>3. Len(call[c].acts) < Len(Plan(call[c].kind))
      <4>1. Len(call[c].acts) <= Len(Plan(call[c].kind)) /\ Len(Plan(call[c].kind)) \in Nat
          BY PlanLength DEF ActsOK
      <4>2. QED
          BY <1>2, <2>1, <4>1
    <3>4. ActsOK(c)'
      <4>1. /\ call'[c].acts = call[c].acts /\ call'[c].kind = call[c].kind
            /\ call'[c].pc = "request" /\ call'[c].result = "none"
          BY <2>2, <2>4
      <4>2. ActsOK(c)
          OBVIOUS
      <4>3. QED
          BY <2>7, <3>1, <3>3, <4>1, <4>2, EndedActsOK
    <3>5. QED
        BY <3>2, <3>4
  <2>9. MovesForSomeone'
      BY <2>2, <2>4 DEF MovesForSomeone, Running, Current, Ended
  <2>10. \A d \in Calls : OnLayout(d)' = OnLayout(d) /\ OnSoft(d)' = OnSoft(d) /\ ~OnLayout(c)
      BY <2>2, <2>4 DEF OnLayout, OnSoft, Active, Moves, Copy
  <2>11. LayoutInv'
      BY <2>4, <2>10, LayoutKept
  <2>12. SoftInv'
      BY <2>2, <2>4, <2>10, SoftKept
  <2>13. QED
      BY <2>5, <2>6, <2>8, <2>9, <2>11, <2>12
<1>3. QED
    BY <1>1, <1>2

LEMMA StopGoInv ==
  ASSUME DriverInv, NEW c \in Calls, StopGo(c)
  PROVE  DriverInv'
<1> USE DEF DriverInv, StopGo
<1>1. CASE motion' = motion
    BY <1>1, AnswerInv DEF Active, Moves
<1>2. CASE motion' = Stopped
  <2> DEFINE x == [call[c] EXCEPT !.pc = "over", !.result = "success"]
  <2>1. call[c] \in CallRecord /\ call[c].kind \notin Moves /\ call[c].acts = <<>>
      BY DEF DriverTypeOK, ActsOK, Moves
  <2>2. /\ x \in CallRecord /\ x.pc = "over" /\ x.kind = "stop" /\ x.acts = <<>>
      BY <2>1 DEF CallRecord
  <2>3. call' = [call EXCEPT ![c] = x]
      BY DEF DriverTypeOK, Answered
  <2> HIDE DEF x
  <2>4. call'[c] = x /\ \A d \in Calls : d # c => call'[d] = call[d]
      BY <2>3 DEF DriverTypeOK
  <2>5. /\ motion' \in Seq(ActionRecord) /\ Len(motion') <= MaxActions
        /\ DOMAIN motion' = DOMAIN motion
        /\ \A k \in DOMAIN motion : motion'[k].state = "done"
      BY <1>2, StoppedProps DEF DriverTypeOK
  <2>6. DriverTypeOK'
    <3>1. call' \in [Calls -> CallRecord]
        BY <2>2, <2>3 DEF DriverTypeOK
    <3>2. QED
        BY <2>5, <3>1 DEF DriverTypeOK
  <2>7. KindInv'
    <3>1. KindOK(x)
        BY <2>2 DEF KindOK, NoKind
    <3>2. QED
        BY <2>4, <3>1 DEF KindInv
  <2>8. MotionGrows
      BY <1>2, StoppedProps DEF MotionGrows, Ended, DriverTypeOK
  <2>9. \A d \in Calls : ActsOK(d)'
    <3>1. \A d \in Calls : d # c => ActsOK(d)'
        BY <2>4, <2>8, OtherActsOK
    <3>2. DOMAIN x.acts = {} /\ x.kind \notin Moves
        BY <2>2 DEF Moves
    <3>3. ActsOK(c)'
        BY <2>2, <2>4, <3>2 DEF ActsOK
    <3>4. QED
        BY <3>1, <3>3
  <2>10. MovesForSomeone'
      BY <2>5 DEF MovesForSomeone, Running
  <2>11. \A d \in Calls : OnLayout(d)' = OnLayout(d) /\ ~OnLayout(c) /\ (OnSoft(d)' => OnSoft(d))
      BY <2>2, <2>4 DEF OnLayout, OnSoft, Active, Copy
  <2>12. LayoutInv'
      BY <2>4, <2>11, LayoutKept
  <2>13. SoftInv'
      BY <2>2, <2>4, <2>11, SoftKept
  <2>14. QED
      BY <2>6, <2>7, <2>9, <2>10, <2>12, <2>13
<1>3. QED
    BY <1>1, <1>2

\* The robot's own steps: an action goes wrong or ends, the jack moves.
LEMMA RobotStepInv ==
  ASSUME DriverInv, JackMoves \/ \E k \in DOMAIN motion : ActionFailing(k) \/ ActionEnds(k)
  PROVE  DriverInv'
<1> USE DEF DriverInv
<1>1. UNCHANGED <<layoutID, soft, call, floor, brake, failed, muddled>>
    BY DEF JackMoves, ActionFailing, ActionEnds
<1>2. /\ motion' \in Seq(ActionRecord) /\ Len(motion') = Len(motion)
      /\ DOMAIN motion' = DOMAIN motion
      /\ \A k \in DOMAIN motion :
           /\ motion'[k].kind = motion[k].kind
           /\ motion[k].state = "done" => motion'[k] = motion[k]
           /\ motion'[k].state = "running" /\ motion'[k].result = "ok" =>
                motion[k].state = "running" /\ motion[k].result = "ok"
  <2>1. CASE JackMoves
      BY <2>1 DEF JackMoves, DriverTypeOK
  <2>2. ASSUME NEW k \in DOMAIN motion, ActionFailing(k) \/ ActionEnds(k)
        PROVE  \E r \in ActionRecord :
                 /\ motion' = [motion EXCEPT ![k] = r] /\ r.kind = motion[k].kind
                 /\ motion[k].state = "running" /\ (r.state = "running" => r.result = "failed")
    <3>1. motion[k] \in ActionRecord
        BY <2>2 DEF DriverTypeOK
    <3>2. CASE ActionFailing(k)
      <4>1. motion' = [motion EXCEPT ![k] = [motion[k] EXCEPT !.result = "failed"]]
          BY <3>2 DEF ActionFailing
      <4>2. QED
          BY <3>1, <3>2, <4>1 DEF ActionFailing, Running, ActionRecord
    <3>3. CASE ActionEnds(k)
      <4>1. motion' = [motion EXCEPT ![k] = [motion[k] EXCEPT !.state = "done"]]
          BY <3>3 DEF ActionEnds
      <4>2. QED
          BY <3>1, <3>3, <4>1 DEF ActionEnds, Running, ActionRecord
    <3>4. QED
        BY <2>2, <3>2, <3>3
  <2>3. ASSUME NEW k \in DOMAIN motion, NEW r \in ActionRecord,
               motion' = [motion EXCEPT ![k] = r], r.kind = motion[k].kind,
               motion[k].state = "running", r.state = "running" => r.result = "failed"
        PROVE  /\ motion' \in Seq(ActionRecord) /\ Len(motion') = Len(motion)
               /\ DOMAIN motion' = DOMAIN motion
               /\ \A j \in DOMAIN motion :
                    /\ motion'[j].kind = motion[j].kind
                    /\ motion[j].state = "done" => motion'[j] = motion[j]
                    /\ motion'[j].state = "running" /\ motion'[j].result = "ok" =>
                         motion[j].state = "running" /\ motion[j].result = "ok"
      BY <2>3 DEF DriverTypeOK
  <2>4. QED
      BY <2>1, <2>2, <2>3
<1>3. DriverTypeOK'
  <2>1. jack' \in [stage : {"up", "down"}, target : {"up", "down"}, alarm : BOOLEAN]
      BY DEF JackMoves, ActionFailing, ActionEnds, DriverTypeOK
  <2>2. QED
      BY <1>1, <1>2, <2>1 DEF DriverTypeOK
<1>4. MotionGrows
    BY <1>2 DEF MotionGrows, Ended
<1>5. KindInv' /\ \A d \in Calls : ActsOK(d)'
    BY <1>1, <1>4, OtherActsOK DEF KindInv
<1>6. MovesForSomeone'
    BY <1>1, <1>2 DEF MovesForSomeone, Running, Current
<1>7. LayoutInv' /\ SoftInv'
    BY <1>1 DEF LayoutInv, SoftInv, OnLayout, OnSoft, Active
<1>8. QED
    BY <1>3, <1>5, <1>6, <1>7

\* What the runs check of the driver follows from the invariant.
LEMMA DriverInvSound == DriverInv => DriverSound
<1> SUFFICES ASSUME DriverInv PROVE DriverSound
    OBVIOUS
<1> USE DEF DriverInv
<1>1. SuccessMeansDone
    BY DEF SuccessMeansDone, ActsOK
<1>2. StepsInOrder
    BY DEF StepsInOrder, ActsOK
<1>3. LayoutAgrees
    BY DEF LayoutAgrees, LayoutInv, OnLayout
<1>4. SoftBrakeAgrees
  <2>1. \A c \in Calls : call[c].pc = "store" => Active(c) /\ Copy(call[c].kind) = "soft"
      BY DEF KindInv, KindOK, Active, Copy
  <2>2. soft \in BOOLEAN /\ brake \in BOOLEAN
      BY DEF DriverTypeOK
  <2>3. QED
      BY <2>1, <2>2 DEF SoftBrakeAgrees, SoftInv
<1>5. QED
    BY <1>1, <1>2, <1>3, <1>4 DEF DriverSound

\* The driver, for any number of overlapping skill calls and whatever the robot refuses or
\* forgets to answer: success means the plan was carried out in its order, each action is
\* submitted only after the one before ended well, a robot that moves has a caller that
\* waits, gave up or never heard, and the copies of layout and soft brake are right.
THEOREM DriverIsSound == DriverSpec => []DriverSound
<1>1. DriverInv /\ [DriverNext]_driverVars => DriverInv'
  <2> SUFFICES ASSUME DriverInv, [DriverNext]_driverVars PROVE DriverInv'
      OBVIOUS
  <2>1. ASSUME UNCHANGED driverVars PROVE DriverInv'
      BY <2>1 DEF driverVars, DriverInv, DriverTypeOK, KindInv, ActsOK, MovesForSomeone,
                  LayoutInv, SoftInv, OnLayout, OnSoft, Active, Ended, Running, Current
  <2>2. ASSUME NEW c \in Calls, Goroutine(c) PROVE DriverInv'
      BY <2>2, AnsweringInv, SubmitInv, SubmitLostInv, PollDoneInv, JackCommandInv,
         MoveFloorInv, FloorNotMovedInv, SetOneSideInv, SetBrakeInv, BrakeRefusedInv,
         StoreBrakeInv, StopGoInv DEF Goroutine
  <2>3. QED
      BY <2>1, <2>2, RobotStepInv, BeginInv, CancelInv DEF DriverNext
<1>2. QED
    BY DriverInitInv, DriverInvSound, <1>1, PTL DEF DriverSpec
-----------------------------------------------------------------------------
(* The trim of the history *)

\* The loop of cleanHistory, by its rounds.
Round(poses, time, f, n) ==
  IF time - poses[n].at < KeepFor THEN Append(f[n - 1], poses[n]) ELSE f[n - 1]

LEMMA RecentByRounds ==
  ASSUME NEW poses, poses \in Seq(Poses), NEW time
  PROVE  \E f :
           /\ f \in [0..Len(poses) -> Seq(Poses)]
           /\ f[0] = <<>> /\ Recent(poses, time) = f[Len(poses)]
           /\ \A n \in 1..Len(poses) : f[n] = Round(poses, time, f, n)
<1> DEFINE step == [a \in Seq(Poses) \X Poses |->
                      IF time - a[2].at < KeepFor THEN Append(a[1], a[2]) ELSE a[1]]
           Body(f) == [n \in 0..Len(poses) |->
                        IF n = 0 THEN <<>>
                        ELSE IF time - poses[n].at < KeepFor THEN Append(f[n - 1], poses[n])
                        ELSE f[n - 1]]
           h == CHOOSE f : f = Body(f)
<1>1. Len(poses) \in Nat /\ \A n \in 1..Len(poses) : poses[n] \in Poses
    OBVIOUS
<1>2. step \in [Seq(Poses) \X Poses -> Seq(Poses)]
    BY AppendProperties
<1>3. PICK f : /\ f \in [0..Len(poses) -> Seq(Poses)] /\ f[0] = <<>>
               /\ \A n \in 1..Len(poses) : f[n] = step[f[n - 1], poses[n]]
  <2> HIDE DEF step
  <2>1. <<>> \in Seq(Poses)
      OBVIOUS
  <2>2. \E f : IsLoop(f, poses, Seq(Poses), <<>>, step)
      BY <1>2, <2>1, LoopHasValues
  <2>3. QED
      BY <2>2 DEF IsLoop
<1>4. \A n \in 1..Len(poses) : n - 1 \in 0..Len(poses) /\ n \in 0..Len(poses) /\ n # 0
    BY <1>1
<1>5. \A n \in 1..Len(poses) : f[n] = Round(poses, time, f, n)
  <2> SUFFICES ASSUME NEW n \in 1..Len(poses) PROVE f[n] = Round(poses, time, f, n)
      OBVIOUS
  <2>1. f[n - 1] \in Seq(Poses) /\ poses[n] \in Poses
      BY <1>1, <1>3, <1>4
  <2>2. QED
      BY <1>3, <2>1 DEF Round
<1>6. f = Body(f)
  <2>1. \A n \in 0..Len(poses) : n # 0 => n \in 1..Len(poses)
      BY <1>1
  <2>2. \A n \in 0..Len(poses) : f[n] = Body(f)[n]
      BY <1>3, <1>5, <2>1 DEF Round
  <2>3. QED
      BY <1>3, <2>2
<1>7. h = Body(h)
  <2> HIDE DEF Body
  <2> QED
      BY <1>6
<1>8. Recent(poses, time) = h[Len(poses)]
    BY DEF Recent
<1> HIDE DEF h
<1>9. h[0] = <<>> /\ \A n \in 1..Len(poses) : h[n] = Round(poses, time, h, n)
  <2>1. 0 \in 0..Len(poses)
      BY <1>1
  <2>2. QED
      BY <1>4, <1>7, <2>1 DEF Round
<1>10. \A n \in 0..Len(poses) : h[n] = f[n]
  <2> HIDE DEF Body
  <2>1. \A n \in 1..Len(poses) : h[n - 1] = f[n - 1] => h[n] = f[n]
      BY <1>5, <1>9 DEF Round
  <2>2. Len(poses) \in Nat /\ h[0] = f[0]
      BY <1>1, <1>3, <1>9
  <2>3. QED
      BY <2>1, <2>2, LoopsAgree
<1>11. Recent(poses, time) = f[Len(poses)]
    BY <1>1, <1>8, <1>10
<1>12. QED
    BY <1>3, <1>5, <1>11

\* cleanHistory takes nothing from nothing, and one pose at a time.
LEMMA RecentOfAppend ==
  ASSUME NEW poses \in Seq(Poses), NEW p \in Poses, NEW time
  PROVE  Recent(Append(poses, p), time)
           = IF time - p.at < KeepFor THEN Append(Recent(poses, time), p) ELSE Recent(poses, time)
<1> DEFINE more == Append(poses, p)
           L == Len(poses)
<1>1. /\ more \in Seq(Poses) /\ Len(more) = L + 1 /\ L \in Nat
      /\ \A n \in 1..L : more[n] = poses[n]
      /\ more[L + 1] = p
    BY AppendProperties
<1>2. PICK f : /\ f \in [0..L -> Seq(Poses)]
               /\ f[0] = <<>> /\ Recent(poses, time) = f[L]
               /\ \A n \in 1..L : f[n] = Round(poses, time, f, n)
    BY RecentByRounds
<1> HIDE DEF more
<1>3. PICK g : /\ g \in [0..Len(more) -> Seq(Poses)]
               /\ g[0] = <<>> /\ Recent(more, time) = g[Len(more)]
               /\ \A n \in 1..Len(more) : g[n] = Round(more, time, g, n)
    BY <1>1, RecentByRounds
<1> HIDE DEF L
<1>4. \A n \in 1..L : f[n - 1] = g[n - 1] => f[n] = g[n]
  <2>1. \A n \in 1..L : n \in 1..Len(more)
      BY <1>1
  <2>2. QED
      BY <1>1, <1>2, <1>3, <2>1 DEF Round
<1>5. f[L] = g[L]
  <2>1. L \in 0..L
      BY <1>1
  <2>2. L \in Nat /\ f[0] = g[0]
      BY <1>1, <1>2, <1>3
  <2>3. \A n \in 0..L : f[n] = g[n]
      BY <1>4, <2>2, LoopsAgree, SMTT(30)
  <2>4. QED
      BY <2>1, <2>3
<1>6. g[L + 1] = Round(more, time, g, L + 1)
  <2>1. L + 1 \in 1..Len(more)
      BY <1>1
  <2>2. QED
      BY <1>3, <2>1
<1>7. (L + 1) - 1 = L
    BY <1>1
<1>8. QED
    BY <1>1, <1>2, <1>3, <1>5, <1>6, <1>7 DEF Round, more

LEMMA RecentOfNone == ASSUME NEW time PROVE Recent(<<>>, time) = <<>>
<1>1. <<>> \in Seq(Poses) /\ Len(<<>>) = 0
    OBVIOUS
<1>2. QED
    BY <1>1, RecentByRounds

LEMMA RecentIsSequence ==
  ASSUME NEW poses \in Seq(Poses), NEW time
  PROVE  Recent(poses, time) \in Seq(Poses)
<1>1. Len(poses) \in 0..Len(poses)
    OBVIOUS
<1>2. QED
    BY <1>1, RecentByRounds

\* What a trim keeps, of what an earlier trim left, is what it keeps of all.
LEMMA RecentOfRecent ==
  ASSUME NEW poses \in Seq(Poses), NEW early \in Nat, NEW late \in Nat, early <= late
  PROVE  Recent(Recent(poses, early), late) = Recent(poses, late)
<1> DEFINE G == {s \in Seq(Poses) : Recent(Recent(s, early), late) = Recent(s, late)}
<1>1. <<>> \in G
    BY RecentOfNone
<1>2. ASSUME NEW s \in Seq(Poses), NEW p \in Poses, s \in G PROVE Append(s, p) \in G
  <2>1. Recent(s, early) \in Seq(Poses) /\ Append(s, p) \in Seq(Poses)
      BY RecentIsSequence
  <2>2. p.at \in Nat /\ KeepFor \in Nat
      BY PoseAssumption DEF Poses
  <2>3. Recent(Append(s, p), late)
          = IF late - p.at < KeepFor THEN Append(Recent(s, late), p) ELSE Recent(s, late)
      BY RecentOfAppend
  <2>4. Recent(Append(s, p), early)
          = IF early - p.at < KeepFor THEN Append(Recent(s, early), p) ELSE Recent(s, early)
      BY RecentOfAppend
  <2>5. Recent(Append(Recent(s, early), p), late)
          = IF late - p.at < KeepFor THEN Append(Recent(Recent(s, early), late), p)
            ELSE Recent(Recent(s, early), late)
      BY <2>1, RecentOfAppend
  <2>6. late - p.at < KeepFor => early - p.at < KeepFor
      BY <2>2
  <2>7. Recent(Recent(s, early), late) = Recent(s, late)
      BY <1>2
  <2>8. Recent(Recent(Append(s, p), early), late) = Recent(Append(s, p), late)
      BY <2>3, <2>4, <2>5, <2>6, <2>7
  <2>9. QED
      BY <2>1, <2>8
<1> HIDE DEF G
<1>3. Seq(Poses) \subseteq G
    BY <1>1, <1>2, SequencesByAppend
<1>4. QED
    BY <1>3 DEF G

\* A trim keeps only poses that were there and are recent.
LEMMA RecentAreRecent ==
  ASSUME NEW poses \in Seq(Poses), NEW time \in Nat
  PROVE  \A i \in DOMAIN Recent(poses, time) :
           /\ \E j \in DOMAIN poses : poses[j] = Recent(poses, time)[i]
           /\ time - Recent(poses, time)[i].at < KeepFor
<1> DEFINE Was(q, s) == \E j \in DOMAIN s : s[j] = q
           G == {s \in Seq(Poses) : \A i \in DOMAIN Recent(s, time) :
                   Was(Recent(s, time)[i], s) /\ time - Recent(s, time)[i].at < KeepFor}
<1>1. <<>> \in G
    BY RecentOfNone
<1>2. ASSUME NEW s \in Seq(Poses), NEW p \in Poses, s \in G PROVE Append(s, p) \in G
  <2> DEFINE more == Append(s, p)
             r == Recent(s, time)
  <2>1. r \in Seq(Poses) /\ more \in Seq(Poses)
      BY RecentIsSequence
  <2>2. /\ DOMAIN more = 1..(Len(s) + 1) /\ Len(s) \in Nat /\ DOMAIN s = 1..Len(s)
        /\ \A j \in 1..Len(s) : more[j] = s[j]
        /\ more[Len(s) + 1] = p
    <3>1. Len(more) = Len(s) + 1 /\ DOMAIN more = 1..Len(more)
        BY <2>1, AppendProperties
    <3>2. QED
        BY <3>1, AppendProperties
  <2>3. /\ DOMAIN Append(r, p) = 1..(Len(r) + 1) /\ Len(r) \in Nat /\ DOMAIN r = 1..Len(r)
        /\ \A j \in 1..Len(r) : Append(r, p)[j] = r[j]
        /\ Append(r, p)[Len(r) + 1] = p
    <3> HIDE DEF r
    <3>1. /\ Append(r, p) \in Seq(Poses) /\ Len(Append(r, p)) = Len(r) + 1
          /\ \A j \in 1..Len(r) : Append(r, p)[j] = r[j]
          /\ Append(r, p)[Len(r) + 1] = p
        BY <2>1, AppendProperties
    <3>2. QED
        BY <2>1, <3>1
  <2> HIDE DEF more
  <2>4. Recent(more, time) = IF time - p.at < KeepFor THEN Append(r, p) ELSE r
      BY RecentOfAppend DEF more
  <2>5. \A i \in DOMAIN r : Was(r[i], s) /\ time - r[i].at < KeepFor
      BY <1>2
  <2> HIDE DEF r
  <2>6. \A q : Was(q, s) => Was(q, more)
      BY <2>2
  <2>7. Was(p, more)
      BY <2>2
  <2>8. \A i \in DOMAIN Recent(more, time) :
          Was(Recent(more, time)[i], more) /\ time - Recent(more, time)[i].at < KeepFor
    <3> HIDE DEF Was
    <3>1. CASE time - p.at < KeepFor
      <4> SUFFICES ASSUME NEW i \in 1..(Len(r) + 1)
                   PROVE  Was(Append(r, p)[i], more) /\ time - Append(r, p)[i].at < KeepFor
          BY <2>3, <2>4, <3>1
      <4>1. CASE i = Len(r) + 1
          BY <2>3, <2>7, <3>1, <4>1
      <4>2. CASE i # Len(r) + 1
        <5>1. i \in 1..Len(r)
            BY <2>3, <4>2
        <5>2. QED
            BY <2>3, <2>5, <2>6, <5>1
      <4>3. QED
          BY <4>1, <4>2
    <3>2. CASE ~ (time - p.at < KeepFor)
        BY <2>4, <2>5, <2>6, <3>2
    <3>3. QED
        BY <3>1, <3>2
  <2>9. QED
      BY <2>1, <2>8 DEF more
<1> HIDE DEF G
<1>3. Seq(Poses) \subseteq G
    BY <1>1, <1>2, SequencesByAppend
<1>4. QED
    BY <1>3 DEF G
-----------------------------------------------------------------------------
(* Poses *)

\* A pose is sent after it was taken and arrives after it was sent.
ClockInv ==
  /\ \A i \in DOMAIN wire : wire[i].at <= now
  /\ \A i \in DOMAIN received : received[i].at <= arrived[i] /\ arrived[i] <= now

\* From what core has over the wire to the agent's matrix and the layouts the frames ascend.
FrameInv ==
  /\ matrix <= layouts.version
  /\ \A i \in DOMAIN wire : wire[i].frame <= matrix
  /\ \A i, j \in DOMAIN wire : i < j => wire[i].frame <= wire[j].frame
  /\ \A i \in DOMAIN received : received[i].frame <= matrix
  /\ \A i \in DOMAIN received, j \in DOMAIN wire : received[i].frame <= wire[j].frame
  /\ FramesNeverGoBack

\* What the history holds, between two trims.
HistoryInv ==
  /\ Recent(history, now) = Recent(received, now)
  /\ \A k \in DOMAIN history : \E i \in DOMAIN received :
       received[i] = history[k] /\ now - arrived[i] <= KeepFor + sinceClean
  /\ latest = (IF received = <<>> THEN <<>> ELSE <<Last(received)>>)

\* The inductive invariant of the poses.
PoseInv == PoseTypeOK /\ ClockInv /\ FrameInv /\ HistoryInv

LEMMA PoseInitInv == PoseInit => PoseInv
<1> SUFFICES ASSUME PoseInit PROVE PoseInv
    OBVIOUS
<1>1. <<>> \in Seq(Poses) /\ <<>> \in Seq(0..MaxTime) /\ Len(<<>>) = 0 /\ DOMAIN <<>> = {}
    OBVIOUS
<1>2. PoseTypeOK
    BY <1>1, PoseAssumption DEF PoseInit, PoseTypeOK
<1>3. QED
    BY <1>1, <1>2 DEF PoseInit, PoseInv, ClockInv, FrameInv, HistoryInv, FramesNeverGoBack

\* One more pose received, the first on the wire.
LEMMA ReceiveKeeps == PoseInv /\ OnPoseUpdate => PoseInv'
<1> SUFFICES ASSUME PoseInv, OnPoseUpdate PROVE PoseInv'
    OBVIOUS
<1> DEFINE p == Head(wire)
<1>1. /\ wire \in Seq(Poses) /\ wire # <<>> /\ received \in Seq(Poses) /\ history \in Seq(Poses)
      /\ arrived \in Seq(0..MaxTime) /\ Len(arrived) = Len(received) /\ now \in 0..MaxTime
      /\ MaxTime \in Nat /\ KeepFor \in Nat \ {0} /\ sinceClean \in 0..KeepFor
    BY PoseAssumption DEF PoseInv, PoseTypeOK, OnPoseUpdate
<1>2. /\ wire' = Tail(wire) /\ received' = Append(received, p) /\ history' = Append(history, p)
      /\ arrived' = Append(arrived, now) /\ latest' = <<p>>
      /\ UNCHANGED <<now, sinceClean, layouts, matrix, spc>>
    BY DEF OnPoseUpdate
<1>3. /\ p \in Poses /\ p = wire[1] /\ 1 \in DOMAIN wire
      /\ wire' \in Seq(Poses) /\ Len(wire') = Len(wire) - 1 /\ Len(wire) \in Nat
      /\ \A i \in DOMAIN wire' : i + 1 \in DOMAIN wire /\ wire'[i] = wire[i + 1] /\ 1 < i + 1 /\ i \in Nat
  <2>1. p \in Poses /\ p = wire[1] /\ wire' \in Seq(Poses) /\ Len(wire') = Len(wire) - 1
        /\ \A i \in 1..Len(wire') : wire'[i] = wire[i + 1]
      BY <1>1, <1>2, HeadTailProperties
  <2>2. Len(wire) \in Nat \ {0} /\ DOMAIN wire = 1..Len(wire) /\ DOMAIN wire' = 1..Len(wire')
      BY <1>1, <2>1, EmptySeq
  <2>3. QED
      BY <2>1, <2>2
<1> HIDE DEF p
<1>4. /\ received' \in Seq(Poses) /\ Len(received') = Len(received) + 1 /\ Len(received) \in Nat
      /\ DOMAIN received' = 1..(Len(received) + 1) /\ DOMAIN received = 1..Len(received)
      /\ \A i \in DOMAIN received : received'[i] = received[i]
      /\ received'[Len(received) + 1] = p /\ received' # <<>>
  <2>1. /\ received' \in Seq(Poses) /\ Len(received') = Len(received) + 1
        /\ \A i \in 1..Len(received) : received'[i] = received[i]
        /\ received'[Len(received) + 1] = p
      BY <1>1, <1>2, <1>3, AppendProperties
  <2>2. received' # <<>>
      BY <1>1, <2>1
  <2>3. QED
      BY <1>1, <2>1, <2>2
<1>5. /\ history' \in Seq(Poses) /\ Len(history') = Len(history) + 1 /\ Len(history) \in Nat
      /\ DOMAIN history' = 1..(Len(history) + 1) /\ DOMAIN history = 1..Len(history)
      /\ \A i \in DOMAIN history : history'[i] = history[i]
      /\ history'[Len(history) + 1] = p
  <2>1. /\ history' \in Seq(Poses) /\ Len(history') = Len(history) + 1
        /\ \A i \in 1..Len(history) : history'[i] = history[i]
        /\ history'[Len(history) + 1] = p
      BY <1>1, <1>2, <1>3, AppendProperties
  <2>2. /\ Len(history) \in Nat /\ DOMAIN history = 1..Len(history)
        /\ DOMAIN history' = 1..Len(history')
      BY <1>1, <2>1
  <2>3. QED
      BY <2>1, <2>2
<1>6. /\ arrived' \in Seq(0..MaxTime) /\ Len(arrived') = Len(received) + 1
      /\ \A i \in DOMAIN received : arrived'[i] = arrived[i] /\ arrived[i] \in 0..MaxTime
      /\ arrived'[Len(received) + 1] = now
  <2>1. /\ arrived' \in Seq(0..MaxTime) /\ Len(arrived') = Len(arrived) + 1
        /\ \A i \in 1..Len(arrived) : arrived'[i] = arrived[i]
        /\ arrived'[Len(arrived) + 1] = now
      BY <1>1, <1>2, AppendProperties
  <2>2. \A i \in 1..Len(arrived) : arrived[i] \in 0..MaxTime
      BY <1>1
  <2>3. QED
      BY <1>1, <1>4, <2>1, <2>2
<1>7. \A i \in DOMAIN received' : i \in DOMAIN received \/ i = Len(received) + 1
    BY <1>4
<1>8. PoseTypeOK'
  <2>1. <<p>> \in Seq(Poses) /\ Len(<<p>>) = 1
      BY <1>3
  <2>2. QED
      BY <1>2, <1>3, <1>4, <1>5, <1>6, <2>1 DEF PoseInv, PoseTypeOK
<1>9. ClockInv'
  <2>1. \A i \in DOMAIN wire' : wire'[i].at <= now
      BY <1>3 DEF PoseInv, ClockInv
  <2>2. ASSUME NEW i \in DOMAIN received'
        PROVE  received'[i].at <= arrived'[i] /\ arrived'[i] <= now
    <3>1. CASE i \in DOMAIN received
        BY <1>4, <1>6, <3>1 DEF PoseInv, ClockInv
    <3>2. CASE i = Len(received) + 1
      <4>1. p.at <= now /\ now <= now
          BY <1>1, <1>3 DEF PoseInv, ClockInv
      <4>2. QED
          BY <1>4, <1>6, <3>2, <4>1
    <3>3. QED
        BY <1>7, <3>1, <3>2
  <2>3. QED
      BY <1>2, <2>1, <2>2 DEF ClockInv
<1>10. FrameInv'
  <2>1. \A i \in DOMAIN wire' : wire'[i].frame <= matrix /\ p.frame <= wire'[i].frame
      BY <1>3 DEF PoseInv, FrameInv
  <2>2. p.frame <= matrix
      BY <1>3 DEF PoseInv, FrameInv
  <2>3. \A i, j \in DOMAIN wire' : i < j => wire'[i].frame <= wire'[j].frame
    <3> SUFFICES ASSUME NEW i \in DOMAIN wire', NEW j \in DOMAIN wire', i < j
                 PROVE  wire'[i].frame <= wire'[j].frame
        OBVIOUS
    <3>1. i + 1 \in DOMAIN wire /\ j + 1 \in DOMAIN wire /\ i + 1 < j + 1
        BY <1>3
    <3>2. wire[i + 1].frame <= wire[j + 1].frame
        BY <3>1 DEF PoseInv, FrameInv
    <3>3. QED
        BY <1>3, <3>2
  <2>4. \A i \in DOMAIN received' : received'[i].frame <= matrix
      BY <1>4, <1>7, <2>2 DEF PoseInv, FrameInv
  <2>5. \A i \in DOMAIN received', j \in DOMAIN wire' : received'[i].frame <= wire'[j].frame
      BY <1>3, <1>4, <1>7, <2>1 DEF PoseInv, FrameInv
  <2>6. \A i, j \in DOMAIN received' : i < j => received'[i].frame <= received'[j].frame
    <3> SUFFICES ASSUME NEW i \in DOMAIN received', NEW j \in DOMAIN received', i < j
                 PROVE  received'[i].frame <= received'[j].frame
        OBVIOUS
    <3>1. i \in DOMAIN received
        BY <1>4
    <3>2. CASE j = Len(received) + 1
        BY <1>3, <1>4, <3>1, <3>2 DEF PoseInv, FrameInv
    <3>3. CASE j \in DOMAIN received
        BY <1>4, <3>1, <3>3 DEF PoseInv, FrameInv, FramesNeverGoBack
    <3>4. QED
        BY <1>7, <3>2, <3>3
  <2>7. matrix <= layouts.version
      BY DEF PoseInv, FrameInv
  <2>8. QED
      BY <1>2, <2>1, <2>3, <2>4, <2>5, <2>6, <2>7 DEF FrameInv, FramesNeverGoBack
<1>11. HistoryInv'
  <2>1. Recent(history', now) = Recent(received', now)
    <3>1. Recent(history, now) = Recent(received, now)
        BY DEF PoseInv, HistoryInv
    <3>2. Recent(Append(history, p), now)
            = IF now - p.at < KeepFor THEN Append(Recent(history, now), p) ELSE Recent(history, now)
        BY <1>1, <1>3, RecentOfAppend
    <3>3. Recent(Append(received, p), now)
            = IF now - p.at < KeepFor THEN Append(Recent(received, now), p) ELSE Recent(received, now)
        BY <1>1, <1>3, RecentOfAppend
    <3>4. QED
        BY <1>2, <3>1, <3>2, <3>3
  <2>2. ASSUME NEW k \in DOMAIN history'
        PROVE  \E i \in DOMAIN received' :
                 received'[i] = history'[k] /\ now - arrived'[i] <= KeepFor + sinceClean
    <3>1. CASE k \in DOMAIN history
      <4>1. PICK i \in DOMAIN received :
              received[i] = history[k] /\ now - arrived[i] <= KeepFor + sinceClean
          BY <3>1 DEF PoseInv, HistoryInv
      <4>2. i \in DOMAIN received'
          BY <1>4
      <4>3. QED
          BY <1>4, <1>5, <1>6, <3>1, <4>1, <4>2
    <3>2. CASE k = Len(history) + 1
      <4>1. Len(received) + 1 \in DOMAIN received'
          BY <1>4
      <4>2. now - now <= KeepFor + sinceClean
          BY <1>1
      <4>3. QED
          BY <1>4, <1>5, <1>6, <3>2, <4>1, <4>2
    <3>3. QED
        BY <1>5, <3>1, <3>2
  <2>3. Last(received') = p
      BY <1>4 DEF Last
  <2>4. QED
      BY <1>2, <1>4, <2>1, <2>2, <2>3 DEF HistoryInv
<1>12. QED
    BY <1>8, <1>9, <1>10, <1>11 DEF PoseInv

\* A trim.
LEMMA CleanKeeps == PoseInv /\ CleanHistory => PoseInv'
<1> SUFFICES ASSUME PoseInv, CleanHistory PROVE PoseInv'
    OBVIOUS
<1>1. /\ received \in Seq(Poses) /\ history \in Seq(Poses)
      /\ arrived \in Seq(0..MaxTime) /\ Len(arrived) = Len(received) /\ now \in 0..MaxTime
      /\ MaxTime \in Nat /\ KeepFor \in Nat \ {0} /\ sinceClean = KeepFor
    BY PoseAssumption DEF PoseInv, PoseTypeOK, CleanHistory
<1>2. /\ history' = Recent(history, now) /\ sinceClean' = 0
      /\ UNCHANGED <<now, layouts, matrix, spc, wire, latest, received, arrived>>
    BY DEF CleanHistory
<1>3. now \in Nat /\ 0 \in 0..KeepFor
    BY <1>1
<1>4. history' \in Seq(Poses)
    BY <1>1, <1>2, RecentIsSequence
<1>5. PoseTypeOK'
    BY <1>2, <1>3, <1>4 DEF PoseInv, PoseTypeOK
<1>6. ClockInv' /\ FrameInv'
    BY <1>2 DEF PoseInv, ClockInv, FrameInv, FramesNeverGoBack
<1>7. HistoryInv'
  <2>1. Recent(history', now) = Recent(received, now)
    <3>1. Recent(Recent(history, now), now) = Recent(history, now)
        BY <1>1, <1>3, RecentOfRecent
    <3>2. QED
        BY <1>2, <3>1 DEF PoseInv, HistoryInv
  <2>2. ASSUME NEW k \in DOMAIN history'
        PROVE  \E i \in DOMAIN received :
                 received[i] = history'[k] /\ now - arrived[i] <= KeepFor + 0
    <3>1. history'[k] \in Poses /\ now - history'[k].at < KeepFor
      <4>1. now - history'[k].at < KeepFor
          BY <1>1, <1>2, <1>3, RecentAreRecent
      <4>2. QED
          BY <1>4, <4>1
    <3>2. PICK n \in DOMAIN history : history[n] = history'[k]
        BY <1>1, <1>2, <1>3, RecentAreRecent
    <3>3. PICK i \in DOMAIN received : received[i] = history[n]
        BY DEF PoseInv, HistoryInv
    <3>4. received[i].at <= arrived[i]
        BY DEF PoseInv, ClockInv
    <3>5. arrived[i] \in Nat /\ history'[k].at \in Nat
      <4>1. i \in 1..Len(arrived)
          BY <1>1
      <4>2. arrived[i] \in 0..MaxTime
          BY <1>1, <4>1
      <4>3. history'[k].at \in 0..MaxTime
          BY <3>1 DEF Poses
      <4>4. QED
          BY <1>1, <4>2, <4>3
    <3>6. QED
        BY <1>1, <1>3, <3>1, <3>2, <3>3, <3>4, <3>5, SMTT(30)
  <2>3. QED
      BY <1>2, <2>1, <2>2 DEF PoseInv, HistoryInv
<1>8. QED
    BY <1>5, <1>6, <1>7 DEF PoseInv

\* A tick of the clock.
LEMMA PassTimeKeeps == PoseInv /\ PassTime => PoseInv'
<1> SUFFICES ASSUME PoseInv, PassTime PROVE PoseInv'
    OBVIOUS
<1>1. /\ wire \in Seq(Poses) /\ received \in Seq(Poses) /\ history \in Seq(Poses)
      /\ arrived \in Seq(0..MaxTime) /\ Len(arrived) = Len(received) /\ now \in 0..MaxTime
      /\ MaxTime \in Nat /\ KeepFor \in Nat \ {0} /\ sinceClean \in 0..KeepFor
      /\ now < MaxTime /\ sinceClean < KeepFor /\ now' = now + 1 /\ sinceClean' = sinceClean + 1
      /\ UNCHANGED <<layouts, matrix, spc, wire, latest, history, received, arrived>>
    BY PoseAssumption DEF PoseInv, PoseTypeOK, PassTime
<1>2. now \in Nat /\ now + 1 \in 0..MaxTime /\ sinceClean + 1 \in 0..KeepFor
    BY <1>1
<1>3. /\ \A i \in DOMAIN received : arrived[i] \in Nat /\ received[i].at \in Nat
      /\ \A i \in DOMAIN wire : wire[i].at \in Nat
  <2>1. \A i \in DOMAIN received : i \in 1..Len(arrived) /\ received[i] \in Poses
      BY <1>1
  <2>2. \A i \in DOMAIN wire : wire[i] \in Poses
      BY <1>1
  <2>3. \A i \in 1..Len(arrived) : arrived[i] \in Nat
      BY <1>1
  <2>4. QED
      BY <1>1, <2>1, <2>2, <2>3, SMTT(30) DEF Poses
<1>4. PoseTypeOK'
    BY <1>1, <1>2 DEF PoseInv, PoseTypeOK
<1>5. ClockInv'
  <2>1. \A i \in DOMAIN wire : wire[i].at <= now + 1
      BY <1>2, <1>3 DEF PoseInv, ClockInv
  <2>2. \A i \in DOMAIN received : received[i].at <= arrived[i] /\ arrived[i] <= now + 1
      BY <1>2, <1>3 DEF PoseInv, ClockInv
  <2>3. QED
      BY <1>1, <2>1, <2>2 DEF ClockInv
<1>6. FrameInv'
    BY <1>1 DEF PoseInv, FrameInv, FramesNeverGoBack
<1>7. HistoryInv'
  <2>1. Recent(history, now + 1) = Recent(received, now + 1)
    <3>1. now + 1 \in Nat /\ now <= now + 1
        BY <1>2
    <3>2. Recent(Recent(history, now), now + 1) = Recent(history, now + 1)
        BY <1>1, <1>2, <3>1, RecentOfRecent
    <3>3. Recent(Recent(received, now), now + 1) = Recent(received, now + 1)
        BY <1>1, <1>2, <3>1, RecentOfRecent
    <3>4. QED
        BY <3>2, <3>3 DEF PoseInv, HistoryInv
  <2>2. ASSUME NEW k \in DOMAIN history
        PROVE  \E i \in DOMAIN received :
                 received[i] = history[k] /\ (now + 1) - arrived[i] <= KeepFor + (sinceClean + 1)
    <3>1. PICK i \in DOMAIN received :
            received[i] = history[k] /\ now - arrived[i] <= KeepFor + sinceClean
        BY DEF PoseInv, HistoryInv
    <3>2. arrived[i] \in Nat
        BY <1>3
    <3>3. (now + 1) - arrived[i] <= KeepFor + (sinceClean + 1)
        BY <1>1, <1>2, <3>1, <3>2, SMTT(30)
    <3>4. QED
        BY <3>1, <3>3
  <2>3. QED
      BY <1>1, <2>1, <2>2 DEF PoseInv, HistoryInv
<1>8. QED
    BY <1>4, <1>5, <1>6, <1>7 DEF PoseInv

\* A pose sent, in the frame of the matrix.
LEMMA SendKeeps == PoseInv /\ SendPose => PoseInv'
<1> SUFFICES ASSUME PoseInv, SendPose PROVE PoseInv'
    OBVIOUS
<1> DEFINE p == [at |-> now, frame |-> matrix]
<1>1. /\ wire \in Seq(Poses) /\ now \in 0..MaxTime /\ matrix \in 0..2 /\ wire' = Append(wire, p)
      /\ UNCHANGED <<now, sinceClean, layouts, matrix, spc, latest, history, received, arrived>>
    BY DEF PoseInv, PoseTypeOK, SendPose
<1>2. p \in Poses /\ p.at = now /\ p.frame = matrix /\ MaxTime \in Nat
    BY <1>1, PoseAssumption DEF Poses
<1> HIDE DEF p
<1>3. /\ wire' \in Seq(Poses) /\ Len(wire) \in Nat
      /\ DOMAIN wire' = 1..(Len(wire) + 1) /\ DOMAIN wire = 1..Len(wire)
      /\ \A i \in DOMAIN wire : wire'[i] = wire[i]
      /\ wire'[Len(wire) + 1] = p
  <2>1. /\ wire' \in Seq(Poses) /\ Len(wire') = Len(wire) + 1
        /\ \A i \in 1..Len(wire) : wire'[i] = wire[i]
        /\ wire'[Len(wire) + 1] = p
      BY <1>1, <1>2, AppendProperties
  <2>2. QED
      BY <1>1, <2>1
<1>4. \A i \in DOMAIN wire' : i \in DOMAIN wire \/ i = Len(wire) + 1
    BY <1>3
<1>5. PoseTypeOK'
    BY <1>1, <1>3 DEF PoseInv, PoseTypeOK
<1>6. ClockInv'
  <2>1. \A i \in DOMAIN wire' : wire'[i].at <= now
      BY <1>1, <1>2, <1>3, <1>4 DEF PoseInv, ClockInv
  <2>2. QED
      BY <1>1, <2>1 DEF PoseInv, ClockInv
<1>7. FrameInv'
  <2>1. \A i \in DOMAIN wire' : wire'[i].frame <= matrix
      BY <1>1, <1>2, <1>3, <1>4 DEF PoseInv, FrameInv
  <2>2. \A i, j \in DOMAIN wire' : i < j => wire'[i].frame <= wire'[j].frame
    <3> SUFFICES ASSUME NEW i \in DOMAIN wire', NEW j \in DOMAIN wire', i < j
                 PROVE  wire'[i].frame <= wire'[j].frame
        OBVIOUS
    <3>1. i \in DOMAIN wire
        BY <1>3
    <3>2. CASE j = Len(wire) + 1
        BY <1>2, <1>3, <3>1, <3>2 DEF PoseInv, FrameInv
    <3>3. CASE j \in DOMAIN wire
        BY <1>3, <3>1, <3>3 DEF PoseInv, FrameInv
    <3>4. QED
        BY <1>4, <3>2, <3>3
  <2>3. \A i \in DOMAIN received, j \in DOMAIN wire' : received[i].frame <= wire'[j].frame
      BY <1>2, <1>3, <1>4 DEF PoseInv, FrameInv
  <2>4. QED
      BY <1>1, <2>1, <2>2, <2>3 DEF PoseInv, FrameInv, FramesNeverGoBack
<1>8. HistoryInv'
    BY <1>1 DEF PoseInv, HistoryInv
<1>9. QED
    BY <1>5, <1>6, <1>7, <1>8 DEF PoseInv

\* What leaves the poses that were sent alone keeps the frames in order, if the matrix
\* and the layouts only move on.
LEMMA OthersKeep ==
  ASSUME PoseInv, PoseTypeOK', matrix <= matrix', matrix' <= layouts'.version,
         UNCHANGED <<now, sinceClean, wire, latest, history, received, arrived>>
  PROVE  PoseInv'
<1>1. /\ matrix \in Nat /\ matrix' \in Nat /\ wire \in Seq(Poses) /\ received \in Seq(Poses)
      /\ \A i \in DOMAIN wire : wire[i].frame \in Nat
      /\ \A i \in DOMAIN received : received[i].frame \in Nat
  <2>1. wire \in Seq(Poses) /\ received \in Seq(Poses) /\ matrix \in 0..2 /\ matrix' \in 0..2
      BY DEF PoseInv, PoseTypeOK
  <2>2. \A q \in Poses : q.frame \in Nat
      BY DEF Poses
  <2>3. QED
      BY <2>1, <2>2
<1>2. ClockInv' /\ HistoryInv'
    BY DEF PoseInv, ClockInv, HistoryInv
<1>3. \A i \in DOMAIN wire : wire[i].frame <= matrix'
    BY <1>1 DEF PoseInv, FrameInv
<1>4. \A i \in DOMAIN received : received[i].frame <= matrix'
    BY <1>1 DEF PoseInv, FrameInv
<1>5. FrameInv'
    BY <1>3, <1>4 DEF PoseInv, FrameInv, FramesNeverGoBack
<1>6. QED
    BY <1>2, <1>5 DEF PoseInv

LEMMA PoseStep == PoseInv /\ [PoseNext]_poseVars => PoseInv'
<1> SUFFICES ASSUME PoseInv, [PoseNext]_poseVars PROVE PoseInv'
    OBVIOUS
<1>1. CASE OnPoseUpdate
    BY <1>1, ReceiveKeeps
<1>2. CASE CleanHistory
    BY <1>2, CleanKeeps
<1>3. CASE PassTime
    BY <1>3, PassTimeKeeps
<1>4. CASE SendPose
    BY <1>4, SendKeeps
<1>5. matrix \in 0..2 /\ layouts.version \in 1..2 /\ matrix <= layouts.version
    BY DEF PoseInv, PoseTypeOK, FrameInv
<1>6. CASE \/ FetchMatrix \/ StopSending \/ RunAgain \/ UNCHANGED poseVars
           \/ \E b \in BOOLEAN : OpenStream(b) \/ SetLayouts(b)
  <2>1. /\ UNCHANGED <<now, sinceClean, wire, latest, history, received, arrived>>
        /\ matrix <= matrix' /\ matrix' <= layouts'.version
      BY <1>5, <1>6 DEF FetchMatrix, StopSending, RunAgain, OpenStream, SetLayouts, poseVars
  <2>2. PoseTypeOK'
    <3>1. CASE FetchMatrix
        BY <1>5, <3>1 DEF FetchMatrix, PoseInv, PoseTypeOK
    <3>2. CASE StopSending \/ RunAgain \/ UNCHANGED poseVars
        BY <3>2 DEF StopSending, RunAgain, poseVars, PoseInv, PoseTypeOK
    <3>3. CASE \E b \in BOOLEAN : OpenStream(b) \/ SetLayouts(b)
        BY <3>3 DEF OpenStream, SetLayouts, PoseInv, PoseTypeOK
    <3>4. QED
        BY <1>6, <3>1, <3>2, <3>3
  <2>3. QED
      BY <2>1, <2>2, OthersKeep
<1>7. QED
    BY <1>1, <1>2, <1>3, <1>4, <1>6 DEF PoseNext

LEMMA PoseInvIsSound == PoseInv => PoseSound
<1> SUFFICES ASSUME PoseInv PROVE PoseSound
    OBVIOUS
<1>1. ASSUME NEW q \in ToSet(history)
      PROVE  \E i \in DOMAIN received : received[i] = q /\ now - arrived[i] <= 2 * KeepFor
  <2>1. PICK k \in DOMAIN history : history[k] = q
      BY DEF ToSet
  <2>2. PICK i \in DOMAIN received :
          received[i] = history[k] /\ now - arrived[i] <= KeepFor + sinceClean
      BY DEF PoseInv, HistoryInv
  <2>3. arrived[i] \in Nat /\ now \in Nat /\ KeepFor \in Nat /\ sinceClean \in 0..KeepFor
    <3>1. i \in 1..Len(arrived) /\ arrived \in Seq(0..MaxTime) /\ now \in 0..MaxTime
          /\ sinceClean \in 0..KeepFor
        BY DEF PoseInv, PoseTypeOK
    <3>2. QED
        BY <3>1, PoseAssumption
  <2>4. QED
      BY <2>1, <2>2, <2>3
<1>2. HistoryIsRecent
    BY <1>1 DEF PoseInv, HistoryInv, HistoryIsRecent
<1>3. QED
    BY <1>2 DEF PoseInv, FrameInv, PoseSound

\* However long the stream breaks off and the clock runs: the trim of cleanHistory takes no
\* pose younger than keepFor and leaves none for longer than twice that, the latest pose
\* survives it, and the frames of the poses never go back (PoseListener, StreamPose.Run).
THEOREM PosesAreSound == PoseSpec => []PoseSound
<1>1. PoseSpec => []PoseInv
    BY PoseInitInv, PoseStep, PTL DEF PoseSpec
<1>2. QED
    BY <1>1, PoseInvIsSound, PTL
=============================================================================
