----------------------------- MODULE RobotMonitor -----------------------------
(***************************************************************************)
(* The background loops of the Slamtec driver and the emergency brake's    *)
(* subscribers.  New starts the loops only if the robot answers once; the  *)
(* health loop caches what it polls, swaps the brake state outside any     *)
(* lock and, on a change, offers it to every subscriber's channel of       *)
(* capacity one without waiting.  BrakeCh registers and seeds a channel    *)
(* under the lock the broadcast holds.                                     *)
(* A poll that fails leaves the caches as they are: a stutter.             *)
(***************************************************************************)
EXTENDS Naturals, Sequences

CONSTANTS
  Subs,     \* callers of BrakeCh
  MaxFlips  \* bound: changes of the robot's state

ASSUME MonitorAssumption == MaxFlips \in Nat

VARIABLES
  estop,      \* robot: hasSystemEmergencyStop
  docked,     \* robot: on its dock
  flips,      \* changes of the two so far
  loops,      \* "starting", "off" (the robot did not answer New) or "running"
  health,     \* cachedHealth.HasSystemEmergencyStop
  power,      \* cachedPower.DockingStatus = on_dock
  brakeState, \* SlamtecRobot.brakeState
  hpc,        \* the health loop: "poll", "swap", "broadcast"
  polled,     \* newBrake, the value it has just polled
  brakeSubs,  \* SlamtecRobot.brakeSubs
  chan,       \* their channels
  known,      \* what each subscriber last read: {} or {state}
  missed      \* history: subscribers whose full channel refused the newest state

monitorVars == <<estop, docked, flips, loops, health, power, brakeState, hpc, polled,
                 brakeSubs, chan, known, missed>>

MonitorTypeOK ==
  /\ estop \in BOOLEAN /\ docked \in BOOLEAN /\ flips \in 0..MaxFlips
  /\ loops \in {"starting", "off", "running"}
  /\ health \in BOOLEAN /\ power \in BOOLEAN /\ brakeState \in BOOLEAN
  /\ hpc \in {"poll", "swap", "broadcast"} /\ polled \in BOOLEAN
  /\ brakeSubs \subseteq Subs /\ missed \subseteq brakeSubs
  /\ chan \in [Subs -> Seq(BOOLEAN)] /\ \A s \in Subs : Len(chan[s]) <= 1
  /\ known \in [Subs -> SUBSET BOOLEAN]

MonitorInit ==
  /\ estop = FALSE /\ docked = FALSE /\ flips = 0
  /\ loops = "starting" /\ health = FALSE /\ power = FALSE /\ brakeState = FALSE
  /\ hpc = "poll" /\ polled = FALSE
  /\ brakeSubs = {} /\ missed = {}
  /\ chan = [s \in Subs |-> <<>>] /\ known = [s \in Subs |-> {}]

\* IsStatusActive: the emergency stop comes from the health cache, docking from power's.
IsStatusActive(key) == CASE key = "ESTOP" -> health [] key = "DOCKED" -> power
IsBrakeOn == brakeState
-----------------------------------------------------------------------------
(* Plausible bugs, each a changed form of a definition below; no run uses them, the *)
(* manifest's mutants do.                                                          *)

\* The channel is seeded first and registered later.
BrakeChSeedsFirst(s) ==
  /\ s \notin brakeSubs
  /\ IF chan[s] = <<>> /\ known[s] = {}
     THEN chan' = [chan EXCEPT ![s] = <<brakeState>>] /\ UNCHANGED brakeSubs
     ELSE brakeSubs' = brakeSubs \cup {s} /\ UNCHANGED chan
  /\ UNCHANGED <<estop, docked, flips, loops, health, power, brakeState, hpc, polled,
                 known, missed>>

\* Only an engaged brake is broadcast.
SwapTellsOnly(b) ==
  /\ hpc = "swap"
  /\ brakeState' = polled
  /\ hpc' = IF brakeState # polled /\ polled = b THEN "broadcast" ELSE "poll"
  /\ UNCHANGED <<estop, docked, flips, loops, health, power, polled, brakeSubs, chan,
                 known, missed>>
SwapTellsEngaged == SwapTellsOnly(TRUE)

\* Nothing is swapped while nobody subscribes.
SwapIfSubscribed ==
  /\ hpc = "swap"
  /\ brakeState' = IF brakeSubs = {} THEN brakeState ELSE polled
  /\ hpc' = IF brakeSubs # {} /\ brakeState # polled THEN "broadcast" ELSE "poll"
  /\ UNCHANGED <<estop, docked, flips, loops, health, power, polled, brakeSubs, chan,
                 known, missed>>

\* The channel is made with room for two.
BroadcastRoomForTwo ==
  /\ hpc = "broadcast"
  /\ chan' = [s \in Subs |-> IF s \in brakeSubs /\ Len(chan[s]) < 2
                             THEN Append(chan[s], polled) ELSE chan[s]]
  /\ hpc' = "poll"
  /\ UNCHANGED <<estop, docked, flips, loops, health, power, brakeState, polled,
                 brakeSubs, known, missed>>
-----------------------------------------------------------------------------
RobotChanges ==
  /\ flips < MaxFlips /\ flips' = flips + 1
  /\ \/ estop' = ~estop /\ UNCHANGED docked
     \/ docked' = ~docked /\ UNCHANGED estop
  /\ UNCHANGED <<loops, health, power, brakeState, hpc, polled, brakeSubs, chan, known, missed>>

\* New's goroutine: one request decides whether anything is ever polled.
StartLoops(reachable) ==
  /\ loops = "starting"
  /\ loops' = IF reachable THEN "running" ELSE "off"
  /\ UNCHANGED <<estop, docked, flips, health, power, brakeState, hpc, polled, brakeSubs,
                 chan, known, missed>>

PollHealth ==
  /\ loops = "running" /\ hpc = "poll"
  /\ health' = estop /\ polled' = estop /\ hpc' = "swap"
  /\ UNCHANGED <<estop, docked, flips, loops, power, brakeState, brakeSubs, chan, known, missed>>

\* brakeState.Swap, before brakeSubsMu is taken.
SwapBrake ==
  /\ hpc = "swap"
  /\ brakeState' = polled
  /\ hpc' = IF brakeState # polled THEN "broadcast" ELSE "poll"
  /\ UNCHANGED <<estop, docked, flips, loops, health, power, polled, brakeSubs, chan,
                 known, missed>>

\* broadcastBrake: a full channel keeps what it holds.
Broadcast ==
  /\ hpc = "broadcast"
  /\ chan' = [s \in Subs |-> IF s \in brakeSubs /\ chan[s] = <<>> THEN <<polled>> ELSE chan[s]]
  /\ missed' = {s \in brakeSubs : chan[s] # <<>> /\ chan[s] # <<polled>>}
  /\ hpc' = "poll"
  /\ UNCHANGED <<estop, docked, flips, loops, health, power, brakeState, polled, brakeSubs, known>>

PollPower ==
  /\ loops = "running" /\ power # docked
  /\ power' = docked
  /\ UNCHANGED <<estop, docked, flips, loops, health, brakeState, hpc, polled, brakeSubs,
                 chan, known, missed>>

\* BrakeCh: registered and seeded under brakeSubsMu.
BrakeCh(s) ==
  /\ s \notin brakeSubs
  /\ brakeSubs' = brakeSubs \cup {s}
  /\ chan' = [chan EXCEPT ![s] = <<brakeState>>]
  /\ UNCHANGED <<estop, docked, flips, loops, health, power, brakeState, hpc, polled,
                 known, missed>>

ReadBrake(s) ==
  /\ chan[s] # <<>>
  /\ known' = [known EXCEPT ![s] = {Head(chan[s])}]
  /\ chan' = [chan EXCEPT ![s] = Tail(@)]
  /\ UNCHANGED <<estop, docked, flips, loops, health, power, brakeState, hpc, polled,
                 brakeSubs, missed>>
-----------------------------------------------------------------------------
HealthLoop == PollHealth \/ SwapBrake \/ Broadcast

MonitorNext ==
  \/ RobotChanges \/ HealthLoop \/ PollPower
  \/ \E reachable \in BOOLEAN : StartLoops(reachable)
  \/ \E s \in Subs : BrakeCh(s) \/ ReadBrake(s)

MonitorSpec == MonitorInit /\ [][MonitorNext]_monitorVars
-----------------------------------------------------------------------------
(* Properties *)

\* Registering before seeding loses no transition: a subscriber that has emptied its
\* channel knows the brake's state, unless it left an older one unread when the state
\* changed; then it learns nothing before the next change.
ReaderKnowsBrake ==
  \A s \in brakeSubs \ missed :
    (chan[s] = <<>> /\ hpc # "broadcast") => known[s] = {brakeState}

\* Between two rounds of the health loop the brake and the ESTOP status are one answer.
EstopFollowsBrake == hpc = "poll" => IsStatusActive("ESTOP") = IsBrakeOn

\* While the loops run, an engaged or released brake reaches every subscriber that has
\* kept its channel empty, unless the brake changes again first.
BrakeReachesReader ==
  \A s \in Subs, b \in BOOLEAN :
    (s \in brakeSubs /\ loops = "running" /\ estop = b)
      ~> (known[s] = {b} \/ estop # b \/ s \in missed)

\* What subscribers and callers are told of the brake agrees with what was polled.
MonitorSound == MonitorTypeOK /\ ReaderKnowsBrake /\ EstopFollowsBrake
=============================================================================
