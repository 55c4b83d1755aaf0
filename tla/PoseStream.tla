------------------------------ MODULE PoseStream ------------------------------
(***************************************************************************)
(* Pose telemetry: the agent's StreamPose fetches the matrix of its layout *)
(* once, opens a stream and sends a pose at every tick; core's handler     *)
(* hands each event to PoseListener, which keeps the latest pose and a     *)
(* history that a ticker trims.  A pose is the time it was taken at, the   *)
(* layout it is tagged with and the frame it is in: the robot's, or that   *)
(* of the layouts configured in some version.                              *)
(***************************************************************************)
EXTENDS Integers, Sequences, SequencesExt

CONSTANTS
  KeepFor,   \* PoseListener.keepFor, in ticks
  MaxTime,   \* bound: the clock
  MaxPoses   \* bound: poses sent

ASSUME PoseAssumption == KeepFor \in Nat \ {0} /\ MaxTime \in Nat /\ MaxPoses \in Nat

VARIABLES
  now,      \* the clock agent and core share
  sinceClean, \* ticks since PoseListener's ticker fired
  layouts,  \* agentGRPCServer.layouts: [version, usable], usable = a 3x3 matrix is there
  matrix,   \* StreamPose.matrix: the version it came from, 0 for none
  spc,      \* StreamPose.Run: "fetch", "open", "send", "over"
  wire,     \* poses sent and not yet received
  latest,   \* PoseListener.latest of the agent: <<>> or <<pose>>
  history,  \* PoseListener.history of the agent
  received, \* history: every pose received
  arrived   \* history: when each was

poseVars == <<now, sinceClean, layouts, matrix, spc, wire, latest, history, received, arrived>>

Poses == [at : 0..MaxTime, frame : 0..2]

PoseTypeOK ==
  /\ now \in 0..MaxTime /\ sinceClean \in 0..KeepFor
  /\ layouts \in [version : 1..2, usable : BOOLEAN]
  /\ matrix \in 0..2 /\ spc \in {"fetch", "open", "send", "over"}
  /\ wire \in Seq(Poses) /\ latest \in Seq(Poses) /\ Len(latest) <= 1
  /\ history \in Seq(Poses) /\ received \in Seq(Poses)
  /\ arrived \in Seq(0..MaxTime) /\ Len(arrived) = Len(received)

PoseInit ==
  /\ now = 0 /\ sinceClean = 0
  /\ layouts = [version |-> 1, usable |-> TRUE]
  /\ matrix = 0 /\ spc = "fetch"
  /\ wire = <<>> /\ latest = <<>> /\ history = <<>>
  /\ received = <<>> /\ arrived = <<>>

\* cleanHistory's loop over the poses, at a given time.
Recent(poses, time) ==
  LET filtered[n \in 0..Len(poses)] ==
        IF n = 0 THEN <<>>
        ELSE IF time - poses[n].at < KeepFor THEN Append(filtered[n - 1], poses[n])
        ELSE filtered[n - 1]
  IN  filtered[Len(poses)]
-----------------------------------------------------------------------------
(* Plausible bugs, each a changed form of a definition below; no run uses them, the *)
(* manifest's mutants do.                                                          *)

\* The history is trimmed by position.
CleanKeepsLast ==
  /\ sinceClean = KeepFor
  /\ sinceClean' = 0
  /\ history' = IF history = <<>> THEN <<>> ELSE <<Last(history)>>
  /\ UNCHANGED <<now, layouts, matrix, spc, wire, latest, received, arrived>>

\* Run starts without a matrix each time.
FetchFromScratch ==
  /\ spc = "fetch" /\ spc' = "open"
  /\ matrix' \in {0} \cup (IF layouts.usable THEN {layouts.version} ELSE {})
  /\ UNCHANGED <<now, sinceClean, layouts, wire, latest, history, received, arrived>>
-----------------------------------------------------------------------------
\* GetTransformationMatrices, once per Run: it fails, or gives the matrix if it has one.
FetchMatrix ==
  /\ spc = "fetch" /\ spc' = "open"
  /\ matrix' \in {matrix} \cup (IF layouts.usable THEN {layouts.version} ELSE {})
  /\ UNCHANGED <<now, sinceClean, layouts, wire, latest, history, received, arrived>>

OpenStream(ok) ==
  /\ spc = "open"
  /\ spc' = IF ok THEN "send" ELSE "over"
  /\ UNCHANGED <<now, sinceClean, layouts, matrix, wire, latest, history, received, arrived>>

\* A tick: getLayoutPose and stream.Send, in the frame of the matrix if there is one.
SendPose ==
  /\ spc = "send" /\ Len(wire) + Len(received) < MaxPoses
  /\ wire' = Append(wire, [at |-> now, frame |-> matrix])
  /\ UNCHANGED <<now, sinceClean, layouts, matrix, spc, latest, history, received, arrived>>

\* ctx is done, or Send fails: the stream is over; its owner may call Run again.
StopSending ==
  /\ spc = "send" /\ spc' = "over"
  /\ UNCHANGED <<now, sinceClean, layouts, matrix, wire, latest, history, received, arrived>>

\* One stream at a time: what the old one sent has arrived.
RunAgain ==
  /\ spc = "over" /\ wire = <<>> /\ spc' = "fetch"
  /\ UNCHANGED <<now, sinceClean, layouts, matrix, wire, latest, history, received, arrived>>

\* ReportPoseTelemetry: OnPoseUpdate sets latest and appends, under one lock.
OnPoseUpdate ==
  /\ wire # <<>>
  /\ latest' = <<Head(wire)>> /\ history' = Append(history, Head(wire))
  /\ received' = Append(received, Head(wire)) /\ arrived' = Append(arrived, now)
  /\ wire' = Tail(wire)
  /\ UNCHANGED <<now, sinceClean, layouts, matrix, spc>>

\* SetLayouts: the stored layouts are replaced; a matrix once fetched stays.
SetLayouts(usable) ==
  /\ layouts.version = 1
  /\ layouts' = [version |-> 2, usable |-> usable]
  /\ UNCHANGED <<now, sinceClean, matrix, spc, wire, latest, history, received, arrived>>

\* Time passes, but not over a trim that is due.
PassTime ==
  /\ now < MaxTime /\ sinceClean < KeepFor
  /\ now' = now + 1 /\ sinceClean' = sinceClean + 1
  /\ UNCHANGED <<layouts, matrix, spc, wire, latest, history, received, arrived>>

CleanHistory ==
  /\ sinceClean = KeepFor
  /\ sinceClean' = 0
  /\ history' = Recent(history, now)
  /\ UNCHANGED <<now, layouts, matrix, spc, wire, latest, received, arrived>>

PoseNext ==
  \/ FetchMatrix \/ SendPose \/ StopSending \/ RunAgain
  \/ OnPoseUpdate \/ PassTime \/ CleanHistory
  \/ \E b \in BOOLEAN : OpenStream(b) \/ SetLayouts(b)

PoseSpec == PoseInit /\ [][PoseNext]_poseVars
-----------------------------------------------------------------------------
(* Properties *)

\* Trimming takes no pose younger than keepFor, keeps the order, and leaves nothing for
\* longer than twice keepFor after it came; the latest pose survives any trim.
HistoryIsRecent ==
  /\ Recent(history, now) = Recent(received, now)
  /\ \A p \in ToSet(history) : \E i \in DOMAIN received :
       received[i] = p /\ now - arrived[i] <= 2 * KeepFor
  /\ latest = (IF received = <<>> THEN <<>> ELSE <<Last(received)>>)

\* Once poses come in a layout's frame they never fall back to the robot's or to an older
\* layout's: a Run that cannot fetch a matrix goes on with the one it had.
FramesNeverGoBack ==
  \A i, j \in DOMAIN received : i < j => received[i].frame <= received[j].frame

\* The history and the frames of the poses, with the types.
PoseSound == PoseTypeOK /\ HistoryIsRecent /\ FramesNeverGoBack
=============================================================================
