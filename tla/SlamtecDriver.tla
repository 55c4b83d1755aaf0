---------------------------- MODULE SlamtecDriver ----------------------------
(***************************************************************************)
(* The skills of pkg/agentsdk/slamtec: each call runs in a goroutine of    *)
(* its own that talks to the robot over HTTP and answers once, on a        *)
(* channel of capacity one.  Motion skills POST one robot action after     *)
(* another and poll each until it is done, the call is cancelled or five   *)
(* minutes are over; the jack skills send a command and poll the stage;    *)
(* localisation and the soft brake keep a copy of what they told the       *)
(* robot.                                                                  *)
(*                                                                         *)
(* The robot is external: it runs one motion action at a time, a new one   *)
(* ends the one before, and any request may fail after it took effect.     *)
(* What a poll that fails does (nothing, the loop goes on) is a stutter.   *)
(***************************************************************************)
EXTENDS Naturals, Sequences

CONSTANTS
  MaxCalls,    \* bound: the skill calls of one behaviour
  Layouts,     \* layouts the robot may be localised on
  NoLayout,    \* the empty layout id
  MaxActions,  \* bound: motion actions the robot accepts
  MaxFaults    \* bound: requests that fail

ASSUME DriverAssumption ==
  /\ Layouts # {} /\ NoLayout \notin Layouts
  /\ MaxCalls \in Nat /\ MaxActions \in Nat \ {0} /\ MaxFaults \in Nat

Calls == 1..MaxCalls  \* in the order they begin

VARIABLES
  layoutID, \* SlamtecRobot.layoutID
  soft,     \* SlamtecRobot.softBrakeActive
  call,     \* the goroutines: [kind, pc, acts, arg, cancelled, result]
  motion,   \* robot: its actions in the order of acceptance: [kind, state, result]
  jack,     \* robot: [stage, target, alarm]
  floor,    \* robot: the layout it is localised on
  brake,    \* robot: its base.emergency_stop parameter
  failed,   \* requests that have failed
  muddled   \* history: copies the robot may differ from: never told it, or split since by an
            \* overlap, a lost answer or a call that changes one side

driverVars == <<layoutID, soft, call, motion, jack, floor, brake, failed, muddled>>

Moves == {"goto", "home", "enter", "exit", "tag"}
Jacks == {"jackup", "jackdown"}
Kinds == Moves \cup Jacks \cup {"localise", "oneside", "brakeon", "brakeoff", "stop", "stub"}
NoKind == "none"

\* The robot actions a motion skill submits, in order.
GoTo           == <<"move">>  \* GoToNamedTarget, GoToXY
GoChargeNearby == <<"gohome">>
EnterLift      == <<"move", "enterlift", "rotate">>
ExitLift       == <<"leavelift">>
MoveToTag      == <<"totag">>

Plan(kind) == CASE kind = "goto"  -> GoTo      [] kind = "home" -> GoChargeNearby
                [] kind = "enter" -> EnterLift [] kind = "exit" -> ExitLift
                [] kind = "tag"   -> MoveToTag

\* Which copy of the robot's state a skill keeps in step, if any.
Copy(kind) == CASE kind = "localise" -> "layout"
                [] kind \in {"brakeon", "brakeoff"} -> "soft"
                [] OTHER -> "nothing"

ALayout == CHOOSE l \in Layouts : TRUE

Idle == [kind |-> NoKind, pc |-> "idle", acts |-> <<>>, arg |-> ALayout,
         cancelled |-> FALSE, result |-> "none"]

NextCall(c) == call[c].pc = "idle" /\ \A d \in 1..(c - 1) : call[d].pc # "idle"
Active(c) == call[c].pc \notin {"idle", "over"}

CallRecord == [kind : Kinds \cup {NoKind},
               pc : {"idle", "request", "poll", "settle", "store", "over"},
               acts : Seq(1..MaxActions), arg : Layouts, cancelled : BOOLEAN,
               result : {"none", "success", "failed", "timeout", "cancelled"}]
ActionKinds == {"move", "gohome", "enterlift", "rotate", "leavelift", "totag"}
ActionRecord == [kind : ActionKinds, state : {"running", "done"}, result : {"ok", "failed"}]

DriverTypeOK ==
  /\ layoutID \in Layouts \cup {NoLayout} /\ soft \in BOOLEAN
  /\ call \in [Calls -> CallRecord]
  /\ motion \in Seq(ActionRecord) /\ Len(motion) <= MaxActions
  /\ jack \in [stage : {"up", "down"}, target : {"up", "down"}, alarm : BOOLEAN]
  /\ floor \in Layouts /\ brake \in BOOLEAN
  /\ failed \in 0..MaxFaults /\ muddled \subseteq {"layout", "soft"}

\* New reads neither the layout nor the brake of the robot it finds.
DriverInit ==
  /\ floor \in Layouts /\ layoutID = NoLayout
  /\ soft = FALSE /\ brake \in BOOLEAN
  /\ call = [c \in Calls |-> Idle]
  /\ motion = <<>>
  /\ jack = [stage |-> "down", target |-> "down", alarm |-> FALSE]
  /\ failed = 0 /\ muddled = {"layout", "soft"}

\* sendResult and close: the one answer of a call.  The result is what Err says, which
\* is all the task handlers look at.
Answered(c, r) == [call EXCEPT ![c].pc = "over", ![c].result = r]

Running(k) == k \in DOMAIN motion /\ motion[k].state = "running"
Ended(k)   == motion[k].state = "done" /\ motion[k].result = "ok"
Current(c) == call[c].acts[Len(call[c].acts)]

\* What another call of the same kind of copy, under way when this one begins, may split.
Overlaps(kind) ==
  {x \in {Copy(kind)} \ {"nothing"} : \E d \in Calls : Active(d) /\ Copy(call[d].kind) = x}

\* A localisation begun while no other is under way makes a new start of the layout's copy.
MuddledAfterBegin(kind) ==
  IF kind = "localise" /\ Overlaps(kind) = {} THEN muddled \ {"layout"}
  ELSE muddled \cup Overlaps(kind)
-----------------------------------------------------------------------------
(* Plausible bugs, each a changed form of a definition below; no run uses them, the *)
(* manifest's mutants do.                                                          *)

\* "Done" is taken for success, whatever the result says.
PollDoneAnyResult(c) ==
  /\ call[c].pc = "poll" /\ call[c].kind \in Moves
  /\ motion[Current(c)].state = "done"
  /\ call' = IF Len(call[c].acts) = Len(Plan(call[c].kind))
             THEN Answered(c, "success") ELSE [call EXCEPT ![c].pc = "request"]
  /\ UNCHANGED <<layoutID, soft, motion, jack, floor, brake, failed, muddled>>

\* An action that fails is logged and the next one submitted.
PollFailedGoesOn(c) ==
  /\ call[c].pc = "poll" /\ call[c].kind \in Moves
  /\ motion[Current(c)].result = "failed"
  /\ call' = IF Len(call[c].acts) = Len(Plan(call[c].kind))
             THEN Answered(c, "failed") ELSE [call EXCEPT ![c].pc = "request"]
  /\ UNCHANGED <<layoutID, soft, motion, jack, floor, brake, failed, muddled>>

\* A poll that fails ends the call.
PollFailedOrLost(c) ==
  /\ call[c].pc = "poll" /\ call[c].kind \in Moves
  /\ motion[Current(c)].result = "failed" \/ failed < MaxFaults
  /\ call' = Answered(c, "failed")
  /\ UNCHANGED <<layoutID, soft, motion, jack, floor, brake, failed, muddled>>

\* waitForAction and pollJackStatus without the time limit.
NoDeadline(c) == FALSE /\ UNCHANGED driverVars

\* The layout a localisation moves to is not recorded.
BeginForgetsLayout(c, kind, arg) ==
  /\ NextCall(c)
  /\ call' = [call EXCEPT ![c].kind = kind, ![c].pc = "request", ![c].arg = arg]
  /\ muddled' = MuddledAfterBegin(kind)
  /\ UNCHANGED <<layoutID, soft, motion, jack, floor, brake, failed>>

\* The flag is set though the robot has refused the parameter.
BrakeRefusedStores(c) ==
  /\ call[c].pc = "request" /\ call[c].kind \in {"brakeon", "brakeoff"}
  /\ failed < MaxFaults
  /\ failed' = failed + 1
  /\ soft' = (call[c].kind = "brakeon")
  /\ call' = Answered(c, "failed")
  /\ UNCHANGED <<layoutID, motion, jack, floor, brake, muddled>>
-----------------------------------------------------------------------------
(* The robot *)

\* The action that runs is ended.
Stopped == [k \in DOMAIN motion |-> IF Running(k)
              THEN [motion[k] EXCEPT !.state = "done", !.result = "failed"] ELSE motion[k]]

\* A new action ends the one that runs.
Accepting(kind) == Append(Stopped, [kind |-> kind, state |-> "running", result |-> "ok"])

\* An action goes wrong; the robot may report so before it is done.
ActionFailing(k) ==
  /\ Running(k) /\ motion[k].result = "ok"
  /\ motion' = [motion EXCEPT ![k].result = "failed"]
  /\ UNCHANGED <<layoutID, soft, call, jack, floor, brake, failed, muddled>>

ActionEnds(k) ==
  /\ Running(k)
  /\ motion' = [motion EXCEPT ![k].state = "done"]
  /\ UNCHANGED <<layoutID, soft, call, jack, floor, brake, failed, muddled>>

JackMoves ==
  /\ \/ jack.stage # jack.target /\ jack' = [jack EXCEPT !.stage = jack.target]
     \/ jack.stage # jack.target /\ jack' = [jack EXCEPT !.alarm = TRUE]
  /\ UNCHANGED <<layoutID, soft, call, motion, floor, brake, failed, muddled>>
-----------------------------------------------------------------------------
(* The driver *)

\* A skill is called: its goroutine starts.  Localisation records the layout at once;
\* nothing else has an argument that matters.
Begin(c, kind, arg) ==
  /\ NextCall(c)
  /\ arg \in (IF kind \in {"localise", "oneside"} THEN Layouts ELSE {ALayout})
  /\ call' = [call EXCEPT ![c].kind = kind, ![c].pc = "request", ![c].arg = arg]
  /\ layoutID' = IF kind = "localise" THEN arg ELSE layoutID
  /\ muddled' = MuddledAfterBegin(kind)
  /\ UNCHANGED <<soft, motion, jack, floor, brake, failed>>

\* The caller's context is cancelled; a call that does not look at it goes on.
Cancel(c) ==
  /\ Active(c) /\ ~call[c].cancelled
  /\ call' = [call EXCEPT ![c].cancelled = TRUE]
  /\ UNCHANGED <<layoutID, soft, motion, jack, floor, brake, failed, muddled>>

\* GoToNamedTarget without such a POI, EnterLift without the elevator or its poses.
TargetUnknown(c) ==
  /\ call[c].pc = "request" /\ call[c].acts = <<>>
  /\ call[c].kind \in {"goto", "enter"}
  /\ call' = Answered(c, "failed")
  /\ UNCHANGED <<layoutID, soft, motion, jack, floor, brake, failed, muddled>>

\* submitAction: the robot takes the next action of the plan and names its id.
Submit(c) ==
  /\ call[c].pc = "request" /\ call[c].kind \in Moves /\ Len(motion) < MaxActions
  /\ motion' = Accepting(Plan(call[c].kind)[Len(call[c].acts) + 1])
  /\ call' = [call EXCEPT ![c].pc = "poll", ![c].acts = Append(@, Len(motion) + 1)]
  /\ UNCHANGED <<layoutID, soft, jack, floor, brake, failed, muddled>>

\* submitAction: the robot rejects the action.
SubmitRejected(c) ==
  /\ call[c].pc = "request" /\ call[c].kind \in Moves
  /\ call' = Answered(c, "failed")
  /\ UNCHANGED <<layoutID, soft, motion, jack, floor, brake, failed, muddled>>

\* submitAction: the answer is lost; the robot may have taken the action.
SubmitLost(c) ==
  /\ call[c].pc = "request" /\ call[c].kind \in Moves /\ failed < MaxFaults
  /\ failed' = failed + 1
  /\ motion' \in {motion} \cup
       (IF Len(motion) < MaxActions
        THEN {Accepting(Plan(call[c].kind)[Len(call[c].acts) + 1])} ELSE {})
  /\ call' = Answered(c, "failed")
  /\ UNCHANGED <<layoutID, soft, jack, floor, brake, muddled>>

\* waitForAction finds its action done with success: the next one, or the answer.
PollDone(c) ==
  /\ call[c].pc = "poll" /\ call[c].kind \in Moves /\ Ended(Current(c))
  /\ call' = IF Len(call[c].acts) = Len(Plan(call[c].kind))
             THEN Answered(c, "success") ELSE [call EXCEPT ![c].pc = "request"]
  /\ UNCHANGED <<layoutID, soft, motion, jack, floor, brake, failed, muddled>>

\* waitForAction finds its action failed, done or not yet.
PollFailed(c) ==
  /\ call[c].pc = "poll" /\ call[c].kind \in Moves
  /\ motion[Current(c)].result = "failed"
  /\ call' = Answered(c, "failed")
  /\ UNCHANGED <<layoutID, soft, motion, jack, floor, brake, failed, muddled>>

\* sendJackCommand; a failed one may have reached the robot.
JackCommand(c, ok) ==
  /\ call[c].pc = "request" /\ call[c].kind \in Jacks
  /\ ok \/ failed < MaxFaults
  /\ failed' = IF ok THEN failed ELSE failed + 1
  /\ jack' \in {[jack EXCEPT !.target = IF call[c].kind = "jackup" THEN "up" ELSE "down"]}
                \cup (IF ok THEN {} ELSE {jack})
  /\ call' = IF ok THEN [call EXCEPT ![c].pc = "poll"] ELSE Answered(c, "failed")
  /\ UNCHANGED <<layoutID, soft, motion, floor, brake, muddled>>

\* pollJackStatus: an alarm comes before the stage.
PollJack(c) ==
  /\ call[c].pc = "poll" /\ call[c].kind \in Jacks
  /\ \/ jack.alarm /\ call' = Answered(c, "failed")
     \/ /\ ~jack.alarm /\ jack.stage = (IF call[c].kind = "jackup" THEN "up" ELSE "down")
        /\ call' = Answered(c, "success")
  /\ UNCHANGED <<layoutID, soft, motion, jack, floor, brake, failed, muddled>>

\* actionTimeout, jackTimeout: the robot goes on.
Deadline(c) ==
  /\ call[c].pc = "poll"
  /\ call' = Answered(c, "timeout")
  /\ UNCHANGED <<layoutID, soft, motion, jack, floor, brake, failed, muddled>>

\* ctx.Done while waiting: the robot goes on.
CancelSeen(c) ==
  /\ call[c].pc \in {"poll", "settle"} /\ call[c].cancelled
  /\ call' = Answered(c, "cancelled")
  /\ UNCHANGED <<layoutID, soft, motion, jack, floor, brake, failed, muddled>>

\* AutoLocalise and ManualLocalise tell the robot, then wait three seconds for it.
MoveFloor(c) ==
  /\ call[c].pc = "request" /\ call[c].kind = "localise"
  /\ floor' = call[c].arg
  /\ call' = [call EXCEPT ![c].pc = "settle"]
  /\ UNCHANGED <<layoutID, soft, motion, jack, brake, failed, muddled>>

\* They cannot tell it, or are not asked to (no building or layout name); layoutID stays.
FloorNotMoved(c) ==
  /\ call[c].pc = "request" /\ call[c].kind = "localise"
  /\ \/ /\ failed < MaxFaults /\ failed' = failed + 1
        /\ floor' \in {floor, call[c].arg}
        /\ call' = Answered(c, "failed")
     \/ call' = [call EXCEPT ![c].pc = "settle"] /\ UNCHANGED <<failed, floor>>
  /\ muddled' = muddled \cup {"layout"}
  /\ UNCHANGED <<layoutID, soft, motion, jack, brake>>

Settled(c) ==
  /\ call[c].pc = "settle"
  /\ call' = Answered(c, "success")
  /\ UNCHANGED <<layoutID, soft, motion, jack, floor, brake, failed, muddled>>

\* SetDefaultLayoutID, and LocaliseInLift: one side is changed without the other.
SetOneSide(c) ==
  /\ call[c].pc = "request" /\ call[c].kind = "oneside"
  /\ \/ layoutID' = call[c].arg /\ UNCHANGED floor
     \/ floor' = call[c].arg /\ UNCHANGED layoutID
  /\ muddled' = muddled \cup {"layout"}
  /\ call' = Answered(c, "success")
  /\ UNCHANGED <<soft, motion, jack, brake, failed>>

\* ActivateSoftBrake, ReleaseSoftBrake: the robot's parameter first, then the flag.  If no
\* other such call is under way, the flag's copy has a new start.
SetBrake(c) ==
  /\ call[c].pc = "request" /\ call[c].kind \in {"brakeon", "brakeoff"}
  /\ brake' = (call[c].kind = "brakeon")
  /\ call' = [call EXCEPT ![c].pc = "store"]
  /\ muddled' = IF \E d \in Calls \ {c} : Active(d) /\ Copy(call[d].kind) = "soft"
                THEN muddled ELSE muddled \ {"soft"}
  /\ UNCHANGED <<layoutID, soft, motion, jack, floor, failed>>

\* The request fails; if the robot has set the parameter all the same, the flag is wrong.
BrakeRefused(c) ==
  /\ call[c].pc = "request" /\ call[c].kind \in {"brakeon", "brakeoff"}
  /\ failed < MaxFaults /\ failed' = failed + 1
  /\ \/ UNCHANGED <<brake, muddled>>
     \/ brake' = (call[c].kind = "brakeon") /\ muddled' = muddled \cup {"soft"}
  /\ call' = Answered(c, "failed")
  /\ UNCHANGED <<layoutID, soft, motion, jack, floor>>

StoreBrake(c) ==
  /\ call[c].pc = "store"
  /\ soft' = (call[c].kind = "brakeon")
  /\ call' = Answered(c, "success")
  /\ UNCHANGED <<layoutID, motion, jack, floor, brake, failed, muddled>>

\* StopGo: the robot's current action is deleted, or is not; the answer is the same.
StopGo(c) ==
  /\ call[c].pc = "request" /\ call[c].kind = "stop"
  /\ motion' \in {motion, Stopped}
  /\ call' = Answered(c, "success")
  /\ UNCHANGED <<layoutID, soft, jack, floor, brake, failed, muddled>>

\* The skills that only answer: maps, maintenance, manual moves, devices, sound.
Stub(c) ==
  /\ call[c].pc = "request" /\ call[c].kind = "stub"
  /\ call' = Answered(c, "success")
  /\ UNCHANGED <<layoutID, soft, motion, jack, floor, brake, failed, muddled>>
-----------------------------------------------------------------------------
Goroutine(c) ==
  \/ TargetUnknown(c) \/ Submit(c) \/ SubmitRejected(c) \/ SubmitLost(c)
  \/ PollDone(c) \/ PollFailed(c)
  \/ \E ok \in BOOLEAN : JackCommand(c, ok)
  \/ PollJack(c) \/ Deadline(c) \/ CancelSeen(c)
  \/ MoveFloor(c) \/ FloorNotMoved(c) \/ Settled(c) \/ SetOneSide(c)
  \/ SetBrake(c) \/ BrakeRefused(c) \/ StoreBrake(c)
  \/ StopGo(c) \/ Stub(c)

DriverNext ==
  \/ JackMoves
  \/ \E k \in DOMAIN motion : ActionFailing(k) \/ ActionEnds(k)
  \/ \E c \in Calls, kind \in Kinds, l \in Layouts : Begin(c, kind, l)
  \/ \E c \in Calls : Cancel(c) \/ Goroutine(c)

DriverSpec == DriverInit /\ [][DriverNext]_driverVars
-----------------------------------------------------------------------------
(* Properties *)

\* A motion skill answers with success only if the robot has finished, with success,
\* every action of the skill's plan, those and no others, in the plan's order.
SuccessMeansDone ==
  \A c \in Calls : (call[c].result = "success" /\ call[c].kind \in Moves) =>
    /\ Len(call[c].acts) = Len(Plan(call[c].kind))
    /\ \A i \in DOMAIN call[c].acts :
         Ended(call[c].acts[i]) /\ motion[call[c].acts[i]].kind = Plan(call[c].kind)[i]

\* The robot is not sent into the lift before it stands in front of it: an action is
\* submitted only when the one before has ended well, whoever else moves the robot.
StepsInOrder ==
  \A c \in Calls : \A i \in DOMAIN call[c].acts :
    i < Len(call[c].acts) => Ended(call[c].acts[i])

\* An action that runs well has a call waiting for it, unless that call was cancelled, ran
\* out of time or never heard that the action was taken: nothing else leaves a moving robot.
MovesForSomeone ==
  \A k \in DOMAIN motion : (Running(k) /\ motion[k].result = "ok") =>
    \/ \E c \in Calls : /\ call[c].acts # <<>> /\ Current(c) = k
                        /\ call[c].pc = "poll" \/ call[c].result \in {"timeout", "cancelled"}
    \/ failed > 0 /\ \A c \in Calls : \A i \in DOMAIN call[c].acts : call[c].acts[i] # k

\* Once a localisation has gone through, the layout poses are tagged with is the one the
\* robot is on, after every later one as well, one cancelled half-way included, until two
\* overlap, one fails or does not reach the robot, or a call changes one side only.
LayoutAgrees ==
  ("layout" \notin muddled /\ \A c \in Calls : Active(c) => call[c].kind # "localise")
    => layoutID = floor

\* Once a soft brake call has gone through, the flag says what the robot's parameter is when
\* none is under way, after a refused request as well, until two overlap or one takes
\* effect unheard.
SoftBrakeAgrees ==
  ("soft" \notin muddled /\ \A c \in Calls : Active(c) => Copy(call[c].kind) # "soft")
    => soft = brake

\* Every skill call answers, whatever the robot does and whether or not anyone cancels.
EveryCallAnswers == \A c \in Calls : Active(c) ~> ~Active(c)

\* What the calls answer, what the robot is made to do and what the driver remembers of it.
DriverSound ==
  DriverTypeOK /\ SuccessMeansDone /\ StepsInOrder /\ MovesForSomeone /\ LayoutAgrees
    /\ SoftBrakeAgrees
=============================================================================
