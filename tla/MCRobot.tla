------------------------------- MODULE MCRobot -------------------------------
(* TLC instance of the modules of the robot's side that share no state: each *)
(* behaviour exercises one of them and leaves the others as they begin.      *)
EXTENDS SlamtecDriver, RobotMonitor, AgentTaskSlot, PoseStream

VARIABLE slice

vars == <<slice, driverVars, monitorVars, slotVars, poseVars>>

\* Layouts are interchangeable, so one stands for the robot's at the start.  The driver
\* begins with a robot whose soft brake is on, which its flag denies; the value matters to
\* nothing else.
Init ==
  /\ slice \in {"driver", "monitor", "slot", "pose"}
  /\ DriverInit /\ MonitorInit /\ SlotInit /\ PoseInit
  /\ floor = ALayout /\ brake = TRUE

Of(name, step) == slice = name /\ step /\ UNCHANGED slice

Next ==
  \/ Of("driver", DriverNext)   /\ UNCHANGED <<monitorVars, slotVars, poseVars>>
  \/ Of("monitor", MonitorNext) /\ UNCHANGED <<driverVars, slotVars, poseVars>>
  \/ Of("slot", SlotNext)       /\ UNCHANGED <<driverVars, monitorVars, poseVars>>
  \/ Of("pose", PoseNext)       /\ UNCHANGED <<driverVars, monitorVars, slotVars>>

\* Goroutines are scheduled, tickers fire, a skill waits no longer than its time limit,
\* the handlers not in Stuck return, subscribers of the brake read.  All but the health
\* loop take finitely many steps, so one condition serves them.
Goroutines ==
  \/ Of("driver", \E c \in Calls : Goroutine(c)) /\ UNCHANGED <<monitorVars, slotVars, poseVars>>
  \/ Of("monitor", \E s \in Subs : ReadBrake(s)) /\ UNCHANGED <<driverVars, slotVars, poseVars>>
  \/ /\ Of("slot", \E r \in Runs : TaskGoroutine(r) \/ AckAborted(r))
     /\ UNCHANGED <<driverVars, monitorVars, poseVars>>

FairSpec ==
  /\ Init /\ [][Next]_vars
  /\ WF_vars(Goroutines)
  /\ WF_vars(Of("monitor", HealthLoop) /\ UNCHANGED <<driverVars, slotVars, poseVars>>)
-----------------------------------------------------------------------------
\* Skill calls answer, a brake transition reaches who reads, accepted tasks are answered.
RobotGoesOn == EveryCallAnswers /\ BrakeReachesReader /\ AcceptedIsAnswered
=============================================================================
