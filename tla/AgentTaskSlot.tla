---------------------------- MODULE AgentTaskSlot ----------------------------
(***************************************************************************)
(* pkg/agentsdk/service's AgentTaskManager: one slot, filled by HandleTask *)
(* and emptied by the task's goroutine or by AbortCurrentTask, whichever   *)
(* comes first.  The goroutine acknowledges STARTED, runs the handler and  *)
(* acknowledges the outcome only if clearTask finds its task still in the  *)
(* slot.  The slot is recognised by the task's id alone.                   *)
(*                                                                         *)
(* The stream that calls HandleTask and AbortCurrentTask is external: it   *)
(* answers a refusal with CANNOT_START and an abort with ABORTED.          *)
(***************************************************************************)
EXTENDS Naturals

CONSTANTS
  Tasks,    \* task ids
  Known,    \* those whose type has a handler
  MaxRuns,  \* bound: accepted calls of HandleTask
  MayRepeat, \* the ids that may be handed over more than once
  Stuck     \* the ids whose handler waits for its context: JACK without a direction

ASSUME SlotAssumption ==
  /\ Known \subseteq Tasks /\ MayRepeat \subseteq Tasks /\ Stuck \subseteq Tasks
  /\ Tasks # {} /\ MaxRuns \in Nat

Runs  == 1..MaxRuns  \* the goroutines, in the order their tasks were accepted
NoRun == 0

VARIABLES
  current,  \* the run whose task is in the slot, or NoRun
  slotRun,  \* the goroutines: [task, pc, ctx, err]
  aborting, \* runs whose abort has succeeded, ABORTED still to be sent
  acks      \* history: per run, what has been acknowledged for it

slotVars == <<current, slotRun, aborting, acks>>

SlotTypeOK ==
  /\ current \in Runs \cup {NoRun}
  /\ slotRun \in [Runs -> [task : Tasks, ctx : {"live", "cancelled"}, err : BOOLEAN,
                           pc : {"new", "start", "execute", "clear", "answer", "over"}]]
  /\ aborting \subseteq Runs
  /\ acks \in [Runs -> SUBSET {"started", "finished", "failed", "aborted"}]

SlotInit ==
  /\ current = NoRun
  /\ slotRun = [r \in Runs |->
       [task |-> CHOOSE t \in Tasks : TRUE, ctx |-> "live", err |-> FALSE, pc |-> "new"]]
  /\ aborting = {} /\ acks = [r \in Runs |-> {}]

HasBegun(r) == slotRun[r].pc # "new"
NextRun(r)  == ~HasBegun(r) /\ \A s \in 1..(r - 1) : HasBegun(s)
Repeated(t) == \E r, s \in Runs : /\ r # s /\ HasBegun(r) /\ HasBegun(s)
                                  /\ slotRun[r].task = t /\ slotRun[s].task = t
-----------------------------------------------------------------------------
(* Plausible bugs, each a changed form of a definition below; no run uses them, the *)
(* manifest's mutants do.                                                          *)

\* The goroutine clears the slot without asking whose it is.
ClearUnasked(r) ==
  /\ slotRun[r].pc = "clear"
  /\ current' = NoRun
  /\ slotRun' = [slotRun EXCEPT ![r].pc = "answer"]
  /\ UNCHANGED <<aborting, acks>>

\* An abort empties the slot and forgets to cancel.
AbortWithoutCancel(t) ==
  /\ current # NoRun /\ slotRun[current].task = t
  /\ aborting' = aborting \cup {current}
  /\ current' = NoRun
  /\ UNCHANGED <<slotRun, acks>>

\* clearTask compares and forgets to clear.
ClearKeepsSlot(r) ==
  /\ slotRun[r].pc = "clear"
  /\ slotRun' = [slotRun EXCEPT ![r].pc =
       IF current # NoRun /\ slotRun[current].task = slotRun[r].task THEN "answer" ELSE "over"]
  /\ UNCHANGED <<current, aborting, acks>>

\* The slot is cleared only after a task that went well.
ClearAfterSuccess(r) ==
  /\ slotRun[r].pc = "clear" /\ ~slotRun[r].err
  /\ IF current # NoRun /\ slotRun[current].task = slotRun[r].task
     THEN current' = NoRun /\ slotRun' = [slotRun EXCEPT ![r].pc = "answer"]
     ELSE UNCHANGED current /\ slotRun' = [slotRun EXCEPT ![r].pc = "over"]
  /\ UNCHANGED <<aborting, acks>>
-----------------------------------------------------------------------------
\* HandleTask finds the slot empty and a handler: the slot is taken under the lock.
AcceptTask(r, t) ==
  /\ NextRun(r) /\ t \in Known
  /\ t \in MayRepeat \/ \A s \in Runs : HasBegun(s) => slotRun[s].task # t
  /\ current = NoRun
  /\ current' = r
  /\ slotRun' = [slotRun EXCEPT ![r].task = t, ![r].pc = "start"]
  /\ UNCHANGED <<aborting, acks>>

\* HandleTask returns an error, the slot being taken or the type unknown.
RefuseTask(t) ==
  /\ current # NoRun \/ t \notin Known
  /\ UNCHANGED slotVars

\* The goroutine's first act, long after the lock was let go.
AckStarted(r) ==
  /\ slotRun[r].pc = "start"
  /\ acks' = [acks EXCEPT ![r] = @ \cup {"started"}]
  /\ slotRun' = [slotRun EXCEPT ![r].pc = "execute"]
  /\ UNCHANGED <<current, aborting>>

\* The handler returns: the skill's result, or early because its context is cancelled.
\* JackHandler has no channel to wait for when the direction is neither up nor down.
HandlerReturns(r, err) ==
  /\ slotRun[r].pc = "execute"
  /\ slotRun[r].task \notin Stuck \/ slotRun[r].ctx = "cancelled"
  /\ slotRun' = [slotRun EXCEPT ![r].pc = "clear", ![r].err = err]
  /\ UNCHANGED <<current, aborting, acks>>

\* clearTask: only the task's id is compared.
ClearTask(r) ==
  /\ slotRun[r].pc = "clear"
  /\ IF current # NoRun /\ slotRun[current].task = slotRun[r].task
     THEN current' = NoRun /\ slotRun' = [slotRun EXCEPT ![r].pc = "answer"]
     ELSE UNCHANGED current /\ slotRun' = [slotRun EXCEPT ![r].pc = "over"]
  /\ UNCHANGED <<aborting, acks>>

AckOutcome(r) ==
  /\ slotRun[r].pc = "answer"
  /\ acks' = [acks EXCEPT ![r] = @ \cup {IF slotRun[r].err THEN "failed" ELSE "finished"}]
  /\ slotRun' = [slotRun EXCEPT ![r].pc = "over"]
  /\ UNCHANGED <<current, aborting>>

\* AbortCurrentTask returns true: the context is cancelled and the slot empty.
AbortCurrentTask(t) ==
  /\ current # NoRun /\ slotRun[current].task = t
  /\ slotRun' = [slotRun EXCEPT ![current].ctx = "cancelled"]
  /\ aborting' = aborting \cup {current}
  /\ current' = NoRun
  /\ UNCHANGED acks

\* Its caller then acknowledges ABORTED.
AckAborted(r) ==
  /\ r \in aborting
  /\ acks' = [acks EXCEPT ![r] = @ \cup {"aborted"}]
  /\ aborting' = aborting \ {r}
  /\ UNCHANGED <<current, slotRun>>

\* The stream's context ends and every handler's with it.
ParentCancelled ==
  /\ \E r \in Runs : HasBegun(r) /\ slotRun[r].ctx = "live"
  /\ slotRun' = [r \in Runs |-> IF HasBegun(r) THEN [slotRun[r] EXCEPT !.ctx = "cancelled"]
                                ELSE slotRun[r]]
  /\ UNCHANGED <<current, aborting, acks>>
-----------------------------------------------------------------------------
TaskGoroutine(r) ==
  \/ AckStarted(r) \/ ClearTask(r) \/ AckOutcome(r)
  \/ \E err \in BOOLEAN : HandlerReturns(r, err)

SlotNext ==
  \/ \E r \in Runs, t \in Tasks : AcceptTask(r, t)
  \/ \E t \in Tasks : RefuseTask(t) \/ AbortCurrentTask(t)
  \/ \E r \in Runs : TaskGoroutine(r) \/ AckAborted(r)
  \/ ParentCancelled

SlotSpec == SlotInit /\ [][SlotNext]_slotVars
-----------------------------------------------------------------------------
(* Properties *)

Outcomes(r) == acks[r] \cap {"finished", "failed", "aborted"}

\* As long as no id comes twice, a task gets one outcome: an aborted one none from its
\* handler, however the abort and the handler's return fall.
OneOutcome ==
  \A r \in Runs : ~Repeated(slotRun[r].task) =>
    /\ \A a, b \in Outcomes(r) : a = b
    /\ r \in aborting => Outcomes(r) = {}

\* As long as no id comes twice, at most one handler works whose context nobody has
\* cancelled, and its task is the one in the slot: the robot serves one task.
OneLiveHandler ==
  (\A t \in Tasks : ~Repeated(t)) =>
    \A r \in Runs :
      (slotRun[r].pc \in {"start", "execute"} /\ slotRun[r].ctx = "live") => current = r

\* The slot never stays with a goroutine that is done: the next task is not refused for it.
SlotIsFreed ==
  current # NoRun => slotRun[current].pc \in {"start", "execute", "clear"}

\* Every accepted task ends with an outcome, if its handler does not wait for a
\* cancellation and aborts are told.
AcceptedIsAnswered ==
  \A r \in Runs : HasBegun(r) /\ slotRun[r].task \notin MayRepeat \cup Stuck
    ~> Outcomes(r) # {}

\* One task, one live handler, one outcome.
SlotSound == SlotTypeOK /\ OneOutcome /\ OneLiveHandler /\ SlotIsFreed
=============================================================================
