--------------------------- MODULE OneTaskAtATime ---------------------------
(***************************************************************************)
(* What task dispatch promises an agent's operator, with nothing of how it *)
(* is done: a task is queued only when no other is queued or running, runs *)
(* once, and is then done.                                                 *)
(***************************************************************************)
CONSTANT Tasks

VARIABLE phase  \* the phase of each task

Phase == {"new", "queued", "running", "done"}

Init == phase = [t \in Tasks |-> "new"]

\* The single-active-task rule.
Queue(t) ==
  /\ phase[t] = "new"
  /\ \A u \in Tasks : phase[u] \in {"new", "done"}
  /\ phase' = [phase EXCEPT ![t] = "queued"]

Run(t)  == phase[t] = "queued"  /\ phase' = [phase EXCEPT ![t] = "running"]
Done(t) == phase[t] = "running" /\ phase' = [phase EXCEPT ![t] = "done"]

Next == \E t \in Tasks : Queue(t) \/ Run(t) \/ Done(t)

Spec == Init /\ [][Next]_phase
=============================================================================
