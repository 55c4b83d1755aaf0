-------------------------- MODULE MCTaskDispatcher --------------------------
(* TLC instance of TaskDispatcher: two agents, two callers, three task ids. *)
EXTENDS TaskDispatcher

CONSTANTS a1, a2, c1, c2, t1, t2, t3

MCAgents       == {a1, a2}
MCCallers      == {c1, c2}
MCTasks        == {t1, t2, t3}
MCMissionTasks == {t1}
\* One string for each way a report can go: final (failed and aborted go the way of
\* finished), not final (started goes the way of cannot_start, which also tells the
\* mission failed), and a string core cannot read.
MCAcks         == {"finished", "cannot_start", "garbage"}
=============================================================================
