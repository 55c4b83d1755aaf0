----------------------------- MODULE MCTaskPlane -----------------------------
(* TLC instance of TaskPlane: one agent, two callers, two tasks and two *)
(* task goroutines.                                                     *)
EXTENDS TaskPlane

CONSTANTS c1, c2, t1, t2, w1, w2

MCCallers  == {c1, c2}
MCTasks    == {t1, t2}
MCWorkers  == {w1, w2}
MCMissions == {}
\* Nothing fails; publishes, statuses and connections are lost; or the processes restart.
MCFaults   == {{}, {"publish", "status", "corelink", "agentlink"}, {"corecrash", "agentcrash"}}
\* Bound: where processes restart, no more than two statuses wait for core at a time.
MCBound == Restarts => Len(statusQ) <= 2
\* One redelivery and nothing else.
MCRelink   == {{"agentlink"}}
=============================================================================
