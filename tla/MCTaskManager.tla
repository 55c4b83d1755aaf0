---------------------------- MODULE MCTaskManager ----------------------------
(* TLC instance of TaskManager: three tasks, one of them of an unknown type. *)
EXTENDS TaskManager, FiniteSets, TLC

CONSTANTS t1, t2, t3, w1, w2

MCTasks   == {t1, t2, t3}
MCKnown   == {t1, t2}
MCWorkers == {w1, w2}
MCTwo     == {t1, t2}

\* Bound: two of the tasks are published, and one fault if the unknown one is among them.
MCBound ==
  /\ Cardinality(accepted) <= 2
  /\ t3 \in accepted => gen.reconnects + gen.crashes <= 1

MCSymmetry == Permutations(MCKnown) \cup Permutations(MCWorkers)
=============================================================================
