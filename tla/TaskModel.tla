------------------------------ MODULE TaskModel ------------------------------
(***************************************************************************)
(* The task life-cycle vocabulary shared by core and the agent SDK:        *)
(* cmd/core/model/task.go (the statuses and how they are classified),      *)
(* cmd/core/repository/task_repo_memory.go (the in-memory repository seen  *)
(* as a function from the saved task ids to their records) and the status  *)
(* translation of cmd/core/task_mqtt.go.  Payloads, results and time       *)
(* stamps tell no two behaviours apart and are left out.                   *)
(***************************************************************************)
\* model.TaskStatus: the twelve statuses core knows.
TaskStatus == {"unspecified", "draft", "starting", "cannot_start", "started",
               "expiring", "expired", "aborting", "aborted", "failed",
               "finishing", "finished"}

\* (*Task).Transient: nothing confirmed by the agent yet.
TransientStatus == {"unspecified", "draft", "starting", "expiring",
                    "aborting", "finishing"}

\* (*Task).Final: the task no longer occupies its agent.
FinalStatus == {"aborted", "failed", "finished"}

\* agentsdk.TaskAckStatus: what an agent ever reports.
AckStatus == {"cannot_start", "started", "aborted", "failed", "finished"}

\* taskAckStatusToProto followed by OnTaskUpdated's conversion: an unknown
\* string becomes "unspecified".
AckToTaskStatus(s) == IF s \in AckStatus THEN s ELSE "unspecified"

\* (*Task).MissionTaskStatus: what a mission is told.
MissionTaskStatus(s) ==
  CASE s = "started"                                          -> "in_progress"
    [] s = "finished"                                         -> "completed"
    [] s \in {"failed", "cannot_start", "aborted", "expired"} -> "failed"
    [] OTHER                                                  -> "unspecified"

\* TaskRepoMemory.GetActiveTasksByAgent: the agent's tasks that are not final.
ActiveTasks(repo, agent) ==
  {t \in DOMAIN repo : repo[t].agent = agent /\ repo[t].status \notin FinalStatus}

\* TaskRepoMemory.SaveTask: insert or replace the record under the task's id.
SaveTask(repo, task, record) ==
  [t \in DOMAIN repo \cup {task} |-> IF t = task THEN record ELSE repo[t]]
=============================================================================
