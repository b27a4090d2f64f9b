--------------------------- MODULE TaskProjection ---------------------------
(***************************************************************************)
(* What an MCP client is told about a background job: the pure projection  *)
(* of a registry snapshot (jobs::JobInfo) to a SEP-2663 task               *)
(* (src/src/mcp/tasks.rs).  A JobInfo is abstracted to the fields the      *)
(* projection branches on.                                                 *)
(***************************************************************************)

\* JobInfo: `failed` stands for error.is_some(), `result` for
\* final_result.is_some().
JobInfo == [running : BOOLEAN, interrupted : BOOLEAN,
            failed : BOOLEAN, result : BOOLEAN]

TaskStatus == {"working", "completed", "failed", "cancelled"}

TerminalStatus == TaskStatus \ {"working"}

\* tasks::task_state: running, then error, then interrupted.
TaskState(info) ==
    CASE info.running     -> "working"
      [] ~info.running /\ info.failed -> "failed"
      [] ~info.running /\ ~info.failed /\ info.interrupted -> "cancelled"
      [] OTHER -> "completed"

\* Seeded fault: the message has a word of its own for a cancelled task.
StatusMessageFaulty(info) ==
    IF info.running THEN "working"
    ELSE IF info.failed THEN "failed"
    ELSE IF info.interrupted THEN "interrupted"
    ELSE "completed"

\* tasks::status_message: the text beside the status, by the status it
\* speaks of ("streamed n bytes" is the text of a working task).
StatusMessage(info) ==
    IF info.running THEN "working"
    ELSE IF info.failed THEN "failed"
    ELSE IF info.interrupted THEN "cancelled"
    ELSE "completed"

\* What a task-facing answer says: the status and the message beside it.
Task(status, info) == [status |-> status, message |-> StatusMessage(info)]

\* tasks::create_task: the seed answer to a task-mode tools/call.
CreateTask(info) == Task("working", info)

\* tasks::detailed_task: the answer to tasks/get.
DetailedTask(info) == Task(TaskState(info), info)
=============================================================================
