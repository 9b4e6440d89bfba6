------------------------------ MODULE TaskStatus ------------------------------
(* A task's status and what its changes tell: the stamp completedAt, the     *)
(* task_completed activity of its deal and the webhook events. Three paths   *)
(* change it: PATCH (status read before the update, outside a transaction),  *)
(* the toggle, and the MCP tool (both in a transaction, under READ           *)
(* COMMITTED). Bound: MaxTaskWrites changes.                                 *)
EXTENDS Naturals

CONSTANTS TaskCalls,      \* requests in flight
          TasksOverlap,   \* may they overlap?
          MaxTaskWrites

ASSUME TaskAssumption == TasksOverlap \in BOOLEAN /\ MaxTaskWrites \in Nat

VARIABLES task,           \* the row
          taskCall,       \* the requests
          turned,         \* times the row went from pending to completed
          logged, told,   \* task_completed activities, task.completed events
          taskWrites

taskVars == <<task, taskCall, turned, logged, told, taskWrites>>

NoCall == [pc |-> "idle"]
Statuses == {"pending", "completed"}

TaskInit ==
  /\ task \in [state : {"live"}, status : {"pending"}, stamped : {FALSE},
               onDeal : BOOLEAN]
  /\ taskCall = [c \in TaskCalls |-> NoCall]
  /\ turned = 0 /\ logged = 0 /\ told = 0 /\ taskWrites = 0

MayStart(c) == /\ taskCall[c].pc = "idle" /\ taskWrites < MaxTaskWrites
               /\ TasksOverlap \/ \A d \in TaskCalls : taskCall[d].pc = "idle"

\* The pre-state each path decides on: PATCH and the MCP tool carry a status
\* of the client's (or none), the toggle turns the one it reads.
ReadTask(c) ==
  /\ MayStart(c) /\ task.state = "live"
  /\ taskWrites' = taskWrites + 1
  /\ \E path \in {"patch", "toggle", "mcp"}, sent \in Statuses \cup {"unsent"} :
       /\ path = "toggle" => sent # task.status /\ sent # "unsent"
       /\ taskCall' = [taskCall EXCEPT ![c] =
            [pc |-> "write", path |-> path, sent |-> sent, before |-> task.status]]
  /\ UNCHANGED <<task, turned, logged, told>>

\* PATCH stamps whenever a status is sent, even the one the row has; the MCP
\* tool only when it differs from what it read.
Sets(call) == IF call.path = "mcp" THEN call.sent \in Statuses \ {call.before}
              ELSE call.sent # "unsent"

\* Mutant: going back to pending keeps the stamp.
After_KeepsStamp(call, row) ==
  IF Sets(call)
  THEN [row EXCEPT !.status = call.sent, !.stamped = @ \/ call.sent = "completed"]
  ELSE row

After(call, row) ==
  IF Sets(call)
  THEN [row EXCEPT !.status = call.sent, !.stamped = (call.sent = "completed")]
  ELSE row

\* Mutant: the status before the write is not looked at.
JustCompleted_Any(call, row) == row.status = "completed"

JustCompleted(call, row) == call.before # "completed" /\ row.status = "completed"

WriteTask(c) ==
  LET call == taskCall[c]
      new == After(call, task)
  IN /\ call.pc = "write"
     /\ IF task.state = "live"
        THEN /\ task' = new
             /\ turned' = IF task.status = "pending" /\ new.status = "completed"
                          THEN turned + 1 ELSE turned
             /\ logged' = IF /\ call.path # "patch" /\ task.onDeal
                             /\ Sets(call) /\ call.sent = "completed"
                          THEN logged + 1 ELSE logged
             /\ taskCall' = [taskCall EXCEPT ![c] =
                  [pc |-> "emit", path |-> call.path, just |-> JustCompleted(call, new)]]
        ELSE /\ taskCall' = [taskCall EXCEPT ![c] = NoCall]     \* 404
             /\ UNCHANGED <<task, turned, logged>>
     /\ UNCHANGED <<told, taskWrites>>

\* The events describe the row as it is now; a row gone since is not told, and
\* the MCP tool tells task.updated only.
EmitTask(c) ==
  /\ taskCall[c].pc = "emit"
  /\ told' = IF /\ task.state = "live" /\ taskCall[c].just
                /\ taskCall[c].path # "mcp"
             THEN told + 1 ELSE told
  /\ taskCall' = [taskCall EXCEPT ![c] = NoCall]
  /\ UNCHANGED <<task, turned, logged, taskWrites>>

DeleteTask ==
  /\ task.state = "live"
  /\ task' = [task EXCEPT !.state = "gone"]
  /\ UNCHANGED <<taskCall, turned, logged, told, taskWrites>>

TaskNext == \/ \E c \in TaskCalls : ReadTask(c) \/ WriteTask(c) \/ EmitTask(c)
            \/ DeleteTask

TaskSpec == TaskInit /\ [][TaskNext]_taskVars

------------------------------------------------------------------------------
\* Three paths write the pair, by different rules: completedAt is set exactly
\* while the task is completed (calendar and reports read it).
StampMatchesStatus == task.stamped <=> task.status = "completed"

\* tasks.ts: "we emit task.completed only on the transition (idempotent
\* re-saves shouldn't keep firing it)": no more events, and no more activities,
\* than times the task was completed. It rests on requests not overlapping.
ToldOncePerCompletion == told <= turned /\ logged <= turned

\* Status, stamp and event of a task agree, whichever way it was written.
CompletionsAgree == StampMatchesStatus /\ ToldOncePerCompletion
==============================================================================
