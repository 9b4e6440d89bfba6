------------------------------- MODULE MCRecords -------------------------------
(* What the CRM stores, for TLC, in one run: deals on the board one request   *)
(* at a time, custom fields and tags, a task's status, deletions through MCP, *)
(* and the backups of it all. A behaviour is one of a part chosen at the      *)
(* start, and the other parts stay as they are. They share no state, so this  *)
(* checks each of them alone.                                                 *)
EXTENDS DealBoard, CrmRecords, TaskStatus, McpApproval, ScheduledBackup, TLC

VARIABLE part
partVars == <<part, vars, crmVars, taskVars, mcpVars, backupVars>>

PartInit ==
  /\ part \in {"deals", "fields", "task", "mcp", "backup"}
  /\ IF part = "deals" THEN TRUE ELSE board = CHOOSE b \in StartBoards : TRUE
  /\ Init /\ CrmInit /\ TaskInit /\ McpInit /\ BackupInit
  /\ part = "task" \/ ~task.onDeal

\* The requests on the board are alike: they start in one order.
InOrder == \A r \in Requests :
             pc[r] = "new" /\ pc'[r] # "new" => r = CHOOSE q \in Requests : pc[q] = "new"

PartNext ==
  /\ UNCHANGED part
  /\ IF part = "deals" THEN Next /\ InOrder ELSE UNCHANGED vars
  /\ IF part = "fields" THEN CrmNext ELSE UNCHANGED crmVars
  /\ IF part = "task" THEN TaskNext ELSE UNCHANGED taskVars
  /\ IF part = "mcp" THEN McpNext ELSE UNCHANGED mcpVars
  /\ IF part = "backup" THEN BackupNext ELSE UNCHANGED backupVars

PartSpec == PartInit /\ [][PartNext]_partVars
=============================================================================
