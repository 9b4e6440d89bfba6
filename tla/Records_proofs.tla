--------------------------- MODULE Records_proofs ---------------------------
(*************************************************************************)
(* Proofs about records and the tools that change them: MCP calls and    *)
(* their approvals, backups, the status of tasks, tags and custom fields, for *)
(* any number of tokens, requests, workers and records.                  *)
(*************************************************************************)
EXTENDS McpApproval, ScheduledBackup, TaskStatus, CrmRecords, TLAPS

-----------------------------------------------------------------------------
(***************************************************************************)
(* Proofs about MCP tool calls, for any number of tokens, approvals and    *)
(* overlapping calls: the types, and that what is deleted was approved and *)
(* is accounted for in the audit log.                                      *)
(***************************************************************************)
USE McpAssumption

-----------------------------------------------------------------------------
(* The types.                                                              *)

LEMMA RunningCalls ==
    ASSUME McpTypeOK, NEW c \in McpCalls, mcpCall[c].pc # "idle"
    PROVE  mcpCall[c] \in Running
BY DEF McpTypeOK, McpIdle

LEMMA ToolsKnown ==
    ASSUME NEW tool \in McpTools
    PROVE  /\ tool.of \in McpKinds
           /\ Destructive(tool) => tool = [verb |-> "delete", of |-> tool.of]
BY DEF McpTools, ReadTools, WriteTools, DeleteTools, Destructive

\* What the steps of a call write into it leaves it one.
LEMMA CallChanged ==
    ASSUME NEW run \in Running, NEW outcome \in {"error", "success", "approval_consumed"}
    PROVE  /\ [run EXCEPT !.pc = "audit", !.outcome = outcome] \in Running
           /\ \A a \in ApprovalIds :
                [run EXCEPT !.pc = "audit", !.outcome = "approval_required", !.shown = a]
                  \in Running
           /\ [run EXCEPT !.pc = "consume"] \in Running
           /\ [run EXCEPT !.pc = "handler"] \in Running
BY Zenon DEF Running

\* The same of an approval.
LEMMA ApprovalChanged ==
    ASSUME NEW row \in Approvals, NEW state \in {"expired", "old", "purged"}
    PROVE  /\ [row EXCEPT !.state = state] \in Approvals
           /\ [row EXCEPT !.consumed = TRUE] \in Approvals
BY Zenon DEF Approvals

LEMMA LiveApprovals ==
    ASSUME McpTypeOK, NEW a \in ApprovalIds, approval[a].state # "unused"
    PROVE  approval[a] \in Approvals
BY DEF McpTypeOK

\* The rows, the calls and the log, one lemma each.
LEMMA RowsTyped ==
    ASSUME McpTypeOK, NEW c \in McpCalls, mcpCall[c].pc # "idle", NEW state \in {"live", "gone"},
           RowBecomes(c, state)
    PROVE  /\ mcpRows' \in [McpKinds -> [McpIds -> {"unborn", "live", "gone"}]]
           /\ \A k \in McpKinds, i \in McpIds :
                mcpRows'[k][i] = IF k = mcpCall[c].tool.of /\ i = mcpCall[c].id
                                 THEN state ELSE mcpRows[k][i]
<1>1. mcpCall[c].tool.of \in McpKinds /\ mcpCall[c].id \in McpIds
  BY RunningCalls, ToolsKnown DEF Running
<1> QED
  BY <1>1 DEF RowBecomes, McpTypeOK

LEMMA CallTyped ==
    ASSUME McpTypeOK, NEW c \in McpCalls, NEW run \in Running \cup {McpIdle},
           mcpCall' = [mcpCall EXCEPT ![c] = run]
    PROVE  mcpCall' \in [McpCalls -> Running \cup {McpIdle}]
BY DEF McpTypeOK

LEMMA InitTyped == McpInit => McpTypeOK
<1> SUFFICES ASSUME McpInit PROVE McpTypeOK
  OBVIOUS
<1>1. [state |-> "absent", scopes |-> {}] \in
        [state : {"absent", "live", "ended"}, scopes : SUBSET Scopes]
  OBVIOUS
<1> QED
  BY <1>1 DEF McpInit, McpTypeOK

\* A call answers.
LEMMA AnswerTyped ==
    ASSUME McpTypeOK, NEW c \in McpCalls, mcpCall[c].pc # "idle",
           NEW outcome \in {"error", "success", "approval_consumed"},
           mcpCall' = Answer(c, outcome)
    PROVE  mcpCall' \in [McpCalls -> Running \cup {McpIdle}]
<1>1. [mcpCall[c] EXCEPT !.pc = "audit", !.outcome = outcome] \in Running
  BY RunningCalls, CallChanged
<1>2. mcpCall' = [mcpCall EXCEPT ![c] = [mcpCall[c] EXCEPT !.pc = "audit", !.outcome = outcome]]
  BY DEF Answer, McpTypeOK
<1> QED
  BY <1>1, <1>2, CallTyped

\* Tokens, clock, purge and crash.
LEMMA OutsideTyped ==
    ASSUME McpTypeOK,
           \/ \E t \in ApiTokens : IssueToken(t) \/ EndToken(t)
           \/ \E a \in ApprovalIds : AgeApproval(a)
           \/ PurgeApprovals \/ McpCrash
    PROVE  McpTypeOK'
<1> USE DEF McpTypeOK
<1>1. ASSUME NEW t \in ApiTokens, IssueToken(t) \/ EndToken(t)
      PROVE  McpTypeOK'
  <2>1. CASE IssueToken(t)
    <3>1. PICK scopes \in ScopeSets :
             apiToken' = [apiToken EXCEPT ![t] = [state |-> "live", scopes |-> scopes]]
      BY <2>1 DEF IssueToken
    <3>2. [state |-> "live", scopes |-> scopes] \in
             [state : {"absent", "live", "ended"}, scopes : SUBSET Scopes]
      OBVIOUS
    <3> QED
      BY <2>1, <3>1, <3>2 DEF IssueToken
  <2>2. CASE EndToken(t)
    BY <2>2 DEF EndToken
  <2> QED
    BY <1>1, <2>1, <2>2
<1>2. ASSUME NEW a \in ApprovalIds, AgeApproval(a)
      PROVE  McpTypeOK'
  <2>1. PICK state \in {"expired", "old"} :
           approval' = [approval EXCEPT ![a] = [approval[a] EXCEPT !.state = state]]
    BY <1>2 DEF AgeApproval
  <2>2. [approval[a] EXCEPT !.state = state] \in Approvals
    BY <1>2, LiveApprovals, ApprovalChanged DEF AgeApproval
  <2> QED
    BY <1>2, <2>1, <2>2 DEF AgeApproval
<1>3. CASE PurgeApprovals
  <2>1. \A a \in Purgeable : [approval[a] EXCEPT !.state = "purged"] \in Approvals
    BY LiveApprovals, ApprovalChanged DEF Purgeable
  <2> QED
    BY <1>3, <2>1 DEF PurgeApprovals
<1>4. CASE McpCrash
  BY <1>4 DEF McpCrash
<1> QED
  BY <1>1, <1>2, <1>3, <1>4

\* The gate of a call: it is posted, an approval is issued, read, used.
LEMMA GateTyped ==
    ASSUME McpTypeOK, NEW c \in McpCalls,
           PostCall(c) \/ IssueApproval(c) \/ CheckApproval(c) \/ ConsumeApproval(c)
    PROVE  McpTypeOK'
<1> USE DEF McpTypeOK
<1>1. CASE PostCall(c)
  <2>1. PICK t \in ApiTokens, i \in McpIds, shown \in ApprovalIds \cup {NoApproval},
             tool \in McpTools, pc \in {"handler", "issue", "check"} :
           mcpCall' = [mcpCall EXCEPT ![c] =
              [pc |-> pc, token |-> t, tool |-> tool, id |-> i, outcome |-> "none",
               shown |-> IF Destructive(tool) THEN shown ELSE NoApproval]]
    <3>1. PICK t \in ApiTokens, i \in McpIds, shown \in ApprovalIds \cup {NoApproval} :
             \E tool \in Registered(t) :
                mcpCall' = [mcpCall EXCEPT ![c] =
                  [pc |-> IF ~Destructive(tool) THEN "handler"
                          ELSE IF shown = NoApproval THEN "issue" ELSE "check",
                   token |-> t, tool |-> tool, id |-> i, outcome |-> "none",
                   shown |-> IF Destructive(tool) THEN shown ELSE NoApproval]]
      BY <1>1 DEF PostCall
    <3>2. PICK tool \in McpTools :
                mcpCall' = [mcpCall EXCEPT ![c] =
                  [pc |-> IF ~Destructive(tool) THEN "handler"
                          ELSE IF shown = NoApproval THEN "issue" ELSE "check",
                   token |-> t, tool |-> tool, id |-> i, outcome |-> "none",
                   shown |-> IF Destructive(tool) THEN shown ELSE NoApproval]]
      BY <3>1 DEF Registered
    <3>3. (IF ~Destructive(tool) THEN "handler"
           ELSE IF shown = NoApproval THEN "issue" ELSE "check") \in {"handler", "issue", "check"}
      OBVIOUS
    <3> QED
      BY <3>2, <3>3
  <2>2. [pc |-> pc, token |-> t, tool |-> tool, id |-> i, outcome |-> "none",
         shown |-> IF Destructive(tool) THEN shown ELSE NoApproval] \in Running
    BY DEF Running
  <2> QED
    BY <1>1, <2>1, <2>2 DEF PostCall
<1>2. CASE IssueApproval(c)
  <2>1. mcpCall[c] \in Running
    BY <1>2, RunningCalls, Zenon DEF IssueApproval
  <2>2. PICK a \in ApprovalIds :
           /\ approval' = [approval EXCEPT ![a] =
                [state |-> "fresh", token |-> mcpCall[c].token,
                 tool |-> mcpCall[c].tool, id |-> mcpCall[c].id, consumed |-> FALSE]]
           /\ mcpCall' = [mcpCall EXCEPT ![c] =
                [mcpCall[c] EXCEPT !.pc = "audit", !.outcome = "approval_required", !.shown = a]]
    BY <1>2 DEF IssueApproval
  <2>3. [state |-> "fresh", token |-> mcpCall[c].token, tool |-> mcpCall[c].tool,
         id |-> mcpCall[c].id, consumed |-> FALSE] \in Approvals
    BY <2>1 DEF Running, Approvals
  <2>4. [mcpCall[c] EXCEPT !.pc = "audit", !.outcome = "approval_required", !.shown = a] \in Running
    BY <2>1, CallChanged
  <2> QED
    BY <1>2, <2>2, <2>3, <2>4 DEF IssueApproval
<1>3. CASE CheckApproval(c)
  <2>1. mcpCall[c] \in Running /\ mcpCall[c].pc # "idle"
    BY <1>3, RunningCalls DEF CheckApproval
  <2>2. CASE mcpCall' = Answer(c, "error")
    BY <1>3, <2>1, <2>2, AnswerTyped DEF CheckApproval
  <2>3. CASE mcpCall' = [mcpCall EXCEPT ![c].pc = "consume"]
    <3>1. [mcpCall[c] EXCEPT !.pc = "consume"] \in Running
      BY <2>1, CallChanged, Zenon DEF Running
    <3> QED
      BY <1>3, <2>3, <3>1 DEF CheckApproval
  <2> QED
    BY <1>3, <2>2, <2>3 DEF CheckApproval
<1>4. CASE ConsumeApproval(c)
  <2>1. mcpCall[c] \in Running /\ mcpCall[c].pc # "idle"
    BY <1>4, RunningCalls DEF ConsumeApproval
  <2>2. CASE mcpCall' = Answer(c, "error") /\ UNCHANGED approval
    BY <1>4, <2>1, <2>2, AnswerTyped DEF ConsumeApproval
  <2>3. CASE /\ mcpCall' = [mcpCall EXCEPT ![c].pc = "handler"]
             /\ approval' = [approval EXCEPT ![mcpCall[c].shown].consumed = TRUE]
    <3>1. [mcpCall[c] EXCEPT !.pc = "handler"] \in Running
      BY <2>1, CallChanged, Zenon DEF Running
    <3>2. approval' \in [ApprovalIds -> Approvals \cup [state : {"unused"}]]
      <4>1. \A row \in Approvals : [row EXCEPT !.consumed = TRUE] \in Approvals
        BY ApprovalChanged
      <4>2. \A row \in [state : {"unused"}] : [row EXCEPT !.consumed = TRUE] = row
        OBVIOUS
      <4> QED
        BY <2>3, <4>1, <4>2
    <3> QED
      BY <1>4, <2>3, <3>1, <3>2 DEF ConsumeApproval
  <2> QED
    BY <1>4, <2>2, <2>3 DEF ConsumeApproval
<1> QED
  BY <1>1, <1>2, <1>3, <1>4

\* The tool runs, and what it did is logged.
LEMMA ServiceTyped ==
    ASSUME McpTypeOK, NEW c \in McpCalls,
           RunTool(c) \/ ServeMissing(c) \/ ToolThrows(c) \/ RecordAudit(c)
    PROVE  McpTypeOK'
<1>0. mcpCall[c].pc # "idle"
  BY DEF RunTool, ServeGet, ServeUpdate, ServeCreate, ServeDelete, Serves, ServeMissing,
         ToolThrows, RecordAudit
<1>1. CASE RunTool(c)
  <2>1. mcpRows' \in [McpKinds -> [McpIds -> {"unborn", "live", "gone"}]]
    <3>1. UNCHANGED mcpRows \/ RowBecomes(c, "live") \/ RowBecomes(c, "gone")
      BY <1>1 DEF RunTool, ServeGet, ServeUpdate, ServeCreate, ServeDelete
    <3> QED
      BY <1>0, <3>1, RowsTyped DEF McpTypeOK
  <2>2. mcpCall' \in [McpCalls -> Running \cup {McpIdle}]
    BY <1>0, <1>1, AnswerTyped DEF RunTool, Served
  <2> QED
    BY <1>1, <2>1, <2>2 DEF RunTool, McpTypeOK
<1>2. CASE ServeMissing(c)
  <2>1. mcpCall' \in [McpCalls -> Running \cup {McpIdle}]
    BY <1>0, <1>2, AnswerTyped DEF ServeMissing
  <2> QED
    BY <1>2, <2>1 DEF ServeMissing, McpTypeOK
<1>3. CASE ToolThrows(c)
  <2>1. mcpCall' \in [McpCalls -> Running \cup {McpIdle}]
    BY <1>0, <1>3, AnswerTyped DEF ToolThrows
  <2>2. mcpRows' \in [McpKinds -> [McpIds -> {"unborn", "live", "gone"}]]
    BY <1>0, <1>3, RowsTyped DEF ToolThrows, ServeCreate, McpTypeOK
  <2>3. mcpFaults' \in 0..MaxMcpFaults
    BY <1>3 DEF ToolThrows, McpTypeOK
  <2> QED
    BY <1>3, <2>1, <2>2, <2>3 DEF ToolThrows, McpTypeOK
<1>4. CASE RecordAudit(c)
  <2>1. AuditRow(c) \in [of : McpKinds, id : McpIds]
    <3>1. mcpCall[c].tool.of \in McpKinds /\ mcpCall[c].id \in McpIds
      BY <1>0, RunningCalls, ToolsKnown DEF Running
    <3> QED
      BY <3>1 DEF AuditRow
  <2>2. audit' \subseteq [of : McpKinds, id : McpIds]
    BY <1>4, <2>1 DEF RecordAudit, McpTypeOK
  <2>3. mcpFaults' \in 0..MaxMcpFaults
    BY <1>4 DEF RecordAudit, McpTypeOK
  <2> QED
    BY <1>4, <2>2, <2>3 DEF RecordAudit, McpTypeOK
<1> QED
  BY <1>1, <1>2, <1>3, <1>4

LEMMA StepTyped == McpTypeOK /\ [McpNext]_mcpVars => McpTypeOK'
<1> SUFFICES ASSUME McpTypeOK, [McpNext]_mcpVars
             PROVE  McpTypeOK'
  OBVIOUS
<1>1. CASE McpNext
  BY <1>1, OutsideTyped, GateTyped, ServiceTyped DEF McpNext
<1>2. CASE UNCHANGED mcpVars
  BY <1>2 DEF mcpVars, McpTypeOK
<1> QED
  BY <1>1, <1>2

\* Tokens, approvals, records, calls and audit keep their types (mcp/).
THEOREM McpTyping == McpSpec => []McpTypeOK
BY InitTyped, StepTyped, PTL DEF McpSpec
-----------------------------------------------------------------------------
(* What is deleted was approved.                                           *)

\* A call behind the gate: the approval it shows exists, was issued for this
\* token, tool and argument and, once the tool runs, is used.
Shows(c) == /\ mcpCall[c].shown \in ApprovalIds
            /\ approval[mcpCall[c].shown].state # "unused"

Gated(c) ==
    /\ mcpCall[c].pc \in {"check", "consume"} => Shows(c)
    /\ mcpCall[c].pc = "consume" => Matches(mcpCall[c].shown, c)
    /\ mcpCall[c].pc = "handler" /\ Destructive(mcpCall[c].tool) =>
          /\ Shows(c)
          /\ Matches(mcpCall[c].shown, c)
          /\ approval[mcpCall[c].shown].consumed = TRUE

GateHeld == \A c \in McpCalls : Gated(c)

\* What an approval was issued for never changes, and it is never unused again.
ApprovalsKeep ==
    \A a \in ApprovalIds : approval[a].state # "unused" =>
      /\ approval'[a].state # "unused"
      /\ approval'[a].token = approval[a].token
      /\ approval'[a].tool = approval[a].tool
      /\ approval'[a].id = approval[a].id
      /\ approval[a].consumed = TRUE => approval'[a].consumed = TRUE

LEMMA ApprovalsKept ==
    ASSUME McpTypeOK, [McpNext]_mcpVars
    PROVE  ApprovalsKeep
<1>t. \A a \in ApprovalIds : approval[a].state # "unused" => approval[a] \in Approvals
  BY LiveApprovals
<1>f. approval \in [ApprovalIds -> Approvals \cup [state : {"unused"}]]
  BY DEF McpTypeOK
<1>1. CASE UNCHANGED approval
  BY <1>1 DEF ApprovalsKeep
<1>2. ASSUME NEW c \in McpCalls, IssueApproval(c)
      PROVE  ApprovalsKeep
  <2>1. PICK a \in ApprovalIds :
           /\ approval[a].state = "unused"
           /\ approval' = [approval EXCEPT ![a] =
                [state |-> "fresh", token |-> mcpCall[c].token,
                 tool |-> mcpCall[c].tool, id |-> mcpCall[c].id, consumed |-> FALSE]]
    BY <1>2 DEF IssueApproval
  <2> QED
    BY <1>f, <2>1 DEF ApprovalsKeep
<1>3. ASSUME NEW c \in McpCalls, ConsumeApproval(c)
      PROVE  ApprovalsKeep
  <2>1. CASE UNCHANGED approval
    BY <2>1 DEF ApprovalsKeep
  <2>2. CASE approval' = [approval EXCEPT ![mcpCall[c].shown].consumed = TRUE]
    BY <1>f, <1>t, <2>2 DEF ApprovalsKeep, Approvals
  <2> QED
    BY <1>3, <2>1, <2>2 DEF ConsumeApproval
<1>4. ASSUME NEW a \in ApprovalIds, AgeApproval(a)
      PROVE  ApprovalsKeep
  <2>1. PICK state \in {"expired", "old"} :
           approval' = [approval EXCEPT ![a] = [approval[a] EXCEPT !.state = state]]
    BY <1>4 DEF AgeApproval
  <2> QED
    BY <1>f, <1>t, <2>1 DEF ApprovalsKeep, Approvals
<1>5. CASE PurgeApprovals
  BY <1>f, <1>t, <1>5 DEF PurgeApprovals, Purgeable, ApprovalsKeep, Approvals
<1> QED
  BY <1>1, <1>2, <1>3, <1>4, <1>5 DEF McpNext, mcpVars, IssueToken, EndToken, PostCall,
     CheckApproval, RunTool, ServeMissing, ToolThrows, RecordAudit, McpCrash

\* A call that stays as it is stays behind its gate.
LEMMA GateKept ==
    ASSUME GateHeld, ApprovalsKeep, NEW d \in McpCalls,
           mcpCall'[d] = mcpCall[d] \/ mcpCall'[d].pc \in {"idle", "audit", "issue"}
    PROVE  Gated(d)'
<1>1. CASE mcpCall'[d].pc \in {"idle", "audit", "issue"}
  BY <1>1 DEF Gated
<1>2. CASE mcpCall'[d] = mcpCall[d]
  <2>1. Shows(d) => Shows(d)'
    BY <1>2 DEF Shows, ApprovalsKeep
  <2>2. Shows(d) /\ Matches(mcpCall[d].shown, d) => Matches(mcpCall[d].shown, d)'
    BY <1>2 DEF Shows, Matches, ApprovalsKeep
  <2>3. Shows(d) /\ approval[mcpCall[d].shown].consumed = TRUE =>
          approval'[mcpCall[d].shown].consumed = TRUE
    BY DEF Shows, ApprovalsKeep
  <2>4. Gated(d)
    BY DEF GateHeld
  <2> QED
    BY <1>2, <2>1, <2>2, <2>3, <2>4 DEF Gated
<1> QED
  BY <1>1, <1>2

LEMMA InitGate == McpInit => GateHeld
BY DEF McpInit, GateHeld, Gated, McpIdle

LEMMA StepGate == McpTypeOK /\ GateHeld /\ [McpNext]_mcpVars => GateHeld'
<1> SUFFICES ASSUME McpTypeOK, GateHeld, [McpNext]_mcpVars
             PROVE  GateHeld'
  OBVIOUS
<1>k. ApprovalsKeep
  BY ApprovalsKept
<1>f. mcpCall \in [McpCalls -> Running \cup {McpIdle}]
  BY DEF McpTypeOK
<1>1. CASE \A d \in McpCalls :
              mcpCall'[d] = mcpCall[d] \/ mcpCall'[d].pc \in {"idle", "audit", "issue"}
  BY <1>k, <1>1, GateKept DEF GateHeld
<1>2. ASSUME NEW c \in McpCalls, PostCall(c)
      PROVE  GateHeld'
  <2>1. PICK t \in ApiTokens, i \in McpIds, shown \in ApprovalIds \cup {NoApproval} :
           /\ shown # NoApproval => approval[shown].state # "unused"
           /\ \E tool \in Registered(t) :
                mcpCall' = [mcpCall EXCEPT ![c] =
                  [pc |-> IF ~Destructive(tool) THEN "handler"
                          ELSE IF shown = NoApproval THEN "issue" ELSE "check",
                   token |-> t, tool |-> tool, id |-> i, outcome |-> "none",
                   shown |-> IF Destructive(tool) THEN shown ELSE NoApproval]]
    BY <1>2 DEF PostCall
  <2>2. PICK tool \in Registered(t) :
                mcpCall' = [mcpCall EXCEPT ![c] =
                  [pc |-> IF ~Destructive(tool) THEN "handler"
                          ELSE IF shown = NoApproval THEN "issue" ELSE "check",
                   token |-> t, tool |-> tool, id |-> i, outcome |-> "none",
                   shown |-> IF Destructive(tool) THEN shown ELSE NoApproval]]
    BY <2>1
  <2>3. approval' = approval
    BY <1>2 DEF PostCall
  <2>4. \A d \in McpCalls : d # c => mcpCall'[d] = mcpCall[d]
    BY <1>f, <2>2
  <2>5. CASE ~Destructive(tool)
    <3>1. mcpCall'[c].pc = "handler" /\ mcpCall'[c].tool = tool
      BY <1>f, <2>2, <2>5
    <3>2. Gated(c)'
      BY <2>5, <3>1 DEF Gated
    <3> QED
      BY <1>k, <2>4, <3>2, GateKept DEF GateHeld
  <2>6. CASE Destructive(tool) /\ shown = NoApproval
    <3>1. mcpCall'[c].pc = "issue"
      BY <1>f, <2>2, <2>6
    <3> QED
      BY <1>k, <2>4, <3>1, GateKept DEF GateHeld
  <2>7. CASE Destructive(tool) /\ shown # NoApproval
    <3>1. mcpCall'[c].pc = "check" /\ mcpCall'[c].shown = shown
      BY <1>f, <2>2, <2>7
    <3>2. shown \in ApprovalIds /\ approval'[shown].state # "unused"
      BY <2>1, <2>3, <2>7
    <3>3. Gated(c)'
      BY <3>1, <3>2 DEF Gated, Shows
    <3> QED
      BY <1>k, <2>4, <3>3, GateKept DEF GateHeld
  <2> QED
    BY <2>5, <2>6, <2>7
<1>3. ASSUME NEW c \in McpCalls, CheckApproval(c)
      PROVE  GateHeld'
  <2>1. mcpCall[c] \in Running /\ mcpCall[c].pc = "check"
    BY <1>3, RunningCalls DEF CheckApproval
  <2>2. CASE mcpCall' = Answer(c, "error")
    <3>1. \A d \in McpCalls : mcpCall'[d] = mcpCall[d] \/ mcpCall'[d].pc = "audit"
      BY <1>f, <2>1, <2>2 DEF Answer, Running
    <3> QED
      BY <1>1, <3>1
  <2>3. CASE Acceptable(mcpCall[c].shown, c) /\ mcpCall' = [mcpCall EXCEPT ![c].pc = "consume"]
    <3>1. /\ mcpCall'[c].pc = "consume" /\ mcpCall'[c].shown = mcpCall[c].shown
          /\ mcpCall'[c].token = mcpCall[c].token /\ mcpCall'[c].tool = mcpCall[c].tool
          /\ mcpCall'[c].id = mcpCall[c].id
      BY <1>f, <2>1, <2>3 DEF Running
    <3>2. \A d \in McpCalls : d # c => mcpCall'[d] = mcpCall[d]
      BY <1>f, <2>3
    <3>3. mcpCall[c].shown \in ApprovalIds /\ approval[mcpCall[c].shown].state # "unused"
      BY <2>1 DEF GateHeld, Gated, Shows
    <3>4. approval' = approval /\ Matches(mcpCall[c].shown, c)
      BY <1>3, <2>3 DEF CheckApproval, Acceptable
    <3>5. Matches(mcpCall[c].shown, c)'
      BY <3>1, <3>4 DEF Matches
    <3>6. Gated(c)'
      BY <3>1, <3>3, <3>4, <3>5 DEF Gated, Shows
    <3> QED
      BY <1>k, <3>2, <3>6, GateKept DEF GateHeld
  <2> QED
    BY <1>3, <2>2, <2>3 DEF CheckApproval
<1>4. ASSUME NEW c \in McpCalls, ConsumeApproval(c)
      PROVE  GateHeld'
  <2> DEFINE a == mcpCall[c].shown
  <2>1. mcpCall[c] \in Running /\ mcpCall[c].pc = "consume"
    BY <1>4, RunningCalls DEF ConsumeApproval
  <2>2. CASE mcpCall' = Answer(c, "error")
    <3>1. \A d \in McpCalls : mcpCall'[d] = mcpCall[d] \/ mcpCall'[d].pc = "audit"
      BY <1>f, <2>1, <2>2 DEF Answer, Running
    <3> QED
      BY <1>1, <3>1
  <2>3. CASE /\ mcpCall' = [mcpCall EXCEPT ![c].pc = "handler"]
             /\ approval' = [approval EXCEPT ![a].consumed = TRUE]
    <3>1. /\ mcpCall'[c].pc = "handler" /\ mcpCall'[c].shown = a
          /\ mcpCall'[c].token = mcpCall[c].token /\ mcpCall'[c].tool = mcpCall[c].tool
          /\ mcpCall'[c].id = mcpCall[c].id
      BY <1>f, <2>1, <2>3 DEF Running
    <3>2. \A d \in McpCalls : d # c => mcpCall'[d] = mcpCall[d]
      BY <1>f, <2>3
    <3>3. a \in ApprovalIds /\ approval[a].state # "unused" /\ Matches(a, c)
      BY <2>1 DEF GateHeld, Gated, Shows
    <3>4. approval'[a].state # "unused" /\ approval'[a].consumed = TRUE
      <4>1. approval[a] \in Approvals
        BY <3>3, LiveApprovals
      <4> QED
        BY <2>3, <3>3, <4>1 DEF McpTypeOK, Approvals
    <3>5. Matches(a, c)'
      BY <1>k, <3>1, <3>3 DEF Matches, ApprovalsKeep
    <3>6. Gated(c)'
      BY <3>1, <3>3, <3>4, <3>5 DEF Gated, Shows
    <3> QED
      BY <1>k, <3>2, <3>6, GateKept DEF GateHeld
  <2> QED
    BY <1>4, <2>2, <2>3 DEF ConsumeApproval
<1>5. ASSUME NEW c \in McpCalls,
             IssueApproval(c) \/ RunTool(c) \/ ServeMissing(c) \/ ToolThrows(c) \/ RecordAudit(c)
      PROVE  GateHeld'
  <2>1. mcpCall[c] \in Running
    BY <1>5, RunningCalls DEF IssueApproval, RunTool, ServeGet, ServeUpdate, ServeCreate,
       ServeDelete, Serves, ServeMissing, ToolThrows, RecordAudit
  <2>2. \A d \in McpCalls : d # c => mcpCall'[d] = mcpCall[d]
    BY <1>5, <1>f DEF IssueApproval, RunTool, ServeMissing, ToolThrows, RecordAudit, Answer
  <2>4. mcpCall'[c].pc \in {"idle", "audit"}
    <3>1. CASE IssueApproval(c)
      BY <1>f, <2>1, <3>1 DEF IssueApproval, Running
    <3>2. CASE RunTool(c) \/ ServeMissing(c) \/ ToolThrows(c)
      <4>1. PICK outcome : mcpCall' = Answer(c, outcome)
        BY <3>2, Zenon DEF RunTool, ServeMissing, ToolThrows
      <4> QED
        BY <1>f, <2>1, <4>1 DEF Answer, Running
    <3>3. CASE RecordAudit(c)
      BY <1>f, <3>3 DEF RecordAudit, McpIdle
    <3> QED
      BY <1>5, <3>1, <3>2, <3>3
  <2>3. \A d \in McpCalls : mcpCall'[d] = mcpCall[d] \/ mcpCall'[d].pc \in {"idle", "audit"}
    BY <2>2, <2>4
  <2> QED
    BY <1>1, <2>3
<1>6. CASE McpCrash
  <2>1. \A d \in McpCalls : mcpCall'[d].pc = "idle"
    BY <1>6 DEF McpCrash, McpIdle
  <2> QED
    BY <1>1, <2>1
<1>7. CASE UNCHANGED mcpCall
  BY <1>1, <1>7
<1> QED
  BY <1>2, <1>3, <1>4, <1>5, <1>6, <1>7 DEF McpNext, mcpVars, IssueToken, EndToken,
     AgeApproval, PurgeApprovals
-----------------------------------------------------------------------------
(* Deletions are accounted for.                                            *)

\* The deletion of a record is the service step of a call that deletes it.
LEMMA DeletedByCall ==
    ASSUME McpTypeOK, [McpNext]_mcpVars, NEW k \in McpKinds, NEW i \in McpIds,
           mcpRows[k][i] = "live", mcpRows'[k][i] = "gone"
    PROVE  \E c \in McpCalls :
              /\ RunTool(c) /\ mcpCall[c].pc = "handler"
              /\ mcpCall[c].tool = [verb |-> "delete", of |-> k] /\ mcpCall[c].id = i
<1>1. PICK c \in McpCalls : RunTool(c) \/ ToolThrows(c)
  BY Zenon DEF McpNext, mcpVars, IssueToken, EndToken, PostCall, IssueApproval, CheckApproval,
     ConsumeApproval, ServeMissing, RecordAudit, AgeApproval, PurgeApprovals, McpCrash
<1>2. mcpCall[c].pc = "handler"
  BY <1>1 DEF RunTool, ToolThrows, ServeGet, ServeUpdate, ServeCreate, ServeDelete, Serves
<1>3. mcpCall[c].tool \in McpTools
  BY <1>2, RunningCalls DEF Running
<1>4. CASE ServeCreate(c)
  BY <1>2, <1>4, RowsTyped DEF ServeCreate
<1>5. CASE RunTool(c) /\ ServeDelete(c)
  <2>1. k = mcpCall[c].tool.of /\ i = mcpCall[c].id
    BY <1>2, <1>5, RowsTyped DEF ServeDelete
  <2>2. mcpCall[c].tool = [verb |-> "delete", of |-> k]
    BY <1>3, <1>5, <2>1, ToolsKnown DEF ServeDelete, Serves, Destructive
  <2> QED
    BY <1>2, <1>5, <2>1, <2>2
<1>6. CASE UNCHANGED mcpRows
  BY <1>6
<1> QED
  BY <1>1, <1>4, <1>5, <1>6 DEF RunTool, ToolThrows, ServeGet, ServeUpdate

\* A record that is gone is in the log, or its call has yet to write the row.
Accounted ==
    mcpFaults = 0 =>
      \A k \in McpKinds, i \in McpIds : mcpRows[k][i] = "gone" =>
        \/ [of |-> k, id |-> i] \in audit
        \/ \E c \in McpCalls : /\ mcpCall[c].pc = "audit"
                               /\ mcpCall[c].outcome = "approval_consumed"
                               /\ mcpCall[c].tool.of = k /\ mcpCall[c].id = i

LEMMA InitAccounted == McpInit => Accounted
BY DEF McpInit, Accounted

\* A step that neither deletes, nor forgets the answers that are to be logged.
LEMMA AccountKept ==
    ASSUME Accounted, audit \subseteq audit', mcpFaults' = 0 => mcpFaults = 0,
           \A k \in McpKinds, i \in McpIds : mcpRows'[k][i] = "gone" => mcpRows[k][i] = "gone",
           \A d \in McpCalls : mcpCall[d].pc = "audit" => mcpCall'[d] = mcpCall[d]
    PROVE  Accounted'
BY DEF Accounted

LEMMA StepAccounted == McpTypeOK /\ Accounted /\ [McpNext]_mcpVars => Accounted'
<1> SUFFICES ASSUME McpTypeOK, Accounted, [McpNext]_mcpVars
             PROVE  Accounted'
  OBVIOUS
<1>f. mcpCall \in [McpCalls -> Running \cup {McpIdle}] /\ mcpFaults \in Nat
  BY DEF McpTypeOK
<1>1. ASSUME NEW c \in McpCalls,
             PostCall(c) \/ IssueApproval(c) \/ CheckApproval(c) \/ ConsumeApproval(c)
      PROVE  Accounted'
  <2>1. mcpCall[c].pc # "audit" /\ \A d \in McpCalls : d # c => mcpCall'[d] = mcpCall[d]
    BY <1>1, <1>f DEF PostCall, IssueApproval, CheckApproval, ConsumeApproval, Answer
  <2>2. UNCHANGED <<mcpRows, audit, mcpFaults>>
    BY <1>1 DEF PostCall, IssueApproval, CheckApproval, ConsumeApproval
  <2> QED
    BY <2>1, <2>2, AccountKept
<1>2. ASSUME NEW c \in McpCalls, RunTool(c)
      PROVE  Accounted'
  <2>1. mcpCall[c].pc = "handler" /\ mcpCall[c] \in Running
    BY <1>2, RunningCalls DEF RunTool, ServeGet, ServeUpdate, ServeCreate, ServeDelete, Serves
  <2>2. \A d \in McpCalls : d # c => mcpCall'[d] = mcpCall[d]
    BY <1>2, <1>f DEF RunTool, Answer
  <2>3. UNCHANGED <<audit, mcpFaults>>
    BY <1>2 DEF RunTool
  <2>4. CASE UNCHANGED mcpRows
    BY <2>1, <2>2, <2>3, <2>4, AccountKept
  <2>5. CASE ServeCreate(c)
    BY <2>1, <2>2, <2>3, <2>5, AccountKept, RowsTyped DEF ServeCreate
  <2>6. CASE ServeDelete(c)
    <3>1. /\ mcpCall'[c].pc = "audit" /\ mcpCall'[c].outcome = "approval_consumed"
          /\ mcpCall'[c].tool = mcpCall[c].tool /\ mcpCall'[c].id = mcpCall[c].id
      BY <1>2, <1>f, <2>1, <2>6 DEF RunTool, Answer, Served, ServeDelete, Serves, Destructive,
         Running
    <3>2. \A k \in McpKinds, i \in McpIds :
             mcpRows'[k][i] = "gone" =>
               mcpRows[k][i] = "gone" \/ (k = mcpCall[c].tool.of /\ i = mcpCall[c].id)
      BY <2>1, <2>6, RowsTyped DEF ServeDelete
    <3> QED
      BY <2>1, <2>2, <2>3, <3>1, <3>2 DEF Accounted
  <2> QED
    BY <1>2, <2>4, <2>5, <2>6 DEF RunTool, ServeGet, ServeUpdate
<1>3. ASSUME NEW c \in McpCalls, ServeMissing(c)
      PROVE  Accounted'
  <2>1. mcpCall[c].pc = "handler" /\ \A d \in McpCalls : d # c => mcpCall'[d] = mcpCall[d]
    BY <1>3, <1>f DEF ServeMissing, Serves, Answer
  <2> QED
    BY <1>3, <2>1, AccountKept DEF ServeMissing
<1>4. ASSUME NEW c \in McpCalls, ToolThrows(c)
      PROVE  Accounted'
  <2>1. mcpFaults' = mcpFaults + 1
    BY <1>4 DEF ToolThrows
  <2> QED
    BY <1>f, <2>1 DEF Accounted
<1>5. ASSUME NEW c \in McpCalls, RecordAudit(c)
      PROVE  Accounted'
  <2>1. CASE mcpFaults' = mcpFaults + 1
    BY <1>f, <2>1 DEF Accounted
  <2>2. CASE /\ audit' = audit \cup {r \in {AuditRow(c)} :
                                        mcpCall[c].outcome = "approval_consumed"}
             /\ UNCHANGED mcpFaults
    <3>1. \A d \in McpCalls : d # c => mcpCall'[d] = mcpCall[d]
      BY <1>5, <1>f DEF RecordAudit
    <3>2. mcpCall[c].outcome = "approval_consumed" =>
             [of |-> mcpCall[c].tool.of, id |-> mcpCall[c].id] \in audit'
      BY <2>2 DEF AuditRow
    <3> QED
      BY <1>5, <2>2, <3>1, <3>2 DEF RecordAudit, Accounted
  <2> QED
    BY <1>5, <2>1, <2>2 DEF RecordAudit
<1>6. CASE McpCrash
  BY <1>6, <1>f DEF McpCrash, Accounted
<1>7. CASE UNCHANGED <<mcpRows, mcpCall, audit, mcpFaults>>
  BY <1>7 DEF Accounted
<1> QED
  BY <1>1, <1>2, <1>3, <1>4, <1>5, <1>6, <1>7 DEF McpNext, mcpVars, IssueToken, EndToken,
     AgeApproval, PurgeApprovals

\* However many calls overlap, what a tool deletes was approved for that token,
\* tool and record, and while nothing fails the log says so (mcp/server.ts).
THEOREM DeletionsAreApproved == McpSpec => DeletionsAccounted
<1>1. McpTypeOK /\ Accounted => (McpQuiet => GoneIsAudited)
  BY DEF Accounted, McpQuiet, GoneIsAudited
<1>2. McpTypeOK /\ GateHeld /\ [McpNext]_mcpVars =>
        [\A k \in McpKinds, i \in McpIds :
           mcpRows[k][i] = "live" /\ mcpRows'[k][i] = "gone" =>
             \E c \in McpCalls :
               /\ mcpCall[c].pc = "handler"
               /\ mcpCall[c].tool = [verb |-> "delete", of |-> k] /\ mcpCall[c].id = i
               /\ Matches(mcpCall[c].shown, c)
               /\ approval[mcpCall[c].shown].consumed]_mcpVars
  <2> SUFFICES ASSUME McpTypeOK, GateHeld, [McpNext]_mcpVars,
                      NEW k \in McpKinds, NEW i \in McpIds,
                      mcpRows[k][i] = "live", mcpRows'[k][i] = "gone"
               PROVE  \E c \in McpCalls :
                        /\ mcpCall[c].pc = "handler"
                        /\ mcpCall[c].tool = [verb |-> "delete", of |-> k]
                        /\ mcpCall[c].id = i
                        /\ Matches(mcpCall[c].shown, c)
                        /\ approval[mcpCall[c].shown].consumed
    OBVIOUS
  <2>1. PICK c \in McpCalls : /\ mcpCall[c].pc = "handler"
                             /\ mcpCall[c].tool = [verb |-> "delete", of |-> k]
                             /\ mcpCall[c].id = i
    BY DeletedByCall
  <2>2. /\ Matches(mcpCall[c].shown, c)
        /\ approval[mcpCall[c].shown].consumed = TRUE
    BY <2>1 DEF GateHeld, Gated, Destructive
  <2> QED
    BY <2>1, <2>2, Zenon
<1>3. McpSpec => []GateHeld
  BY McpTyping, InitGate, StepGate, PTL DEF McpSpec
<1>4. McpSpec => []Accounted
  BY McpTyping, InitAccounted, StepAccounted, PTL DEF McpSpec
<1> QED
  BY <1>1, <1>2, <1>3, <1>4, McpTyping, PTL DEF McpSpec, DeletionsAccounted, DeletedWasApproved

HIDE McpAssumption

-----------------------------------------------------------------------------
(***************************************************************************)
(* Proofs about the scheduled backup, for any number of workers, names,    *)
(* attempts and failures: the types, that backups run one at a time, and   *)
(* that a backup the settings card calls a success can be restored.        *)
(***************************************************************************)
USE BackupAssumption

-----------------------------------------------------------------------------
(* The queue, the lock and the runs.                                       *)

Live(w) == backupRun[w].pc # "rest"

\* A live run holds the lock (only a dead holder's key expires), writes a named
\* dump and has its job; a job that is not done has attempts left.
QueueHeld ==
    /\ runLock \in BackupSlots \cup {"free"}
    /\ backupJob \in [BackupTriggers -> BackupJobs]
    /\ backupRun \in [BackupSlots -> BackupRuns]
    /\ \A w \in BackupSlots : Live(w) => runLock = w
    /\ \A w \in BackupSlots : Live(w) => backupRun[w].dump \in Dumps
    /\ \A w \in BackupSlots : Live(w) => backupJob[backupRun[w].trigger].state = "active"
    /\ \A t \in BackupTriggers : backupJob[t].state # "none" => backupJob[t].left # 0

LEMMA RestingRun == Resting \in BackupRuns /\ Resting.pc = "rest" /\ NoJob \in BackupJobs
BY DEF Resting, BackupRuns, BackupTriggers, NoJob, BackupJobs

\* A live run is alone.
LEMMA Alone ==
    ASSUME QueueHeld, NEW w \in BackupSlots, Live(w)
    PROVE  /\ runLock = w
           /\ \A v \in BackupSlots : v # w => backupRun[v].pc = "rest"
BY DEF QueueHeld, Live

\* A run that only moves on keeps its lock and its job.
LEMMA RunMoves ==
    ASSUME QueueHeld, NEW w \in BackupSlots, Live(w), NEW run \in BackupRuns,
           run.trigger = backupRun[w].trigger, run.dump = backupRun[w].dump,
           backupRun' = [backupRun EXCEPT ![w] = run], UNCHANGED <<runLock, backupJob>>
    PROVE  QueueHeld'
<1>1. \A v \in BackupSlots : backupRun'[v] = IF v = w THEN run ELSE backupRun[v]
  BY DEF QueueHeld
<1> QED
  BY <1>1 DEF QueueHeld, Live

\* A run ends, whatever becomes of its job.
LEMMA RunEnds ==
    ASSUME QueueHeld, NEW w \in BackupSlots, Live(w), NEW job \in BackupJobs,
           job.state # "none" => job.left # 0,
           backupRun' = [backupRun EXCEPT ![w] = Resting],
           Releases(w) \/ UNCHANGED runLock,
           backupJob' = [backupJob EXCEPT ![backupRun[w].trigger] = job]
    PROVE  QueueHeld'
<1>1. \A v \in BackupSlots : backupRun'[v].pc = "rest"
  BY Alone, RestingRun DEF QueueHeld
<1>2. backupRun' \in [BackupSlots -> BackupRuns]
  BY RestingRun DEF QueueHeld
<1>3. runLock' \in BackupSlots \cup {"free"}
  BY DEF QueueHeld, Releases
<1>4. backupRun[w].trigger \in BackupTriggers
  BY DEF QueueHeld, BackupRuns
<1>5. /\ backupJob' \in [BackupTriggers -> BackupJobs]
      /\ \A t \in BackupTriggers : backupJob'[t].state # "none" => backupJob'[t].left # 0
  BY <1>4 DEF QueueHeld
<1> QED
  BY <1>1, <1>2, <1>3, <1>5 DEF QueueHeld, Live

LEMMA DoneQueue ==
    ASSUME QueueHeld, NEW w \in BackupSlots, Live(w), Done(w)
    PROVE  QueueHeld'
<1>1. NoJob \in BackupJobs /\ NoJob.state = "none"
  BY DEF NoJob, BackupJobs
<1> QED
  BY <1>1, RunEnds DEF Done

LEMMA ThrowsQueue ==
    ASSUME QueueHeld, NEW w \in BackupSlots, Live(w), Throws(w)
    PROVE  QueueHeld'
<1> DEFINE t == backupRun[w].trigger
           left == backupJob[t].left - 1
           job == IF left = 0 THEN NoJob ELSE [state |-> "waiting", left |-> left]
<1>1. t \in BackupTriggers
  BY DEF QueueHeld, BackupRuns
<1>2. backupJob[t] \in BackupJobs /\ backupJob[t].state = "active"
  BY <1>1 DEF QueueHeld
<1>3. backupJob[t].left \in 0..BackupAttempts /\ backupJob[t].left # 0
  BY <1>1, <1>2 DEF QueueHeld, BackupJobs
<1>4. left \in 0..BackupAttempts
  BY <1>3
<1>5. job \in BackupJobs /\ (job.state # "none" => job.left # 0)
  <2> HIDE DEF left
  <2>1. CASE left = 0
    BY <2>1 DEF NoJob, BackupJobs
  <2>2. CASE left # 0
    BY <1>4, <2>2 DEF BackupJobs
  <2> QED
    BY <2>1, <2>2
<1>6. /\ backupRun' = [backupRun EXCEPT ![w] = Resting]
      /\ Releases(w)
      /\ backupJob' = [backupJob EXCEPT ![t] = job]
  BY DEF Throws
<1> HIDE DEF job
<1> QED
  BY <1>5, <1>6, RunEnds

LEMMA CrashQueue ==
    ASSUME QueueHeld, NEW w \in BackupSlots, BackupCrash(w)
    PROVE  QueueHeld'
<1> DEFINE t == backupRun[w].trigger
           job == [backupJob[t] EXCEPT !.state = "waiting"]
<1>0. Live(w)
  BY DEF BackupCrash, Live
<1>1. t \in BackupTriggers
  BY DEF QueueHeld, BackupRuns
<1>2. backupJob[t] \in BackupJobs /\ backupJob[t].left # 0
  BY <1>0, <1>1 DEF QueueHeld
<1>3. job \in BackupJobs /\ job.left # 0
  BY <1>2 DEF BackupJobs
<1>4. backupJob' = [backupJob EXCEPT ![t] = job]
  BY DEF BackupCrash
<1>5. backupRun' = [backupRun EXCEPT ![w] = Resting] /\ UNCHANGED runLock
  BY DEF BackupCrash
<1> HIDE DEF job
<1> QED
  BY <1>0, <1>3, <1>4, <1>5, RunEnds

\* A job is added, or taken by a run, or completes at once because the lock is
\* somebody's.
LEMMA AddQueue ==
    ASSUME QueueHeld, CronFires \/ RunNow
    PROVE  QueueHeld'
<1>1. PICK t \in BackupTriggers : AddBackup(t)
  BY DEF CronFires, RunNow, BackupTriggers
<1>2. [state |-> "waiting", left |-> BackupAttempts] \in BackupJobs
  BY DEF BackupJobs
<1>3. \A w \in BackupSlots : backupRun[w].trigger \in BackupTriggers
  BY DEF QueueHeld, BackupRuns
<1>4. backupJob' \in [BackupTriggers -> BackupJobs]
  BY <1>1, <1>2 DEF AddBackup, QueueHeld
<1> QED
  BY <1>1, <1>3, <1>4 DEF AddBackup, QueueHeld, Live

LEMMA StartQueue ==
    ASSUME QueueHeld, NEW w \in BackupSlots, NEW t \in BackupTriggers, StartBackup(w, t)
    PROVE  QueueHeld'
<1>f. /\ backupJob \in [BackupTriggers -> BackupJobs]
      /\ backupRun \in [BackupSlots -> BackupRuns]
  BY DEF QueueHeld
<1>a. \A v \in BackupSlots : backupRun[v].trigger \in BackupTriggers
  BY <1>f DEF BackupRuns
<1>1. CASE ~Takes(w) /\ backupJob' = [backupJob EXCEPT ![t] = NoJob]
           /\ UNCHANGED <<runLock, backupRun>>
  <2>0. backupJob[t].state = "waiting"
    BY DEF StartBackup
  <2>1. NoJob \in BackupJobs /\ NoJob.state = "none" /\ backupJob[t].state = "waiting"
    BY <2>0, RestingRun DEF NoJob
  <2>2. backupJob' \in [BackupTriggers -> BackupJobs]
    BY <1>1, <1>f, <2>1
  <2> QED
    BY <1>1, <1>f, <1>a, <2>1, <2>2 DEF QueueHeld, Live
<1>2. CASE /\ Takes(w) /\ runLock' = w
           /\ \E d \in Unused : backupRun' = [backupRun EXCEPT
                 ![w] = [Resting EXCEPT !.pc = "dump", !.trigger = t, !.dump = d]]
           /\ backupJob' = [backupJob EXCEPT ![t].state = "active"]
  <2>1. PICK d \in Dumps : backupRun' = [backupRun EXCEPT
                 ![w] = [Resting EXCEPT !.pc = "dump", !.trigger = t, !.dump = d]]
    BY <1>2 DEF Unused
  <2> DEFINE run == [Resting EXCEPT !.pc = "dump", !.trigger = t, !.dump = d]
             job == [backupJob[t] EXCEPT !.state = "active"]
  <2>2. run \in BackupRuns /\ run.trigger = t /\ run.dump \in Dumps
    BY DEF Resting, BackupRuns
  <2>3. job \in BackupJobs /\ job.state = "active" /\ job.left = backupJob[t].left
    BY <1>f DEF BackupJobs
  <2>4. backupRun' = [backupRun EXCEPT ![w] = run] /\ backupJob' = [backupJob EXCEPT ![t] = job]
    BY <1>2, <2>1
  <2> HIDE DEF run, job
  <2>5. \A v \in BackupSlots : ~Live(v)
    BY <1>2 DEF QueueHeld, Takes
  <2>6. backupJob[t].left # 0
    BY DEF StartBackup, QueueHeld
  <2>7. \A v \in BackupSlots : v # w => backupRun'[v] = backupRun[v]
    BY <1>f, <2>4
  <2>8. backupRun'[w] = run /\ backupJob'[t] = job
    BY <1>f, <2>4
  <2>9. /\ backupJob' \in [BackupTriggers -> BackupJobs]
        /\ backupRun' \in [BackupSlots -> BackupRuns]
        /\ \A u \in BackupTriggers : u # t => backupJob'[u] = backupJob[u]
    BY <1>f, <2>2, <2>3, <2>4
  <2>10. \A v \in BackupSlots : Live(v)' => v = w
    BY <2>5, <2>7 DEF Live
  <2> QED
    BY <1>2, <2>2, <2>3, <2>6, <2>8, <2>9, <2>10 DEF QueueHeld
<1> QED
  BY <1>1, <1>2, Zenon DEF StartBackup

\* The steps of a run.
LEMMA StepQueue ==
    ASSUME QueueHeld, NEW w \in BackupSlots, BackupStep(w)
    PROVE  QueueHeld'
<1>0. Live(w)
  BY DEF BackupStep, EndDump, VerifyDump, UploadDump, ListBucket, CatchUp, Prune, Stamp, Live
<1>1. backupRun[w] \in BackupRuns
  BY DEF QueueHeld
<1>2. ASSUME NEW pc \in {"verify", "upload", "list", "prune", "stamp"}, Step(w, pc),
             UNCHANGED <<runLock, backupJob>>
      PROVE  QueueHeld'
  <2>1. /\ [backupRun[w] EXCEPT !.pc = pc] \in BackupRuns
        /\ [backupRun[w] EXCEPT !.pc = pc].trigger = backupRun[w].trigger
        /\ [backupRun[w] EXCEPT !.pc = pc].dump = backupRun[w].dump
    BY <1>1 DEF BackupRuns
  <2>2. backupRun' = [backupRun EXCEPT ![w] = [backupRun[w] EXCEPT !.pc = pc]]
    BY <1>2 DEF Step
  <2> QED
    BY <1>0, <1>2, <2>1, <2>2, RunMoves
<1>3. CASE ListBucket(w)
  <2> DEFINE run == [backupRun[w] EXCEPT !.pc = "sweep", !.listed = Present(bucket),
                                         !.aged = Aged(bucket)]
  <2>1. Present(bucket) \in SUBSET Dumps /\ Aged(bucket) \in SUBSET Dumps
    BY DEF Present, Aged
  <2>2. run \in BackupRuns /\ run.trigger = backupRun[w].trigger /\ run.dump = backupRun[w].dump
    BY <1>1, <2>1 DEF BackupRuns
  <2>3. backupRun' = [backupRun EXCEPT ![w] = run] /\ UNCHANGED <<runLock, backupJob>>
    BY <1>3 DEF ListBucket
  <2> HIDE DEF run
  <2> QED
    BY <1>0, <2>2, <2>3, RunMoves
<1>4. CASE Done(w) \/ Throws(w)
  BY <1>0, <1>4, DoneQueue, ThrowsQueue
<1>5. \/ \E pc \in {"verify", "upload", "list", "prune", "stamp"} :
            Step(w, pc) /\ UNCHANGED <<runLock, backupJob>>
      \/ ListBucket(w) \/ Done(w) \/ Throws(w)
  BY Zenon DEF BackupStep, EndDump, VerifyDump, UploadDump, CatchUp, Prune, Stamp
<1> QED
  BY <1>2, <1>3, <1>4, <1>5

LEMMA InitQueue == BackupInit => QueueHeld
<1>1. NoJob.state = "none"
  BY DEF NoJob
<1> QED
  BY <1>1, RestingRun DEF BackupInit, QueueHeld, Live

LEMMA NextQueue == QueueHeld /\ [BackupNext]_backupVars => QueueHeld'
<1> SUFFICES ASSUME QueueHeld, [BackupNext]_backupVars
             PROVE  QueueHeld'
  OBVIOUS
<1>1. CASE UNCHANGED <<runLock, backupJob, backupRun>>
  BY <1>1 DEF QueueHeld, Live
<1>2. CASE LockExpires
  BY <1>2 DEF LockExpires, QueueHeld, Live
<1> QED
  BY <1>1, <1>2, AddQueue, StartQueue, StepQueue, CrashQueue
     DEF BackupNext, backupVars, MinutePasses, RetentionPasses, SchemaDump
-----------------------------------------------------------------------------
(* The stores.                                                             *)

StoresTyped ==
    /\ volume \in [Dumps -> Ages \cup {"absent"}]
    /\ bucket \in [Dumps -> Ages \cup {"absent"}]
    /\ whole \subseteq Dumps
    /\ lastSuccess \in BOOLEAN
    /\ backupFaults \in 0..MaxBackupFaults
    /\ migrations \in 0..MaxSchemas

LEMMA InitStores == BackupInit => StoresTyped
<1> SUFFICES ASSUME BackupInit PROVE StoresTyped
  OBVIOUS
<1> USE DEF BackupInit
<1>1. /\ volume \in [Dumps -> Ages \cup {"absent"}]
      /\ bucket \in [Dumps -> Ages \cup {"absent"}]
  OBVIOUS
<1>2. whole \subseteq Dumps /\ backupFaults \in 0..MaxBackupFaults /\ migrations \in 0..MaxSchemas
  OBVIOUS
<1>3. lastSuccess \in BOOLEAN
  BY Zenon
<1> QED
  BY <1>1, <1>2, <1>3 DEF StoresTyped

\* A step is that of a run which lives.
LEMMA StepLives ==
    ASSUME QueueHeld, NEW w \in BackupSlots, BackupStep(w)
    PROVE  /\ Live(w) /\ backupRun[w].dump \in Dumps
           /\ backupRun[w].aged \subseteq Dumps
<1>1. Live(w)
  BY DEF BackupStep, EndDump, VerifyDump, UploadDump, ListBucket, CatchUp, Prune, Stamp, Live
<1> QED
  BY <1>1 DEF QueueHeld, BackupRuns

LEMMA NextStores == QueueHeld /\ StoresTyped /\ [BackupNext]_backupVars => StoresTyped'
<1> SUFFICES ASSUME QueueHeld, StoresTyped, [BackupNext]_backupVars
             PROVE  StoresTyped'
  OBVIOUS
<1> USE DEF StoresTyped, Fault, Ages
<1>1. CASE UNCHANGED <<volume, bucket, whole, lastSuccess, backupFaults, migrations>>
  BY <1>1
<1>2. CASE MinutePasses \/ RetentionPasses
  BY <1>2 DEF MinutePasses, RetentionPasses
<1>3. CASE SchemaDump
  <2>1. PICK d \in Dumps :
          \/ /\ volume' = [e \in Dumps |-> IF e = d THEN "new"
                                           ELSE IF volume[e] = "old" THEN "absent" ELSE volume[e]]
             /\ whole' = whole \cup {d}
             /\ UNCHANGED backupFaults
          \/ /\ Fault
             /\ volume' = [volume EXCEPT ![d] = "new"]
             /\ whole' = whole \ {d}
    BY <1>3 DEF SchemaDump, Unused
  <2>2. UNCHANGED <<bucket, lastSuccess>> /\ migrations' \in 0..MaxSchemas
    BY <1>3 DEF SchemaDump
  <2> QED
    BY <2>1, <2>2
<1>4. ASSUME NEW w \in BackupSlots, NEW t \in BackupTriggers, StartBackup(w, t)
      PROVE  StoresTyped'
  <2>1. UNCHANGED <<bucket, lastSuccess, backupFaults, migrations>>
    BY <1>4 DEF StartBackup
  <2>2. \/ UNCHANGED <<volume, whole>>
        \/ \E d \in Dumps : volume' = [volume EXCEPT ![d] = "new"] /\ whole' = whole \ {d}
    BY <1>4 DEF StartBackup, Unused
  <2> QED
    BY <2>1, <2>2
<1>5. ASSUME NEW w \in BackupSlots, BackupStep(w)
      PROVE  StoresTyped'
  <2> DEFINE d == backupRun[w].dump
  <2>0. d \in Dumps /\ backupRun[w].aged \subseteq Dumps
    BY <1>5, StepLives
  <2>1. CASE EndDump(w)
    <3>1. UNCHANGED <<bucket, lastSuccess, migrations>> /\ backupFaults' \in 0..MaxBackupFaults
      BY <2>1 DEF EndDump
    <3>2. /\ volume' \in {volume, [volume EXCEPT ![d] = "absent"]}
          /\ whole' \in {whole, whole \cup {d}}
      BY <2>1, Zenon DEF EndDump
    <3> QED
      BY <2>0, <3>1, <3>2
  <2>2. CASE VerifyDump(w) \/ ListBucket(w)
    BY <2>2 DEF VerifyDump, ListBucket
  <2>3. CASE UploadDump(w)
    BY <2>3 DEF UploadDump
  <2>4. CASE CatchUp(w)
    BY <2>4 DEF CatchUp
  <2>5. CASE Prune(w)
    BY <2>5 DEF Prune
  <2>6. CASE Stamp(w)
    <3>1. UNCHANGED <<volume, bucket, whole, migrations>> /\ backupFaults' \in 0..MaxBackupFaults
      BY <2>6 DEF Stamp
    <3>2. lastSuccess' \in {TRUE, lastSuccess}
      BY <2>6, Zenon DEF Stamp
    <3> QED
      BY <3>1, <3>2
  <2> QED
    BY <1>5, <2>1, <2>2, <2>3, <2>4, <2>5, <2>6 DEF BackupStep
<1>6. ASSUME NEW w \in BackupSlots, BackupCrash(w)
      PROVE  StoresTyped'
  BY <1>6 DEF BackupCrash
<1> QED
  BY <1>1, <1>2, <1>3, <1>4, <1>5, <1>6 DEF BackupNext, backupVars, CronFires, RunNow, AddBackup,
     LockExpires

\* Stores, queue, lock and runs keep their types (jobs/scheduledBackup.ts).
THEOREM BackupTyping == BackupSpec => []BackupTypeOK
<1>1. QueueHeld /\ StoresTyped => BackupTypeOK
  BY DEF QueueHeld, StoresTyped, BackupTypeOK
<1> QED
  BY <1>1, InitQueue, NextQueue, InitStores, NextStores, PTL DEF BackupSpec

-----------------------------------------------------------------------------
(* One at a time, and restorable.                                          *)

\* What a run knows of its own dump: it is whole once verified, it is in the
\* bucket and not old once uploaded, so the run's own pruning spares it.
RunSound(w) ==
    /\ backupRun[w].pc \in {"upload", "list", "sweep", "prune", "stamp"} =>
          backupRun[w].dump \in whole
    /\ backupRun[w].pc \in {"list", "sweep", "prune", "stamp"} =>
          bucket[backupRun[w].dump] \in {"new", "kept"}
    /\ backupRun[w].pc \in {"sweep", "prune"} => backupRun[w].dump \notin backupRun[w].aged

DumpsSound == \A w \in BackupSlots : RunSound(w)

\* That S3 holds a dump that restores is not inductive alone: pruning may take
\* every old dump, and it is the run's own that is left.
Restorable == lastSuccess => \E d \in whole : bucket[d] # "absent"

LEMMA InitSound == BackupInit => DumpsSound /\ Restorable
BY DEF BackupInit, DumpsSound, RunSound, Restorable, Resting

\* While no run lives only what is restorable matters.
LEMMA NoneLive ==
    ASSUME \A w \in BackupSlots : backupRun[w].pc \in {"rest", "dump"}
    PROVE  DumpsSound
BY DEF DumpsSound, RunSound

\* A step that takes no dump out of S3 and makes none less than whole.
LEMMA StillRestorable ==
    ASSUME Restorable, lastSuccess' => lastSuccess,
           \A d \in whole : bucket[d] # "absent" => d \in whole' /\ bucket'[d] # "absent"
    PROVE  Restorable'
BY DEF Restorable

LEMMA NextSound ==
    QueueHeld /\ StoresTyped /\ DumpsSound /\ Restorable /\ [BackupNext]_backupVars =>
      DumpsSound' /\ Restorable'
<1> SUFFICES ASSUME QueueHeld, StoresTyped, DumpsSound, Restorable, [BackupNext]_backupVars
             PROVE  DumpsSound' /\ Restorable'
  OBVIOUS
<1>f. /\ backupRun \in [BackupSlots -> BackupRuns]
      /\ bucket \in [Dumps -> Ages \cup {"absent"}] /\ whole \subseteq Dumps
  BY DEF QueueHeld, StoresTyped
<1>q. QueueHeld'
  BY NextQueue
<1>1. CASE UNCHANGED <<bucket, whole, lastSuccess, backupRun>>
  BY <1>1 DEF DumpsSound, RunSound, Restorable
<1>2. CASE MinutePasses
  <2>1. /\ \A d \in Dumps : bucket'[d] = IF bucket[d] = "new" THEN "kept" ELSE bucket[d]
        /\ UNCHANGED <<whole, lastSuccess, backupRun>>
    BY <1>2 DEF MinutePasses
  <2>2. \A w \in BackupSlots : RunSound(w)'
    BY <1>f, <2>1 DEF DumpsSound, RunSound
  <2> QED
    BY <1>f, <2>1, <2>2, StillRestorable DEF DumpsSound
<1>3. CASE RetentionPasses
  <2>1. /\ \A d \in Dumps : bucket'[d] = IF bucket[d] = "absent" THEN "absent" ELSE "old"
        /\ UNCHANGED <<whole, lastSuccess, backupRun>>
        /\ \A w \in BackupSlots : backupRun[w].pc = "rest"
    BY <1>3 DEF RetentionPasses
  <2>2. \A w \in BackupSlots : RunSound(w)'
    BY <2>1 DEF RunSound
  <2> QED
    BY <1>f, <2>1, <2>2, StillRestorable DEF DumpsSound
<1>4. CASE SchemaDump
  <2>1. PICK d \in Unused : whole' = whole \cup {d} \/ whole' = whole \ {d}
    BY <1>4 DEF SchemaDump
  <2>2. UNCHANGED <<bucket, lastSuccess, backupRun>>
    BY <1>4 DEF SchemaDump
  <2>3. bucket[d] = "absent" /\ \A w \in BackupSlots : backupRun[w].dump # d
    BY <2>1 DEF Unused
  <2>4. \A w \in BackupSlots : RunSound(w)'
    BY <2>1, <2>2, <2>3 DEF DumpsSound, RunSound
  <2> QED
    BY <2>1, <2>2, <2>3, <2>4, StillRestorable DEF DumpsSound
<1>5. ASSUME NEW w \in BackupSlots, NEW t \in BackupTriggers, StartBackup(w, t)
      PROVE  DumpsSound' /\ Restorable'
  <2>1. CASE UNCHANGED <<whole, backupRun>>
    BY <1>1, <1>5, <2>1 DEF StartBackup
  <2>2. CASE \E d \in Unused : /\ whole' = whole \ {d}
                               /\ backupRun' = [backupRun EXCEPT
                                    ![w] = [Resting EXCEPT !.pc = "dump", !.trigger = t,
                                                           !.dump = d]]
    <3>1. PICK d \in Unused : /\ whole' = whole \ {d}
                             /\ backupRun' = [backupRun EXCEPT
                                    ![w] = [Resting EXCEPT !.pc = "dump", !.trigger = t,
                                                           !.dump = d]]
      BY <2>2
    <3>2. bucket[d] = "absent" /\ \A v \in BackupSlots : backupRun[v].dump # d
      BY DEF Unused
    <3>3. \A v \in BackupSlots : v # w => backupRun'[v] = backupRun[v]
      BY <1>f, <3>1
    <3>4. backupRun'[w].pc = "dump"
      BY <1>f, <3>1 DEF Resting
    <3>5. UNCHANGED <<bucket, lastSuccess>>
      BY <1>5 DEF StartBackup
    <3>6. \A v \in BackupSlots : RunSound(v)'
      BY <3>1, <3>2, <3>3, <3>4, <3>5 DEF DumpsSound, RunSound
    <3> QED
      BY <3>1, <3>2, <3>5, <3>6, StillRestorable DEF DumpsSound
  <2> QED
    BY <1>5, <2>1, <2>2 DEF StartBackup
<1>6. ASSUME NEW w \in BackupSlots, BackupStep(w)
      PROVE  DumpsSound' /\ Restorable'
  <2> DEFINE d == backupRun[w].dump
  <2>0. Live(w) /\ d \in Dumps /\ backupRun[w] \in BackupRuns
    BY <1>6, <1>f, StepLives
  <2>a. \A v \in BackupSlots : v # w => backupRun[v].pc = "rest" /\ backupRun'[v] = backupRun[v]
    <3>1. \E run : backupRun' = [backupRun EXCEPT ![w] = run]
      BY <1>6, Zenon DEF BackupStep, EndDump, VerifyDump, UploadDump, ListBucket, CatchUp, Prune,
         Stamp, Step, Throws, Done
    <3> QED
      BY <1>f, <2>0, <3>1, Alone
  <2>b. RunSound(w)' => DumpsSound'
    BY <2>a DEF DumpsSound, RunSound
  <2>s. RunSound(w)
    BY DEF DumpsSound
  <2>v. ASSUME NEW pc \in {"verify", "upload", "list", "prune", "stamp"}, Step(w, pc)
        PROVE  /\ backupRun'[w].pc = pc /\ backupRun'[w].dump = d
               /\ backupRun'[w].aged = backupRun[w].aged
    BY <1>f, <2>0, <2>v DEF Step, BackupRuns
  <2>r. Throws(w) \/ Done(w) => backupRun'[w].pc = "rest"
    BY <1>f DEF Throws, Done, Resting
  <2>1. CASE EndDump(w)
    <3>1. whole \subseteq whole' /\ UNCHANGED <<bucket, lastSuccess>>
      BY <2>1 DEF EndDump
    <3>2. backupRun'[w].pc \in {"rest", "verify"}
      BY <2>1, <2>v, <2>r DEF EndDump
    <3> QED
      BY <2>b, <3>1, <3>2, StillRestorable DEF RunSound
  <2>2. CASE VerifyDump(w)
    <3>1. UNCHANGED <<whole, bucket, lastSuccess>>
      BY <2>2 DEF VerifyDump
    <3>2. \/ backupRun'[w].pc = "rest"
          \/ backupRun'[w].pc = "upload" /\ backupRun'[w].dump = d /\ d \in whole
      BY <2>2, <2>v, <2>r DEF VerifyDump, Accepted
    <3> QED
      BY <2>b, <3>1, <3>2, StillRestorable DEF RunSound
  <2>3. CASE UploadDump(w)
    <3>1. UNCHANGED <<whole, lastSuccess>> /\ d \in whole
      BY <2>3, <2>s DEF UploadDump, RunSound
    <3>2. CASE bucket' = [bucket EXCEPT ![d] = "new"] /\ Step(w, "list")
      <4>1. bucket'[d] = "new" /\ \A e \in Dumps : bucket[e] # "absent" => bucket'[e] # "absent"
        BY <1>f, <2>0, <3>2
      <4>2. backupRun'[w].pc = "list" /\ backupRun'[w].dump = d
        BY <2>v, <3>2
      <4>3. RunSound(w)'
        BY <3>1, <4>1, <4>2 DEF RunSound
      <4> QED
        BY <1>f, <2>b, <3>1, <4>1, <4>3, StillRestorable
    <3>3. CASE Throws(w) /\ UNCHANGED bucket
      BY <2>b, <2>r, <3>1, <3>3, StillRestorable DEF RunSound
    <3> QED
      BY <2>3, <3>2, <3>3 DEF UploadDump
  <2>4. CASE ListBucket(w)
    <3>1. /\ backupRun'[w].pc = "sweep" /\ backupRun'[w].dump = d
          /\ backupRun'[w].aged = Aged(bucket)
      BY <1>f, <2>0, <2>4 DEF ListBucket, BackupRuns
    <3>2. UNCHANGED <<whole, bucket, lastSuccess>>
      BY <2>4 DEF ListBucket
    <3>3. d \in whole /\ bucket[d] \in {"new", "kept"}
      BY <2>4, <2>s DEF ListBucket, RunSound
    <3>4. RunSound(w)'
      BY <3>1, <3>2, <3>3 DEF RunSound, Aged
    <3> QED
      BY <2>b, <3>2, <3>4, StillRestorable
  <2>5. CASE CatchUp(w)
    <3>1. \A e \in Dumps : bucket'[e] \in {bucket[e], "new"}
      BY <2>5 DEF CatchUp
    <3>2. UNCHANGED <<whole, lastSuccess>>
      BY <2>5 DEF CatchUp
    <3>3. /\ backupRun'[w].pc = "prune" /\ backupRun'[w].dump = d
          /\ backupRun'[w].aged = backupRun[w].aged
      BY <2>5, <2>v DEF CatchUp
    <3>4. backupRun[w].pc = "sweep"
      BY <2>5 DEF CatchUp
    <3>5. RunSound(w)'
      BY <2>0, <2>s, <3>1, <3>2, <3>3, <3>4 DEF RunSound
    <3> QED
      BY <1>f, <2>b, <3>1, <3>2, <3>5, StillRestorable
  <2>6. CASE Prune(w)
    <3>1. \A e \in Dumps : e \notin backupRun[w].aged => bucket'[e] = bucket[e]
      BY <2>6 DEF Prune
    <3>2. UNCHANGED <<whole, lastSuccess>> /\ backupRun[w].pc = "prune"
      BY <2>6 DEF Prune
    <3>3. backupRun'[w].pc = "stamp" /\ backupRun'[w].dump = d
      BY <2>6, <2>v DEF Prune
    <3>4. d \in whole /\ bucket'[d] = bucket[d] /\ bucket[d] \in {"new", "kept"}
      BY <2>0, <2>s, <3>1, <3>2 DEF RunSound
    <3>5. RunSound(w)'
      BY <3>2, <3>3, <3>4 DEF RunSound
    <3>6. Restorable'
      BY <3>2, <3>4 DEF Restorable
    <3> QED
      BY <2>b, <3>5, <3>6
  <2>7. CASE Stamp(w)
    <3>1. UNCHANGED <<whole, bucket>> /\ backupRun[w].pc = "stamp"
      BY <2>7 DEF Stamp
    <3>2. d \in whole /\ bucket[d] \in {"new", "kept"}
      BY <2>s, <3>1 DEF RunSound
    <3>3. backupRun'[w].pc = "rest"
      BY <2>7, <2>r DEF Stamp
    <3>4. Restorable'
      BY <3>1, <3>2 DEF Restorable
    <3> QED
      BY <2>b, <3>3, <3>4 DEF RunSound
  <2> QED
    BY <1>6, <2>1, <2>2, <2>3, <2>4, <2>5, <2>6, <2>7 DEF BackupStep
<1>7. ASSUME NEW w \in BackupSlots, BackupCrash(w)
      PROVE  DumpsSound' /\ Restorable'
  <2>1. UNCHANGED <<whole, bucket, lastSuccess>>
    BY <1>7 DEF BackupCrash
  <2>2. \A v \in BackupSlots : backupRun'[v] = backupRun[v] \/ backupRun'[v].pc = "rest"
    BY <1>7, <1>f DEF BackupCrash, Resting
  <2>3. \A v \in BackupSlots : RunSound(v)'
    BY <2>1, <2>2 DEF DumpsSound, RunSound
  <2> QED
    BY <2>1, <2>3, StillRestorable DEF DumpsSound
<1> QED
  BY <1>1, <1>2, <1>3, <1>4, <1>5, <1>6, <1>7 DEF BackupNext, backupVars, CronFires, RunNow,
     AddBackup, LockExpires

\* Whatever workers, crashes, failed uploads and retention do, backups run one
\* at a time, and once the card shows a success S3 holds a dump that restores
\* (jobs/scheduledBackup.ts, lib/redisLock.ts).
THEOREM BackupsAreSound == BackupSpec => []BackupsSound
<1>1. QueueHeld => BackupsSerial
  BY DEF QueueHeld, BackupsSerial, Live
<1>2. Restorable => SuccessIsRestorable
  BY DEF Restorable, SuccessIsRestorable, Shown
<1> QED
  BY <1>1, <1>2, InitQueue, NextQueue, InitStores, NextStores, InitSound, NextSound, PTL
     DEF BackupSpec, BackupsSound

HIDE BackupAssumption

-----------------------------------------------------------------------------
USE TaskAssumption

-----------------------------------------------------------------------------
(***************************************************************************)
(* A task and its stamp.                                                   *)
(***************************************************************************)

Writing == [pc : {"write"}, path : {"patch", "toggle", "mcp"},
            sent : Statuses \cup {"unsent"}, before : Statuses]
Emitting == [pc : {"emit"}, path : {"patch", "toggle", "mcp"}, just : BOOLEAN]

TaskTypeOK ==
    /\ task \in [state : {"live", "gone"}, status : Statuses, stamped : BOOLEAN,
                 onDeal : BOOLEAN]
    /\ taskCall \in [TaskCalls -> {NoCall} \cup Writing \cup Emitting]
    /\ turned \in Nat /\ logged \in Nat /\ told \in Nat /\ taskWrites \in Nat

\* One request at a time: what it read of the task is still so, a toggle turns
\* it, and an event it is about to tell is of a completion not told yet.
LoneTaskCall ==
    /\ \A c, d \in TaskCalls : taskCall[c].pc # "idle" /\ taskCall[d].pc # "idle" => c = d
    /\ \A c \in TaskCalls :
         /\ taskCall[c].pc = "write" => /\ taskCall[c].before = task.status
                                        /\ taskCall[c].path = "toggle" =>
                                             taskCall[c].sent \in Statuses \ {task.status}
         /\ taskCall[c].pc = "emit" /\ taskCall[c].just => told < turned

TaskInv == TaskTypeOK /\ LoneTaskCall /\ CompletionsAgree

LEMMA InitTask == TaskInit => TaskInv
<1> SUFFICES ASSUME TaskInit PROVE TaskInv
  OBVIOUS
<1>1. TaskTypeOK
  BY DEF TaskInit, TaskTypeOK, NoCall, Statuses
<1>2. \A c \in TaskCalls : taskCall[c].pc = "idle"
  BY DEF TaskInit, NoCall
<1>3. LoneTaskCall
  BY <1>2 DEF LoneTaskCall
<1>4. task.status = "pending" /\ task.stamped = FALSE
  BY DEF TaskInit
<1>5. CompletionsAgree
  BY <1>4 DEF TaskInit, CompletionsAgree, StampMatchesStatus, ToldOncePerCompletion
<1> QED
  BY <1>1, <1>3, <1>5 DEF TaskInv

\* What a write makes of the row: the stamp follows whatever status it sets.
LEMMA AfterAgrees ==
    ASSUME TaskTypeOK, StampMatchesStatus, NEW call \in Writing
    PROVE  LET new == After(call, task)
           IN  /\ new \in [state : {"live", "gone"}, status : Statuses, stamped : BOOLEAN,
                           onDeal : BOOLEAN]
               /\ new.stamped <=> new.status = "completed"
               /\ new.status = IF Sets(call) THEN call.sent ELSE task.status
<1>1. CASE Sets(call)
  <2>1. call.sent \in Statuses
    BY <1>1 DEF Sets, Writing
  <2> QED
    BY <1>1, <2>1 DEF After, TaskTypeOK
<1>2. CASE ~Sets(call)
  BY <1>2 DEF After, TaskTypeOK, StampMatchesStatus
<1> QED
  BY <1>1, <1>2

LEMMA StepTask == ~TasksOverlap /\ TaskInv /\ [TaskNext]_taskVars => TaskInv'
<1> SUFFICES ASSUME ~TasksOverlap, TaskInv, [TaskNext]_taskVars
             PROVE  TaskInv'
  OBVIOUS
<1> USE DEF TaskInv
<1>1. ASSUME NEW c \in TaskCalls, ReadTask(c)
      PROVE  TaskInv'
  <2>1. PICK path \in {"patch", "toggle", "mcp"}, sent \in Statuses \cup {"unsent"} :
          /\ path = "toggle" => sent # task.status /\ sent # "unsent"
          /\ taskCall' = [taskCall EXCEPT ![c] =
               [pc |-> "write", path |-> path, sent |-> sent, before |-> task.status]]
    BY <1>1 DEF ReadTask
  <2>2. \A d \in TaskCalls : taskCall[d].pc = "idle"
    BY <1>1 DEF ReadTask, MayStart
  <2>3. TaskTypeOK'
    BY <1>1, <2>1 DEF ReadTask, MayStart, TaskTypeOK, Writing
  <2>4. /\ \A d \in TaskCalls : d # c => taskCall'[d].pc = "idle"
        /\ taskCall'[c] = [pc |-> "write", path |-> path, sent |-> sent, before |-> task.status]
    BY <2>1, <2>2 DEF TaskTypeOK
  <2>5. LoneTaskCall'
    BY <1>1, <2>1, <2>4 DEF ReadTask, LoneTaskCall
  <2> QED
    BY <1>1, <2>3, <2>5 DEF ReadTask, CompletionsAgree, StampMatchesStatus, ToldOncePerCompletion
<1>2. ASSUME NEW c \in TaskCalls, WriteTask(c)
      PROVE  TaskInv'
  <2> DEFINE call == taskCall[c]
             new == After(call, task)
  <2>1. call \in Writing
    BY <1>2 DEF WriteTask, TaskTypeOK, NoCall, Emitting
  <2>2. \A d \in TaskCalls : d # c => taskCall[d].pc = "idle"
    BY <1>2 DEF WriteTask, LoneTaskCall
  <2>3. CASE task.state = "live"
    <3>1. /\ task' = new
          /\ turned' = IF task.status = "pending" /\ new.status = "completed"
                       THEN turned + 1 ELSE turned
          /\ logged' = IF /\ call.path # "patch" /\ task.onDeal
                          /\ Sets(call) /\ call.sent = "completed"
                       THEN logged + 1 ELSE logged
          /\ taskCall' = [taskCall EXCEPT ![c] =
               [pc |-> "emit", path |-> call.path, just |-> JustCompleted(call, new)]]
          /\ told' = told /\ taskWrites' = taskWrites
      BY <1>2, <2>3 DEF WriteTask
    <3>2. /\ new \in [state : {"live", "gone"}, status : Statuses, stamped : BOOLEAN,
                      onDeal : BOOLEAN]
          /\ new.stamped <=> new.status = "completed"
          /\ new.status = IF Sets(call) THEN call.sent ELSE task.status
      BY <2>1, AfterAgrees DEF CompletionsAgree
    <3> HIDE DEF new
    <3>3. JustCompleted(call, new) \in BOOLEAN
      BY DEF JustCompleted
    <3>4. TaskTypeOK'
      BY <2>1, <3>1, <3>2, <3>3 DEF TaskTypeOK, Writing, Emitting
    <3>5. /\ \A d \in TaskCalls : d # c => taskCall'[d] = taskCall[d]
          /\ taskCall'[c] = [pc |-> "emit", path |-> call.path, just |-> JustCompleted(call, new)]
      BY <3>1 DEF TaskTypeOK
    <3>6. /\ call.before = task.status
          /\ call.path = "toggle" => call.sent \in Statuses \ {task.status}
      BY <1>2 DEF WriteTask, LoneTaskCall
    <3>7. JustCompleted(call, new) => told' < turned'
      BY <3>1, <3>2, <3>6 DEF JustCompleted, TaskTypeOK, Statuses, CompletionsAgree,
         ToldOncePerCompletion
    <3>8. /\ call.path # "patch" /\ Sets(call) /\ call.sent = "completed" =>
               task.status = "pending" /\ new.status = "completed"
      BY <2>1, <3>2, <3>6 DEF Sets, Writing, TaskTypeOK, Statuses
    <3>9. told' <= turned' /\ logged' <= turned'
      BY <3>1, <3>8 DEF TaskTypeOK, CompletionsAgree, ToldOncePerCompletion
    <3>10. LoneTaskCall'
      BY <2>2, <3>5, <3>7 DEF LoneTaskCall
    <3> QED
      BY <3>1, <3>2, <3>4, <3>9, <3>10 DEF CompletionsAgree, StampMatchesStatus,
         ToldOncePerCompletion
  <2>4. CASE task.state # "live"
    <3>1. taskCall' = [taskCall EXCEPT ![c] = NoCall]
          /\ UNCHANGED <<task, turned, logged, told, taskWrites>>
      BY <1>2, <2>4 DEF WriteTask
    <3>2. \A d \in TaskCalls : taskCall'[d].pc = "idle"
      BY <2>2, <3>1 DEF TaskTypeOK, NoCall
    <3>3. TaskTypeOK'
      BY <3>1 DEF TaskTypeOK
    <3> QED
      BY <3>1, <3>2, <3>3 DEF LoneTaskCall, CompletionsAgree, StampMatchesStatus,
         ToldOncePerCompletion
  <2> QED
    BY <2>3, <2>4
<1>3. ASSUME NEW c \in TaskCalls, EmitTask(c)
      PROVE  TaskInv'
  <2>1. \A d \in TaskCalls : taskCall'[d].pc = "idle"
    BY <1>3 DEF EmitTask, LoneTaskCall, TaskTypeOK, NoCall
  <2>2. told' \in Nat /\ told' <= turned
    BY <1>3 DEF EmitTask, LoneTaskCall, TaskTypeOK, CompletionsAgree, ToldOncePerCompletion
  <2>3. TaskTypeOK'
    BY <1>3, <2>2 DEF EmitTask, TaskTypeOK
  <2> QED
    BY <1>3, <2>1, <2>2, <2>3 DEF EmitTask, LoneTaskCall, CompletionsAgree, StampMatchesStatus,
       ToldOncePerCompletion
<1>4. CASE DeleteTask
  <2>1. TaskTypeOK' /\ task'.status = task.status /\ task'.stamped = task.stamped
    BY <1>4 DEF DeleteTask, TaskTypeOK
  <2> QED
    BY <1>4, <2>1 DEF DeleteTask, LoneTaskCall, CompletionsAgree, StampMatchesStatus,
       ToldOncePerCompletion
<1>5. CASE UNCHANGED taskVars
  BY <1>5 DEF taskVars, TaskTypeOK, LoneTaskCall, CompletionsAgree, StampMatchesStatus,
     ToldOncePerCompletion
<1> QED
  BY <1>1, <1>2, <1>3, <1>4, <1>5 DEF TaskNext

\* While requests on a task do not overlap, completedAt is set exactly while it
\* is completed, and no completion is told or logged twice (routes/tasks.ts).
THEOREM CompletionsTold == ~TasksOverlap => (TaskSpec => []CompletionsAgree)
<1> SUFFICES ASSUME ~TasksOverlap
             PROVE  TaskSpec => []CompletionsAgree
  OBVIOUS
<1>1. TaskInv /\ [TaskNext]_taskVars => TaskInv'
  BY StepTask
<1>2. TaskInv => CompletionsAgree
  BY DEF TaskInv
<1> QED
  BY InitTask, <1>1, <1>2, PTL DEF TaskSpec

HIDE TaskAssumption

-----------------------------------------------------------------------------
(***************************************************************************)
(* Records, their tags and their field.                                    *)
(***************************************************************************)

Values == Choices \cup {Empty}
Definitions ==
    {d \in [state : Life, options : SUBSET Choices, active : BOOLEAN,
            required : BOOLEAN, default : Values] : d.state = "unborn" => d.options = {}}
Writes == [pc : {"create", "patch"}, rec : Recs, tags : SUBSET TagIds, val : Values]
Deletions == [pc : {"delete"}, rec : Recs, swept : [tags : SUBSET TagIds, val : Values]]
Redefinitions == [pc : {"field"}, new : Definitions]
Forms == {Closed}
         \cup [of : {"record"}, rec : Recs, tags : SUBSET TagIds, val : Values \cup {Unsent}]
         \cup [of : {"field"}, options : SUBSET Choices, required : BOOLEAN, default : Values]

CrmTypeOK ==
    /\ recState \in [Recs -> Life] /\ tagState \in [TagIds -> Life]
    /\ tagRows \subseteq Recs \X TagIds
    /\ field \in Definitions
    /\ value \in [Recs -> Values]
    /\ request \in [CrmRequests -> {NoRequest} \cup Writes \cup Deletions \cup Redefinitions]
    /\ dialog \in Forms

\* A create holds a value its field has and that the field may be left at; a
\* patch one that, under an inactive field, is the value there is.
CreateStands(c) ==
    /\ recState[c.rec] = "unborn"
    /\ c.val \in field.options \cup {Empty}
    /\ c.val = Empty => ~field.active \/ ~field.required \/ field.default # Empty

PatchStands(c) ==
    /\ recState[c.rec] = "live"
    /\ c.val \in field.options \cup {Empty}
    /\ field.state = "live" /\ ~field.active => c.val = value[c.rec]

\* One request at a time: what it read still holds.
LoneRequest ==
    /\ \A p, q \in CrmRequests : request[p].pc # "idle" /\ request[q].pc # "idle" => p = q
    /\ \A q \in CrmRequests :
         /\ request[q].pc = "create" => CreateStands(request[q])
         /\ request[q].pc = "patch" => PatchStands(request[q])
         /\ request[q].pc = "delete" => request[q].swept = Swept(request[q].rec)
         /\ request[q].pc = "field" => Stored \subseteq request[q].new.options

CrmInv == CrmTypeOK /\ LoneRequest /\ NoOrphanRows /\ ValuesAreOptions

AllIdle == \A q \in CrmRequests : request[q].pc = "idle"

LEMMA InitCrm == CrmInit => CrmInv
<1> SUFFICES ASSUME CrmInit PROVE CrmInv
  OBVIOUS
<1>1. CrmTypeOK
  BY DEF CrmInit, CrmTypeOK, Values, Definitions, NoField, Forms, Life
<1>2. AllIdle
  BY DEF CrmInit, NoRequest, AllIdle
<1>3. LoneRequest
  BY <1>2 DEF LoneRequest, AllIdle
<1>4. NoOrphanRows /\ ValuesAreOptions
  BY DEF CrmInit, NoOrphanRows, TagsOf, ValuesAreOptions, Stored
<1> QED
  BY <1>1, <1>3, <1>4 DEF CrmInv

\* With every slot idle nothing is held of a request.
LEMMA IdleIsLone == AllIdle => LoneRequest
BY DEF AllIdle, LoneRequest

LEMMA StoredMeans ==
    ASSUME NEW S
    PROVE  Stored \subseteq S <=> \A r \in Recs : value[r] = Empty \/ value[r] \in S
BY DEF Stored

\* A slot that begins: it is the one that is busy.
LEMMA BeginAlone ==
    ASSUME CrmTypeOK, ~CrmOverlap, NEW q \in CrmRequests,
           NEW work \in Writes \cup Deletions \cup Redefinitions, Begin(q, work)
    PROVE  /\ request' \in [CrmRequests -> {NoRequest} \cup Writes \cup Deletions \cup Redefinitions]
           /\ request'[q] = work
           /\ \A p \in CrmRequests : p # q => request'[p].pc = "idle"
BY DEF CrmTypeOK, Begin, Quiet

\* A slot that finishes leaves none busy.
LEMMA FinishAlone ==
    ASSUME CrmTypeOK, LoneRequest, NEW q \in CrmRequests, request[q].pc # "idle", Finish(q)
    PROVE  /\ request' \in [CrmRequests -> {NoRequest} \cup Writes \cup Deletions \cup Redefinitions]
           /\ AllIdle'
BY DEF CrmTypeOK, LoneRequest, Finish, AllIdle, NoRequest

LEMMA PayloadGivesOption ==
    ASSUME CrmTypeOK, NEW p, PayloadOk(p), NEW old \in Values,
           old \in field.options \cup {Empty}
    PROVE  /\ ValuesWritten(p, old) \in field.options \cup {Empty}
           /\ ~field.active => ValuesWritten(p, old) = old
BY DEF CrmTypeOK, PayloadOk, ValuesWritten, Definitions, Values

LEMMA CreateReadsStep ==
    ASSUME CrmInv, ~CrmOverlap, NEW q \in CrmRequests, NEW r \in Recs,
           NEW p \in Values \cup {Unsent}, NEW tags \in SUBSET TagIds,
           CreateReads(q, r, tags, p)
    PROVE  CrmInv'
<1> DEFINE work == [pc |-> "create", rec |-> r, tags |-> tags, val |-> Defaulted(p)]
<1>1. /\ PayloadOk(p) /\ RequiredOk(p) /\ recState[r] = "unborn" /\ Begin(q, work)
      /\ UNCHANGED <<recState, tagState, tagRows, field, value, dialog>>
  BY DEF CreateReads
<1>2. Defaulted(p) \in field.options \cup {Empty} /\ Defaulted(p) \in Values
  BY <1>1, PayloadGivesOption DEF Defaulted, CrmInv, CrmTypeOK, Definitions, Values
<1>3. Defaulted(p) = Empty => ~field.active \/ ~field.required \/ field.default # Empty
  BY <1>1, CrmAssumption DEF Defaulted, RequiredOk, ValuesWritten
<1>4. work \in Writes
  BY <1>2 DEF Writes
<1>5. /\ request' \in [CrmRequests -> {NoRequest} \cup Writes \cup Deletions \cup Redefinitions]
      /\ request'[q] = work
      /\ \A o \in CrmRequests : o # q => request'[o].pc = "idle"
  BY <1>1, <1>4, BeginAlone DEF CrmInv
<1>6. CrmTypeOK'
  BY <1>1, <1>5 DEF CrmInv, CrmTypeOK
<1>7. LoneRequest'
  BY <1>1, <1>2, <1>3, <1>5 DEF LoneRequest, CreateStands
<1> QED
  BY <1>1, <1>6, <1>7 DEF CrmInv, NoOrphanRows, TagsOf, ValuesAreOptions, Stored

LEMMA PatchReadsStep ==
    ASSUME CrmInv, ~CrmOverlap, NEW q \in CrmRequests, NEW r \in Recs,
           NEW p, NEW tags, PatchReads(q, r, tags, p), dialog' \in Forms
    PROVE  CrmInv'
<1> DEFINE new == IF tags = Unsent THEN TagsOf(r) ELSE tags
           work == [pc |-> "patch", rec |-> r, tags |-> new,
                    val |-> ValuesWritten(p, value[r])]
<1>1. /\ PayloadOk(p) /\ recState[r] = "live" /\ Begin(q, work)
      /\ tags # Unsent => tags \subseteq LiveTags
      /\ UNCHANGED <<recState, tagState, tagRows, field, value>>
  BY DEF PatchReads
<1>2. value[r] \in field.options \cup {Empty} /\ value[r] \in Values
  BY StoredMeans DEF CrmInv, CrmTypeOK, ValuesAreOptions
<1>3. /\ ValuesWritten(p, value[r]) \in field.options \cup {Empty}
      /\ ~field.active => ValuesWritten(p, value[r]) = value[r]
  BY <1>1, <1>2, PayloadGivesOption DEF CrmInv
<1>4. new \in SUBSET TagIds
  BY <1>1 DEF TagsOf, LiveTags
<1>5. ValuesWritten(p, value[r]) \in Values
  BY <1>3 DEF CrmInv, CrmTypeOK, Definitions, Values
<1>6. work \in Writes
  BY <1>4, <1>5 DEF Writes
<1>7. /\ request' \in [CrmRequests -> {NoRequest} \cup Writes \cup Deletions \cup Redefinitions]
      /\ request'[q] = work
      /\ \A o \in CrmRequests : o # q => request'[o].pc = "idle"
  BY <1>1, <1>6, BeginAlone DEF CrmInv
<1>8. CrmTypeOK'
  BY <1>1, <1>7 DEF CrmInv, CrmTypeOK
<1>9. LoneRequest'
  BY <1>1, <1>3, <1>7 DEF LoneRequest, PatchStands
<1> QED
  BY <1>1, <1>8, <1>9 DEF CrmInv, NoOrphanRows, TagsOf, ValuesAreOptions, Stored

LEMMA CreateCommitsStep ==
    ASSUME CrmInv, NEW q \in CrmRequests, CreateCommits(q)
    PROVE  /\ CrmInv'
           /\ \A r \in Recs : recState[r] = "live" => value'[r] = value[r]
           /\ \A r \in Recs : recState[r] = "unborn" /\ recState'[r] = "live" /\ value'[r] = Empty
                => ~field.active \/ ~field.required \/ field.default # Empty
<1> DEFINE c == request[q]
<1>1. /\ c.pc = "create" /\ Finish(q) /\ UNCHANGED <<tagState, field, dialog>>
      /\ CreateStands(c) /\ c \in Writes
  BY DEF CreateCommits, CrmInv, CrmTypeOK, LoneRequest, NoRequest, Writes, Deletions, Redefinitions
<1>2. /\ request' \in [CrmRequests -> {NoRequest} \cup Writes \cup Deletions \cup Redefinitions]
      /\ AllIdle'
  BY <1>1, FinishAlone DEF CrmInv
<1>3. LoneRequest'
  BY <1>2 DEF LoneRequest, AllIdle
<1>4. CASE KeysHold(q)
  <2>1. /\ recState' = [recState EXCEPT ![c.rec] = "live"]
        /\ tagRows' = tagRows \cup ({c.rec} \X c.tags)
        /\ value' = [value EXCEPT ![c.rec] = c.val]
    BY <1>4 DEF CreateCommits
  <2>2. CrmTypeOK'
    BY <1>1, <1>2, <2>1 DEF CrmInv, CrmTypeOK, Writes, Life
  <2>3. /\ \A r \in Recs : r # c.rec => recState'[r] = recState[r] /\ value'[r] = value[r]
        /\ recState'[c.rec] = "live" /\ value'[c.rec] = c.val
    BY <1>1, <2>1 DEF CrmInv, CrmTypeOK, Writes
  <2>4. \A r \in Recs : r # c.rec => TagsOf(r)' = TagsOf(r)
    BY <2>1 DEF TagsOf
  <2>5. NoOrphanRows'
    BY <2>3, <2>4 DEF CrmInv, NoOrphanRows
  <2>6. \A r \in Recs : value'[r] = Empty \/ value'[r] \in field.options
    BY <1>1, <2>3, StoredMeans DEF CrmInv, ValuesAreOptions, CreateStands
  <2>7. ValuesAreOptions'
    BY <1>1, <2>6 DEF ValuesAreOptions, Stored
  <2> QED
    BY <1>1, <1>3, <2>2, <2>3, <2>5, <2>7 DEF CrmInv, CreateStands
<1>5. CASE ~KeysHold(q)
  <2>1. UNCHANGED <<recState, tagRows, value>>
    BY <1>5 DEF CreateCommits
  <2> QED
    BY <1>1, <1>2, <1>3, <2>1 DEF CrmInv, CrmTypeOK, NoOrphanRows, TagsOf, ValuesAreOptions, Stored
<1> QED
  BY <1>4, <1>5

LEMMA PatchCommitsStep ==
    ASSUME CrmInv, NEW q \in CrmRequests, PatchCommits(q)
    PROVE  /\ CrmInv'
           /\ recState' = recState
           /\ field.state = "live" /\ ~field.active => \A r \in Recs : value'[r] = value[r]
<1> DEFINE c == request[q]
<1>1. /\ c.pc = "patch" /\ Finish(q) /\ UNCHANGED <<recState, tagState, field, dialog>>
      /\ PatchStands(c) /\ c \in Writes
  BY DEF PatchCommits, CrmInv, CrmTypeOK, LoneRequest, NoRequest, Writes, Deletions, Redefinitions
<1>2. /\ request' \in [CrmRequests -> {NoRequest} \cup Writes \cup Deletions \cup Redefinitions]
      /\ AllIdle'
  BY <1>1, FinishAlone DEF CrmInv
<1>3. LoneRequest'
  BY <1>2 DEF LoneRequest, AllIdle
<1>4. CASE KeysHold(q)
  <2>1. /\ tagRows' = {row \in tagRows : row[1] # c.rec} \cup ({c.rec} \X c.tags)
        /\ value' = [value EXCEPT ![c.rec] = c.val]
    BY <1>4 DEF PatchCommits
  <2>2. CrmTypeOK'
    BY <1>1, <1>2, <2>1 DEF CrmInv, CrmTypeOK, Writes
  <2>3. /\ \A r \in Recs : r # c.rec => value'[r] = value[r]
        /\ value'[c.rec] = c.val
    BY <1>1, <2>1 DEF CrmInv, CrmTypeOK, Writes
  <2>4. \A r \in Recs : r # c.rec => TagsOf(r)' = TagsOf(r)
    BY <2>1 DEF TagsOf
  <2>5. NoOrphanRows'
    BY <1>1, <2>3, <2>4 DEF CrmInv, NoOrphanRows, PatchStands
  <2>6. \A r \in Recs : value'[r] = Empty \/ value'[r] \in field.options
    BY <1>1, <2>3, StoredMeans DEF CrmInv, ValuesAreOptions, PatchStands
  <2>7. ValuesAreOptions'
    BY <1>1, <2>6 DEF ValuesAreOptions, Stored
  <2> QED
    BY <1>1, <1>3, <2>2, <2>3, <2>5, <2>7 DEF CrmInv, PatchStands
<1>5. CASE ~KeysHold(q)
  <2>1. UNCHANGED <<tagRows, value>>
    BY <1>5 DEF PatchCommits
  <2> QED
    BY <1>1, <1>2, <1>3, <2>1 DEF CrmInv, CrmTypeOK, NoOrphanRows, TagsOf, ValuesAreOptions, Stored
<1> QED
  BY <1>4, <1>5

LEMMA DeleteCommitsStep ==
    ASSUME CrmInv, NEW q \in CrmRequests, DeleteCommits(q)
    PROVE  /\ CrmInv'
           /\ \A r \in Recs : recState'[r] = "live" => recState[r] = "live" /\ value'[r] = value[r]
<1> DEFINE c == request[q]
<1>1. /\ c.pc = "delete" /\ Finish(q) /\ UNCHANGED <<tagState, field, dialog>>
      /\ c.swept = Swept(c.rec) /\ c.rec \in Recs
  BY DEF DeleteCommits, CrmInv, CrmTypeOK, LoneRequest, NoRequest, Writes, Deletions, Redefinitions
<1>2. /\ request' \in [CrmRequests -> {NoRequest} \cup Writes \cup Deletions \cup Redefinitions]
      /\ AllIdle'
  BY <1>1, FinishAlone DEF CrmInv
<1>3. LoneRequest'
  BY <1>2 DEF LoneRequest, AllIdle
<1>4. CASE recState[c.rec] = "live"
  <2>1. /\ recState' = [recState EXCEPT ![c.rec] = "gone"]
        /\ tagRows' = tagRows \ ({c.rec} \X TagsOf(c.rec))
        /\ value' = [value EXCEPT ![c.rec] = IF value[c.rec] = Empty THEN @ ELSE Empty]
    BY <1>1, <1>4 DEF DeleteCommits, Swept
  <2>2. CrmTypeOK'
    BY <1>1, <1>2, <2>1 DEF CrmInv, CrmTypeOK, Values, Life
  <2>3. /\ \A r \in Recs : r # c.rec => recState'[r] = recState[r] /\ value'[r] = value[r]
        /\ recState'[c.rec] = "gone" /\ value'[c.rec] = Empty
    BY <1>1, <2>1 DEF CrmInv, CrmTypeOK
  <2>4. \A r \in Recs : TagsOf(r)' = IF r = c.rec THEN {} ELSE TagsOf(r)
    BY <2>1 DEF TagsOf
  <2>5. NoOrphanRows'
    BY <2>3, <2>4 DEF CrmInv, NoOrphanRows
  <2>6. \A r \in Recs : value'[r] = Empty \/ value'[r] \in field.options
    BY <2>3, StoredMeans DEF CrmInv, ValuesAreOptions
  <2>7. ValuesAreOptions'
    BY <1>1, <2>6 DEF ValuesAreOptions, Stored
  <2> QED
    BY <1>3, <2>2, <2>3, <2>5, <2>7 DEF CrmInv
<1>5. CASE recState[c.rec] # "live"
  <2>1. UNCHANGED <<recState, tagRows, value>>
    BY <1>5 DEF DeleteCommits
  <2> QED
    BY <1>1, <1>2, <1>3, <2>1 DEF CrmInv, CrmTypeOK, NoOrphanRows, TagsOf, ValuesAreOptions, Stored
<1> QED
  BY <1>4, <1>5

\* What a definition's change leaves alone, and what it must still allow.
LEMMA FieldChanges ==
    ASSUME CrmInv, AllIdle', field' \in Definitions, Stored \subseteq field'.options,
           recState' = recState, tagState' = tagState, tagRows' = tagRows, value' = value,
           request' \in [CrmRequests -> {NoRequest} \cup Writes \cup Deletions \cup Redefinitions],
           dialog' = dialog
    PROVE  CrmInv'
<1>1. LoneRequest'
  BY DEF LoneRequest, AllIdle
<1>2. CrmTypeOK'
  BY DEF CrmInv, CrmTypeOK
<1> QED
  BY <1>1, <1>2 DEF CrmInv, NoOrphanRows, TagsOf, ValuesAreOptions, Stored

\* What a dialog does changes nothing stored.
LEMMA DialogChanges ==
    ASSUME CrmInv, dialog' \in Forms,
           UNCHANGED <<recState, tagState, tagRows, field, value, request>>
    PROVE  CrmInv'
BY DEF CrmInv, CrmTypeOK, LoneRequest, CreateStands, PatchStands, Swept, NoOrphanRows, TagsOf,
   ValuesAreOptions, Stored

LEMMA StepCrm == ~CrmOverlap /\ CrmInv /\ [CrmNext]_crmVars => CrmInv'
<1> SUFFICES ASSUME ~CrmOverlap, CrmInv, [CrmNext]_crmVars
             PROVE  CrmInv'
  OBVIOUS
<1>1. ASSUME NEW q \in CrmRequests, NEW r \in Recs, NEW p \in Choices \cup {Empty, Unsent},
             NEW tags \in SUBSET TagIds, CreateReads(q, r, tags, p)
      PROVE  CrmInv'
  BY <1>1, CreateReadsStep DEF Values
<1>2. ASSUME NEW q \in CrmRequests, NEW r \in Recs, NEW p, PatchRecord(q, r, p)
      PROVE  CrmInv'
  BY <1>2, PatchReadsStep DEF PatchRecord, CrmInv, CrmTypeOK
<1>3. ASSUME NEW q \in CrmRequests, NEW r \in Recs, DeleteReads(q, r)
      PROVE  CrmInv'
  <2> DEFINE work == [pc |-> "delete", rec |-> r, swept |-> Swept(r)]
  <2>1. Begin(q, work) /\ UNCHANGED <<recState, tagState, tagRows, field, value, dialog>>
    BY <1>3 DEF DeleteReads
  <2>2. Swept(r) \in [tags : SUBSET TagIds, val : Values]
    BY DEF Swept, TagsOf, CrmInv, CrmTypeOK
  <2>3. work \in Deletions
    BY <2>2 DEF Deletions
  <2>4. /\ request' \in [CrmRequests -> {NoRequest} \cup Writes \cup Deletions \cup Redefinitions]
        /\ request'[q] = work
        /\ \A o \in CrmRequests : o # q => request'[o].pc = "idle"
    BY <2>1, <2>3, BeginAlone DEF CrmInv
  <2>5. CrmTypeOK'
    BY <2>1, <2>4 DEF CrmInv, CrmTypeOK
  <2>6. \A o \in Recs : Swept(o)' = Swept(o)
    BY <2>1 DEF Swept, TagsOf
  <2>7. LoneRequest'
    BY <2>4, <2>6 DEF LoneRequest
  <2> QED
    BY <2>1, <2>5, <2>7 DEF CrmInv, NoOrphanRows, TagsOf, ValuesAreOptions, Stored
<1>4. ASSUME NEW q \in CrmRequests, CreateCommits(q) \/ PatchCommits(q) \/ DeleteCommits(q)
      PROVE  CrmInv'
  BY <1>4, CreateCommitsStep, PatchCommitsStep, DeleteCommitsStep
<1>5. ASSUME NEW q \in CrmRequests, FieldCommits(q)
      PROVE  CrmInv'
  <2>1. /\ Finish(q) /\ UNCHANGED <<recState, tagState, tagRows, value, dialog>>
        /\ field' = IF field.state = "live" THEN request[q].new ELSE field
        /\ request[q].new \in Definitions /\ Stored \subseteq request[q].new.options
    BY <1>5 DEF FieldCommits, CrmInv, CrmTypeOK, LoneRequest, NoRequest, Writes, Deletions,
       Redefinitions
  <2>2. /\ request' \in [CrmRequests -> {NoRequest} \cup Writes \cup Deletions \cup Redefinitions]
        /\ AllIdle'
    BY <1>5, <2>1, FinishAlone DEF CrmInv, FieldCommits
  <2>3. field' \in Definitions /\ Stored \subseteq field'.options
    BY <2>1 DEF CrmInv, CrmTypeOK, ValuesAreOptions
  <2> QED
    BY <2>1, <2>2, <2>3, FieldChanges
<1>6. ASSUME NEW q \in CrmRequests, SaveRecordForm(q)
      PROVE  CrmInv'
  <2>1. dialog.rec \in Recs /\ dialog' \in Forms
    BY <1>6 DEF SaveRecordForm, CrmInv, CrmTypeOK, Forms, Closed
  <2> QED
    BY <1>6, <2>1, PatchReadsStep DEF SaveRecordForm
<1>7. ASSUME NEW q \in CrmRequests, SaveFieldForm(q)
      PROVE  CrmInv'
  <2>1. PICK options \in SUBSET Choices, required \in BOOLEAN, default \in Values :
          FieldReads(q, [field EXCEPT !.options = options, !.required = required,
                           !.default = default])
    BY <1>7 DEF SaveFieldForm, Values
  <2> DEFINE new == [field EXCEPT !.options = options, !.required = required,
                       !.default = default]
             work == [pc |-> "field", new |-> new]
  <2>2. new \in Definitions
    BY <2>1 DEF CrmInv, CrmTypeOK, Definitions, FieldReads
  <2>3. /\ Begin(q, work) /\ UNCHANGED <<recState, tagState, tagRows, field, value>>
        /\ Stored \subseteq new.options /\ dialog' = Closed
    BY <1>7, <2>1 DEF FieldReads, NarrowingOk, SaveFieldForm
  <2> HIDE DEF new
  <2>4. work \in Redefinitions
    BY <2>2 DEF Redefinitions
  <2>5. /\ request' \in [CrmRequests -> {NoRequest} \cup Writes \cup Deletions \cup Redefinitions]
        /\ request'[q] = work
        /\ \A o \in CrmRequests : o # q => request'[o].pc = "idle"
    BY <2>3, <2>4, BeginAlone DEF CrmInv
  <2>6. CrmTypeOK'
    BY <2>3, <2>5 DEF CrmInv, CrmTypeOK, Forms
  <2>7. LoneRequest'
    BY <2>3, <2>5 DEF LoneRequest, Stored
  <2> QED
    BY <2>3, <2>6, <2>7 DEF CrmInv, NoOrphanRows, TagsOf, ValuesAreOptions, Stored
<1>8. ASSUME NEW t \in TagIds, CreateTag(t)
      PROVE  CrmInv'
  <2>1. /\ CrmTypeOK'
        /\ UNCHANGED <<recState, tagRows, field, value, request, dialog>>
    BY <1>8 DEF CreateTag, CrmInv, CrmTypeOK, Life
  <2> QED
    BY <2>1 DEF CrmInv, LoneRequest, CreateStands, PatchStands, Swept, NoOrphanRows, TagsOf,
       ValuesAreOptions, Stored
<1>9. ASSUME NEW t \in TagIds, DeleteTag(t)
      PROVE  CrmInv'
  <2>1. /\ tagState' = [tagState EXCEPT ![t] = "gone"]
        /\ tagRows' = {row \in tagRows : row[2] # t}
        /\ UNCHANGED <<recState, field, value, request>>
    BY <1>9 DEF DeleteTag
  <2>2. dialog' \in Forms
    BY <1>9 DEF DeleteTag, CrmInv, CrmTypeOK, Forms, Closed
  <2>3. CrmTypeOK'
    BY <2>1, <2>2 DEF CrmInv, CrmTypeOK, Life
  <2>4. AllIdle'
    BY <1>9, <2>1 DEF DeleteTag, Quiet, AllIdle
  <2>5. LoneRequest'
    BY <2>4 DEF LoneRequest, AllIdle
  <2> QED
    BY <2>1, <2>3, <2>5 DEF CrmInv, NoOrphanRows, TagsOf, ValuesAreOptions, Stored
<1>10. ASSUME NEW options \in SUBSET Choices, NEW required \in BOOLEAN,
              NEW default \in Choices \cup {Empty}, CreateField(options, required, default)
       PROVE  CrmInv'
  <2>1. /\ AllIdle' /\ UNCHANGED <<recState, tagState, tagRows, value, request, dialog>>
        /\ field' = [state |-> "live", options |-> options, active |-> TRUE,
                     required |-> required, default |-> default]
        /\ field.state = "unborn"
    BY <1>10 DEF CreateField, Quiet, AllIdle
  <2>2. field.options = {}
    BY <2>1 DEF CrmInv, CrmTypeOK, Definitions
  <2>3. field' \in Definitions /\ Stored \subseteq field'.options
    BY <2>1, <2>2 DEF CrmInv, ValuesAreOptions, Definitions, Values, Life
  <2> QED
    BY <2>1, <2>3, FieldChanges DEF CrmInv, CrmTypeOK
<1>11. CASE ToggleField
  <2>1. /\ AllIdle' /\ UNCHANGED <<recState, tagState, tagRows, value, request, dialog>>
        /\ field' = [field EXCEPT !.active = ~@]
    BY <1>11 DEF ToggleField, Quiet, AllIdle
  <2>2. field' \in Definitions /\ field'.options = field.options
    BY <2>1 DEF CrmInv, CrmTypeOK, Definitions
  <2> QED
    BY <2>1, <2>2, FieldChanges DEF CrmInv, CrmTypeOK, ValuesAreOptions
<1>12. CASE DeleteField
  <2>1. /\ AllIdle' /\ UNCHANGED <<recState, tagState, tagRows, value, request, dialog>>
        /\ field' = [NoField EXCEPT !.state = "gone"] /\ Stored = {}
    BY <1>12 DEF DeleteField, Quiet, AllIdle
  <2>2. field' \in Definitions
    BY <2>1 DEF NoField, Definitions, Values, Life
  <2> QED
    BY <2>1, <2>2, FieldChanges DEF CrmInv, CrmTypeOK
<1>13. ASSUME NEW r \in Recs, OpenRecordForm(r)
       PROVE  CrmInv'
  <2>1. dialog' \in Forms
    BY <1>13 DEF OpenRecordForm, Forms, TagsOf, CrmInv, CrmTypeOK, Values
  <2> QED
    BY <1>13, <2>1, DialogChanges DEF OpenRecordForm
<1>14. CASE EditRecordForm
  <2>1. dialog \in [of : {"record"}, rec : Recs, tags : SUBSET TagIds, val : Values \cup {Unsent}]
    BY <1>14 DEF EditRecordForm, CrmInv, CrmTypeOK, Forms, Closed
  <2>2. PickTag => dialog' \in Forms
    BY <2>1 DEF PickTag, LiveTags, Forms
  <2>3. SetValue => dialog' \in Forms
    BY <2>1 DEF SetValue, FormValues, Forms, Values, CrmInv, CrmTypeOK, Definitions
  <2> QED
    BY <1>14, <2>2, <2>3, DialogChanges DEF EditRecordForm
<1>15. CASE OpenFieldForm
  <2>1. dialog' \in Forms
    BY <1>15 DEF OpenFieldForm, Forms, CrmInv, CrmTypeOK, Definitions
  <2> QED
    BY <1>15, <2>1, DialogChanges DEF OpenFieldForm
<1>16. CASE UNCHANGED crmVars
  BY <1>16, DialogChanges DEF crmVars, CrmInv, CrmTypeOK
<1> QED
  BY <1>1, <1>2, <1>3, <1>4, <1>5, <1>6, <1>7, <1>8, <1>9, <1>10, <1>11, <1>12, <1>13, <1>14,
     <1>15, <1>16 DEF CrmNext

\* Only the commit of a request touches a record or its value.
LEMMA ValueWriters ==
    ASSUME [CrmNext]_crmVars
    PROVE  \/ value' = value /\ recState' = recState
           \/ \E q \in CrmRequests : CreateCommits(q) \/ PatchCommits(q) \/ DeleteCommits(q)
<1>1. ASSUME NEW q \in CrmRequests
      PROVE  /\ \A r, p, tags : CreateReads(q, r, tags, p) => value' = value /\ recState' = recState
             /\ \A r, p, tags : PatchReads(q, r, tags, p) => value' = value /\ recState' = recState
             /\ \A r : DeleteReads(q, r) => value' = value /\ recState' = recState
             /\ FieldCommits(q) => value' = value /\ recState' = recState
             /\ \A new : FieldReads(q, new) => value' = value /\ recState' = recState
  BY DEF CreateReads, PatchReads, DeleteReads, FieldCommits, FieldReads
<1>2. ASSUME NEW q \in CrmRequests
      PROVE  /\ \A r, p : PatchRecord(q, r, p) => value' = value /\ recState' = recState
             /\ SaveRecordForm(q) => value' = value /\ recState' = recState
             /\ SaveFieldForm(q) => value' = value /\ recState' = recState
  BY <1>1 DEF PatchRecord, SaveRecordForm, SaveFieldForm
<1>3. /\ \A t : CreateTag(t) \/ DeleteTag(t) => value' = value /\ recState' = recState
      /\ \A o, r, d : CreateField(o, r, d) => value' = value /\ recState' = recState
      /\ ToggleField \/ DeleteField => value' = value /\ recState' = recState
      /\ \A r : OpenRecordForm(r) => value' = value /\ recState' = recState
      /\ EditRecordForm \/ OpenFieldForm => value' = value /\ recState' = recState
  BY DEF CreateTag, DeleteTag, CreateField, ToggleField, DeleteField, OpenRecordForm,
     EditRecordForm, OpenFieldForm
<1> QED
  BY <1>1, <1>2, <1>3 DEF CrmNext, crmVars

\* An inactive field's values stand; a field that is to be filled is.
LEMMA InactiveStep ==
    ASSUME ~CrmOverlap, CrmInv, [CrmNext]_crmVars, NEW r \in Recs, recState[r] = "live",
           recState'[r] = "live", field.state = "live", ~field.active
    PROVE  value'[r] = value[r]
<1>1. CASE value' = value
  BY <1>1
<1>2. ASSUME NEW q \in CrmRequests, CreateCommits(q)
      PROVE  value'[r] = value[r]
  BY <1>2, CreateCommitsStep
<1>3. ASSUME NEW q \in CrmRequests, PatchCommits(q)
      PROVE  value'[r] = value[r]
  BY <1>3, PatchCommitsStep
<1>4. ASSUME NEW q \in CrmRequests, DeleteCommits(q)
      PROVE  value'[r] = value[r]
  BY <1>4, DeleteCommitsStep
<1> QED
  BY <1>1, <1>2, <1>3, <1>4, ValueWriters

LEMMA RequiredStep ==
    ASSUME ~CrmOverlap, CrmInv, [CrmNext]_crmVars, NEW r \in Recs, recState[r] = "unborn",
           recState'[r] = "live", value'[r] = Empty
    PROVE  ~field.active \/ ~field.required \/ field.default # Empty
<1>1. CASE recState' = recState
  BY <1>1
<1>2. ASSUME NEW q \in CrmRequests, CreateCommits(q)
      PROVE  ~field.active \/ ~field.required \/ field.default # Empty
  BY <1>2, CreateCommitsStep
<1>3. ASSUME NEW q \in CrmRequests, PatchCommits(q)
      PROVE  FALSE
  BY <1>3, PatchCommitsStep
<1>4. ASSUME NEW q \in CrmRequests, DeleteCommits(q)
      PROVE  FALSE
  BY <1>4, DeleteCommitsStep
<1> QED
  BY <1>1, <1>2, <1>3, <1>4, ValueWriters

\* While requests do not overlap: tags and values live and die with the record
\* no foreign key ties them to, each value is an option of its field, none is
\* changed under an inactive field, and no record appears without a required
\* one (lib/customFields.ts, lib/tags.ts, the routes of the three entities).
THEOREM RowsConsistent == ~CrmOverlap => (CrmSpec => AttachedRowsConsistent)
<1> SUFFICES ASSUME ~CrmOverlap
             PROVE  CrmSpec => AttachedRowsConsistent
  OBVIOUS
<1>1. CrmInv /\ [CrmNext]_crmVars => CrmInv'
  BY StepCrm
<1>2. CrmInv => NoOrphanRows /\ ValuesAreOptions
  BY DEF CrmInv
<1>3. CrmInv /\ [CrmNext]_crmVars =>
        [\A r \in Recs : recState'[r] = "live" /\ recState[r] = "live"
           /\ field.state = "live" /\ ~field.active => value'[r] = value[r]]_crmVars
  BY InactiveStep
<1>4. CrmInv /\ [CrmNext]_crmVars =>
        [\A r \in Recs : recState[r] = "unborn" /\ recState'[r] = "live" /\ value'[r] = Empty
           => ~field.active \/ ~field.required \/ field.default # Empty]_crmVars
  BY RequiredStep
<1> QED
  BY InitCrm, <1>1, <1>2, <1>3, <1>4, PTL
     DEF CrmSpec, AttachedRowsConsistent, InactiveKept, RequiredFilled
=============================================================================
