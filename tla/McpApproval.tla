----------------------------- MODULE McpApproval -----------------------------
(* The MCP endpoint: a stateless POST authenticates an API token, registers  *)
(* the tools its scopes cover and runs one tool call. A destructive tool is  *)
(* gated twice: called bare it issues an approval bound to the token, the    *)
(* tool and the arguments; called again with the approval it reads the row,  *)
(* marks it used and only then deletes. Calls overlap at every await.        *)
(* Bounds: the sets of tokens, ids, approvals and concurrent calls, and      *)
(* MaxMcpFaults failed statements or process deaths.                         *)
EXTENDS Naturals, FiniteSets

CONSTANTS ApiTokens,     \* rows of ApiToken
          McpIds,        \* argument `id` of a tool call
          ApprovalIds,   \* the random appr_ ids, none of them reused
          McpCalls,      \* requests one process serves at a time
          NoApproval,    \* a call without confirmationToken
          McpKinds,      \* kinds of record the tools act on
          ScopeSets,     \* scopes a user grants to a new token
          MaxMcpFaults

Scopes == {"read", "write", "delete"}

ASSUME McpAssumption == /\ NoApproval \notin ApprovalIds
                        /\ ScopeSets \subseteq SUBSET Scopes
                        /\ MaxMcpFaults \in Nat

VARIABLES apiToken, approval, mcpRows, mcpCall, audit, mcpFaults

mcpVars == <<apiToken, approval, mcpRows, mcpCall, audit, mcpFaults>>

\* A tool is a verb on a kind of record; the verb's scope gates its registration.
ReadTools == [verb : {"get"}, of : McpKinds]
WriteTools == [verb : {"create", "update"}, of : McpKinds]
DeleteTools == [verb : {"delete"}, of : McpKinds]
McpTools == ReadTools \cup WriteTools \cup DeleteTools
ScopeOf == [get |-> "read", create |-> "write", update |-> "write", delete |-> "delete"]
Destructive(tool) == tool.verb = "delete"

McpIdle == [pc |-> "idle"]

\* An approval and a call as they are kept once they exist.
Approvals == [state : {"fresh", "expired", "old", "purged"}, token : ApiTokens,
              tool : McpTools, id : McpIds, consumed : BOOLEAN]
Running == [pc : {"issue", "check", "consume", "handler", "audit"}, token : ApiTokens,
            tool : McpTools, id : McpIds, shown : ApprovalIds \cup {NoApproval},
            outcome : {"none", "approval_required", "error", "success", "approval_consumed"}]

McpTypeOK ==
  /\ apiToken \in [ApiTokens -> [state : {"absent", "live", "ended"}, scopes : SUBSET Scopes]]
  /\ approval \in [ApprovalIds -> Approvals \cup [state : {"unused"}]]
  /\ mcpRows \in [McpKinds -> [McpIds -> {"unborn", "live", "gone"}]]
  /\ mcpCall \in [McpCalls -> Running \cup {McpIdle}]
  /\ audit \subseteq [of : McpKinds, id : McpIds]
  /\ mcpFaults \in 0..MaxMcpFaults

McpInit ==
  /\ apiToken = [t \in ApiTokens |-> [state |-> "absent", scopes |-> {}]]
  /\ approval = [a \in ApprovalIds |-> [state |-> "unused"]]
  /\ mcpRows = [k \in McpKinds |-> [i \in McpIds |-> "unborn"]]
  /\ mcpCall = [c \in McpCalls |-> McpIdle]
  /\ audit = {}
  /\ mcpFaults = 0

------------------------------------------------------------------------------
(* Tokens: issued and revoked from a browser session, expired by the clock.  *)

IssueToken(t) ==
  /\ apiToken[t].state = "absent"
  /\ \E scopes \in ScopeSets :
       apiToken' = [apiToken EXCEPT ![t] = [state |-> "live", scopes |-> scopes]]
  /\ UNCHANGED <<approval, mcpRows, mcpCall, audit, mcpFaults>>

\* revokedAt is set, or expiresAt passes: both end in the same refusal.
EndToken(t) ==
  /\ apiToken[t].state = "live"
  /\ apiToken' = [apiToken EXCEPT ![t].state = "ended"]
  /\ UNCHANGED <<approval, mcpRows, mcpCall, audit, mcpFaults>>

------------------------------------------------------------------------------
(* A call.                                                                   *)

Registered(t) == {tool \in McpTools : ScopeOf[tool.verb] \in apiToken[t].scopes}

\* authenticateApiToken reads the token row once; the call then runs on it.
PostCall(c) ==
  /\ mcpCall[c].pc = "idle"
  /\ \E t \in ApiTokens, i \in McpIds, shown \in ApprovalIds \cup {NoApproval} :
       /\ apiToken[t].state = "live"
       /\ shown # NoApproval => approval[shown].state # "unused"
       /\ \E tool \in Registered(t) :
            mcpCall' = [mcpCall EXCEPT ![c] =
              [pc |-> IF ~Destructive(tool) THEN "handler"
                      ELSE IF shown = NoApproval THEN "issue" ELSE "check",
               token |-> t, tool |-> tool, id |-> i, outcome |-> "none",
               shown |-> IF Destructive(tool) THEN shown ELSE NoApproval]]
  /\ UNCHANGED <<apiToken, approval, mcpRows, audit, mcpFaults>>

Answer(c, outcome) == [mcpCall EXCEPT ![c].pc = "audit", ![c].outcome = outcome]

\* The tokenId, the tool and the fingerprint of its arguments are the binding.
IssueApproval(c) ==
  /\ mcpCall[c].pc = "issue"
  /\ \E a \in ApprovalIds :
       /\ approval[a].state = "unused"
       /\ approval' = [approval EXCEPT ![a] =
            [state |-> "fresh", token |-> mcpCall[c].token,
             tool |-> mcpCall[c].tool, id |-> mcpCall[c].id, consumed |-> FALSE]]
       /\ mcpCall' = [mcpCall EXCEPT ![c].pc = "audit",
                        ![c].outcome = "approval_required", ![c].shown = a]
  /\ UNCHANGED <<apiToken, mcpRows, audit, mcpFaults>>

\* Mutant: the fingerprint of the arguments is not compared.
Acceptable_ToolOnly(a, c) == /\ approval[a].state = "fresh"
                             /\ approval[a].tool = mcpCall[c].tool
                             /\ ~approval[a].consumed

Matches(a, c) == /\ approval[a].token = mcpCall[c].token
                 /\ approval[a].tool = mcpCall[c].tool
                 /\ approval[a].id = mcpCall[c].id

\* The read of consumeApproval: the verdict rests on the row as it is now.
Acceptable(a, c) == /\ approval[a].state = "fresh"
                    /\ Matches(a, c)
                    /\ ~approval[a].consumed

CheckApproval(c) ==
  /\ mcpCall[c].pc = "check"
  /\ mcpCall' = IF Acceptable(mcpCall[c].shown, c)
                THEN [mcpCall EXCEPT ![c].pc = "consume"]
                ELSE Answer(c, "error")
  /\ UNCHANGED <<apiToken, approval, mcpRows, audit, mcpFaults>>

\* Its update names the row by id alone; a row purged meanwhile is an error.
ConsumeApproval(c) ==
  LET a == mcpCall[c].shown
  IN /\ mcpCall[c].pc = "consume"
     /\ IF approval[a].state = "purged"
        THEN /\ mcpCall' = Answer(c, "error")
             /\ UNCHANGED approval
        ELSE /\ mcpCall' = [mcpCall EXCEPT ![c].pc = "handler"]
             /\ approval' = [approval EXCEPT ![a].consumed = TRUE]
     /\ UNCHANGED <<apiToken, mcpRows, audit, mcpFaults>>

\* Mutant: every tool that ran is logged alike.
Served_Plain(c) == "success"

Served(c) == IF Destructive(mcpCall[c].tool) THEN "approval_consumed" ELSE "success"

\* A tool's service, on the rows as they are now.
Serves(c, verb, state) ==
  LET k == mcpCall[c].tool.of
      i == mcpCall[c].id
  IN /\ mcpCall[c].pc = "handler"
     /\ mcpCall[c].tool.verb = verb /\ mcpRows[k][i] = state

RowBecomes(c, state) ==
  mcpRows' = [mcpRows EXCEPT ![mcpCall[c].tool.of][mcpCall[c].id] = state]

ServeGet(c) == /\ Serves(c, "get", "live")
               /\ UNCHANGED mcpRows

ServeUpdate(c) == /\ Serves(c, "update", "live")
                  /\ UNCHANGED mcpRows

ServeCreate(c) == /\ Serves(c, "create", "unborn")
                  /\ RowBecomes(c, "live")

ServeDelete(c) == /\ Serves(c, "delete", "live")
                  /\ RowBecomes(c, "gone")

RunTool(c) ==
  /\ ServeGet(c) \/ ServeUpdate(c) \/ ServeCreate(c) \/ ServeDelete(c)
  /\ mcpCall' = Answer(c, Served(c))
  /\ UNCHANGED <<apiToken, approval, audit, mcpFaults>>

\* A row that is not there: the service throws a 404.
ServeMissing(c) ==
  /\ \E verb \in {"get", "update", "delete"}, state \in {"unborn", "gone"} : Serves(c, verb, state)
  /\ mcpCall' = Answer(c, "error")
  /\ UNCHANGED <<apiToken, approval, mcpRows, audit, mcpFaults>>

\* The service throws before its commit, or after it (a create that fails to
\* write its activity, or to build its answer): both are audited as an error.
ToolThrows(c) ==
  /\ mcpCall[c].pc = "handler" /\ mcpFaults < MaxMcpFaults
  /\ mcpFaults' = mcpFaults + 1
  /\ mcpCall' = Answer(c, "error")
  /\ \/ UNCHANGED mcpRows
     \/ ServeCreate(c)
  /\ UNCHANGED <<apiToken, approval, audit>>

\* Of the log only the rows of approved runs are kept: the others (issued,
\* refused, thrown, and every call that is not destructive) explain no change.
AuditRow(c) == [of |-> mcpCall[c].tool.of, id |-> mcpCall[c].id]

RecordAudit(c) ==
  /\ mcpCall[c].pc = "audit"
  /\ \/ /\ audit' = audit \cup {r \in {AuditRow(c)} :
                                  mcpCall[c].outcome = "approval_consumed"}
        /\ UNCHANGED mcpFaults
     \/ /\ mcpFaults < MaxMcpFaults       \* the insert fails: logged and swallowed
        /\ mcpFaults' = mcpFaults + 1
        /\ UNCHANGED audit
  /\ mcpCall' = [mcpCall EXCEPT ![c] = McpIdle]
  /\ UNCHANGED <<apiToken, approval, mcpRows>>

------------------------------------------------------------------------------
(* The clock, the purge and the process.                                     *)

\* Five minutes make an approval expired; another day makes it old.
AgeApproval(a) ==
  /\ approval[a].state \in {"fresh", "expired"}
  /\ approval' = [approval EXCEPT ![a].state =
       IF approval[a].state = "fresh" THEN "expired" ELSE "old"]
  /\ UNCHANGED <<apiToken, mcpRows, mcpCall, audit, mcpFaults>>

\* maybePurgeApprovals, started without a wait by any authenticated call.
Purgeable == {a \in ApprovalIds : approval[a].state = "old"}

PurgeApprovals ==
  /\ Purgeable # {}
  /\ approval' = [a \in ApprovalIds |-> IF a \in Purgeable
                    THEN [approval[a] EXCEPT !.state = "purged"] ELSE approval[a]]
  /\ UNCHANGED <<apiToken, mcpRows, mcpCall, audit, mcpFaults>>

McpCrash ==
  /\ mcpFaults < MaxMcpFaults
  /\ mcpFaults' = mcpFaults + 1
  /\ mcpCall' = [c \in McpCalls |-> McpIdle]
  /\ UNCHANGED <<apiToken, approval, mcpRows, audit>>

McpNext ==
  \/ \E t \in ApiTokens : IssueToken(t) \/ EndToken(t)
  \/ \E c \in McpCalls : \/ PostCall(c) \/ IssueApproval(c) \/ CheckApproval(c)
                         \/ ConsumeApproval(c) \/ RunTool(c) \/ ServeMissing(c) \/ ToolThrows(c)
                         \/ RecordAudit(c)
  \/ \E a \in ApprovalIds : AgeApproval(a)
  \/ PurgeApprovals
  \/ McpCrash

McpSpec == McpInit /\ [][McpNext]_mcpVars

------------------------------------------------------------------------------
(* Properties.                                                               *)

\* Whatever calls overlap, a record disappears only under a call whose       *)
\* approval was issued to the same token, for the same tool and the same     *)
\* argument, and is marked used (server.ts gate, approval.ts binding).
DeletedWasApproved ==
  [][\A k \in McpKinds, i \in McpIds :
       mcpRows[k][i] = "live" /\ mcpRows'[k][i] = "gone" =>
         \E c \in McpCalls :
           /\ mcpCall[c].pc = "handler"
           /\ mcpCall[c].tool = [verb |-> "delete", of |-> k] /\ mcpCall[c].id = i
           /\ Matches(mcpCall[c].shown, c)
           /\ approval[mcpCall[c].shown].consumed]_mcpVars

\* No fault, and no call in flight.
McpQuiet == mcpFaults = 0 /\ \A c \in McpCalls : mcpCall[c].pc = "idle"

\* A record that is gone has the row saying that its approved deletion ran.
GoneIsAudited ==
  \A k \in McpKinds, i \in McpIds : mcpRows[k][i] = "gone" => [of |-> k, id |-> i] \in audit

\* approval.ts says of consumeApproval that "a concurrent second call on the *)
\* same approval id can't both succeed".
ApprovalUsedOnce ==
  \A c, d \in McpCalls :
    c # d /\ mcpCall[c].pc = "handler" /\ mcpCall[d].pc = "handler"
          /\ Destructive(mcpCall[c].tool) => mcpCall[c].shown # mcpCall[d].shown

\* A record that is gone was approved for deletion, and while nothing failed
\* the audit log, read between calls, has it.
DeletionsAccounted == [](McpQuiet => GoneIsAudited) /\ DeletedWasApproved
==============================================================================
