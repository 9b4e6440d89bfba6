SPECIFICATION McpSpec
CONSTANTS
  ApiTokens = {t1}
  McpIds = {1, 2}
  ApprovalIds = {a1}
  McpCalls = {c1, c2}
  NoApproval = NoApproval
  McpKinds = {"deal"}
  ScopeSets = {{"read"}, {"read", "write", "delete"}}
  MaxMcpFaults = 1
INVARIANT
  ApprovalUsedOnce
CHECK_DEADLOCK FALSE
