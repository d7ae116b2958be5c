\* One deployment at a time, reads may fail.
SPECIFICATION Spec
CONSTANTS
  a1 = a1
  a2 = a2
  b1 = b1
  b2 = b2
  opted = opted
  v1 = v1
  v2 = v2
  t1 = t1
  t2 = t2
  u1 = u1
  older = older
  plain = plain
  other = other
  None = None
  Agents = {a1, a2, b1, b2, opted}
  Vpcs = {v1, v2}
  VpcOf <- AgentVpcs
  RouteTables = {t1, t2, u1}
  TablesOf <- AgentTables
  Access = {plain, other}
  AccessOf <- AgentAccess
  OptedOut = {opted}
  Older = {older}
  OlderIn <- OlderVpcs
  Operators = {o1}
  ReadsMayFail = TRUE
INVARIANTS EndpointsCoverRuntimes
CHECK_DEADLOCK FALSE
