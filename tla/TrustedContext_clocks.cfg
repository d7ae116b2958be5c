\* Two agents of one mode, skewed clocks, one rotation.
SPECIFICATION Spec
CONSTANTS
  cmdb = cmdb
  sales = sales
  human = human
  service = service
  read = read
  sql = sql
  None = None
  Agents = {cmdb, sales}
  Callers = {human, service}
  Claims = {"scp", "roles"}
  Grants = {read, sql}
  TokenGrants <- Tokens
  Accepts <- OneMode
  Required <- NeedGrants
  RequiredScope = read
  Containers = {c1}
  Offsets <- Errors
  Ttl = 3
  Leeway = 1
  MaxTime = 6
  MaxRotations = 1
  MaxFlight = 1
INVARIANTS TypeOK AuthorizedIsFresh FreshIsAccepted RotationRevokes
CHECK_DEADLOCK FALSE
