\* Two agents of different authorization modes.
SPECIFICATION Spec
CONSTANTS
  cmdb = cmdb
  sales = sales
  human = human
  service = service
  read = read
  sql = sql
  None = None
  Agents = {cmdb, sales}
  Callers = {human, service}
  Claims = {"scp", "roles"}
  Grants = {read, sql}
  TokenGrants <- Tokens
  Accepts <- TwoModes
  Required <- NeedGrants
  RequiredScope = read
  Containers = {c1}
  Offsets <- NoError
  Ttl = 3
  Leeway = 1
  MaxTime = 1
  MaxRotations = 0
  MaxFlight = 1
INVARIANTS AuthorizedByOwnClaims
CHECK_DEADLOCK FALSE
