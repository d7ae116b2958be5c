\* Two requests on one thread, three configurations, under fairness.
SPECIFICATION FairSpec
CONSTANTS
  r1 = r1
  r2 = r2
  read = read
  sql = sql
  s1 = s1
  s2 = s2
  None = None
  Requests = {r1, r2}
  Workers = {w1}
  Grants = {read, sql}
  Statements = {s1, s2}
  Configs <- AllConfigs
  IncludeSql = {r1}
INVARIANTS TypeOK OnlyVettedStatementsRun SessionsOwned AnswerAfterWork AuditMatchesAnswer
PROPERTIES ImplementsContract NoWorkAfterAnswer EveryRequestEnds ThreadsComeBack
CHECK_DEADLOCK FALSE
