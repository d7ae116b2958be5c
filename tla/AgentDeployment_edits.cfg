\* Two agents, two runs at a time, of one agent or of both, failing anywhere.
SPECIFICATION Spec
CONSTANTS
  n1 = n1
  n2 = n2
  u1 = u1
  u2 = u2
  t1 = t1
  t2 = t2
  Empty = Empty
  External = External
  None = None
  Agents = {a1, a2}
  Runs = {r1, r2}
  Names = {n1, n2}
  Strings = {u1, u2}
  Targets = {t1, t2}
  Plans <- EditedPlans
  MaxSecrets = 3
  MaxBegun = 4
INVARIANTS TypeOK CompletedServes
PROPERTIES SecretLostByRenameOnly
SYMMETRY Same
CHECK_DEADLOCK FALSE
