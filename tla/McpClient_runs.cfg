\* A smoke test and a run of the CLI with two questions, under fairness.
SPECIFICATION FairSpec
CONSTANTS
  smoke = smoke
  cli = cli
  first = first
  second = second
  None = None
  Clients = {smoke, cli}
  Repl = {cli}
  Tools = {first, second}
  Expected <- ExpectedTools
  Questions = 2
INVARIANTS TypeOK HandshakeFirst PassedWasServed HeldSessionsDeleted
PROPERTIES EveryWaitEnds
CHECK_DEADLOCK FALSE
