\* One operator at a time; publish.sh and cleanup may die.
SPECIFICATION Spec
CONSTANTS
  DefaultName = dataagent
  Instances = {dataagent}
  Dashed = {}
  MaxVersion = 4
  Builds = {b1, b2}
  Keep = 1
  Operators = {o1}
  Cleaners = {o1}
  Mortal = {"publish", "cleanup"}
  None = None
INVARIANTS TypeOK ManifestsWhole
PROPERTIES CleanupLeavesReferenced ImplementsRegistry
CHECK_DEADLOCK FALSE
