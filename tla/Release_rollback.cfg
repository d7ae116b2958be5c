\* deploy.sh dies while CloudFormation goes on.
SPECIFICATION Spec
CONSTANTS
  DefaultName = dataagent
  Instances = {dataagent}
  Dashed = {}
  MaxVersion = 3
  Builds = {b1}
  Keep = 1
  Operators = {o1}
  Cleaners = {o1}
  Mortal = {"deploy"}
  None = None
INVARIANTS RuntimeServed
CHECK_DEADLOCK FALSE
