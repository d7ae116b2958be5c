\* The default instance beside one whose name begins with its own.
SPECIFICATION Spec
CONSTANTS
  DefaultName = dataagent
  Instances = {dataagent, dashed}
  Dashed = {dashed}
  MaxVersion = 3
  Builds = {b1}
  Keep = 1
  Operators = {o1}
  Cleaners = {o1}
  Mortal = {"publish", "cleanup"}
  None = None
PROPERTIES ReleasesInUseStay
CHECK_DEADLOCK FALSE
