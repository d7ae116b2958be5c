\* Four parameter files with up to two edits, thirteen configurations, two shells.
SPECIFICATION Spec
CONSTANTS
  Files <- EditedTwice
  Configs <- EditedConfigs
  Environments <- Shells
  Seconds <- Durations
INVARIANTS NoHalfDeployment ReplaceStaysOut CheckedIsDeployed
  SecretOfEnvironment FilesAgree
CHECK_DEADLOCK FALSE
