SPECIFICATION Spec
CONSTANTS
  Services <- MCServices
  Versions <- MCVersions
  Deployed <- MCDeployed
  StreamNames <- MCStreamNames
  Defaults <- MCDefaults
  MaxFaults = 0
  MaxDeploys = 0
INVARIANT
  NoFieldLost
CHECK_DEADLOCK FALSE
