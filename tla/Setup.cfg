SPECIFICATION FairSpec
CONSTANTS
  Services <- MCServices
  Versions <- MCVersions
  Deployed <- MCDeployed
  StreamNames <- MCStreamNames
  Defaults <- MCDefaults
  MaxFaults = 1
  MaxDeploys = 1
INVARIANTS
  NoHandlerHidden
  FieldsKept
  OptionsInForce
PROPERTIES
  PositionKept
  ComesUp
CHECK_DEADLOCK FALSE
