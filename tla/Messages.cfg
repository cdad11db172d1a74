SPECIFICATION Spec
CONSTANTS
  Services <- MCServices
  Gateway = "gateway"
  Calls <- MCCalls
  requestContext <- MCRequestContext
  filter <- MCFilter
  Explicit <- MCExplicit
  Errors <- MCErrors
  MaxTasks = 4
INVARIANTS
  NoForeignContext
  ContextReachesChain
  ErrorArrives
CHECK_DEADLOCK FALSE
