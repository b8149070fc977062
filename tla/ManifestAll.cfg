SPECIFICATION FairSpec
CONSTANTS
  Last = 3
  Namespace = 2
  Inside = {3}
  AgentTLSMode = TRUE
  DefaultMode = "system-store"
  InsecureSkipVerify = FALSE
  Settings <- MCSettings
  FleetDisabled = FALSE
  EnvOps = {"apiError", "cleanup", "deleteObject", "fleetReturns", "settings", "restart"}
  MaxOps = 2
CHECK_DEADLOCK FALSE
INVARIANTS TypeOK
PROPERTIES CleanupRespected AgentComesUp MigrationEarned
