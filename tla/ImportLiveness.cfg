SPECIFICATION FairSpec
CONSTANTS
  RancherIds = {r1}
  None = None
  EnvOps = {"deleteCapi", "deleteRancher", "restart", "touchRancher"}
  MaxOps = 3
  ClusterLabels = {"true"}
  NamespaceLabels = {FALSE}
  UseCAAPF = FALSE
  FleetDisabled = FALSE
  Adopted = {}
CHECK_DEADLOCK FALSE
PROPERTIES DependentsDeleted CapiDeletionCompletes RancherDeletionCompletes ImportCompletes
