SPECIFICATION Spec
CONSTANTS
  RancherIds = {r1, r2}
  None = None
  EnvOps = {"deleteRancher"}
  MaxOps = 1
  ClusterLabels = {"true"}
  NamespaceLabels = {FALSE}
  UseCAAPF = FALSE
  FleetDisabled = FALSE
  Adopted = {}
CHECK_DEADLOCK FALSE
PROPERTIES DeletionReleases
