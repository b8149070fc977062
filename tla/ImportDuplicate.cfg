SPECIFICATION Spec
CONSTANTS
  RancherIds = {r1, r2}
  None = None
  EnvOps = {}
  MaxOps = 0
  ClusterLabels = {"true"}
  NamespaceLabels = {FALSE}
  UseCAAPF = FALSE
  FleetDisabled = FALSE
  Adopted = {}
CHECK_DEADLOCK FALSE
INVARIANTS SingleRancherCluster
