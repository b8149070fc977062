SPECIFICATION Spec
CONSTANTS
  RancherIds = {r1, r2}
  None = None
  EnvOps = {"deleteCapi", "deleteRancher", "restart", "apiError", "relabel", "annotate", "unannotate", "controlPlane", "touchRancher", "recreateCapi", "relabelNamespace"}
  MaxOps = 2
  ClusterLabels = {"true", "absent"}
  NamespaceLabels = {FALSE}
  UseCAAPF = FALSE
  FleetDisabled = FALSE
  Adopted = {r1}
CHECK_DEADLOCK FALSE
INVARIANTS TypeOK
PROPERTIES FinalizerOutlivesDependents NoLostUpdate HoldUntilDeletion
