SPECIFICATION Spec
CONSTANTS
  RancherIds = {r1, r2}
  None = None
  EnvOps = {"deleteCapi", "deleteRancher", "restart", "apiError"}
  MaxOps = 2
  ClusterLabels = {"true"}
  NamespaceLabels = {FALSE}
  UseCAAPF = FALSE
  FleetDisabled = FALSE
  Adopted = {}
CHECK_DEADLOCK FALSE
SYMMETRY Symmetry
INVARIANTS HeldOrReleased ReleasedIsNotHeld
PROPERTIES NoReimport ReleaseBeforeDrop
