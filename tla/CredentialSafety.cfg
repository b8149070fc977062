SPECIFICATION Spec
CONSTANTS
  EnvOps = {"delete", "recreate", "rotate", "driver", "uninstall", "install", "degrade", "foreign", "restart", "apiError"}
  MaxOps = 4
  Keys = {1, 2}
CHECK_DEADLOCK FALSE
INVARIANTS TypeOK NoOrphans
PROPERTIES ImplementsMirror ForeignKept RefIsBacked
