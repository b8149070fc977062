SPECIFICATION FairSpec
CONSTANTS
  EnvOps = {"delete", "recreate", "rotate", "uninstall", "install", "degrade", "foreign", "removeTarget", "restart"}
  MaxOps = 3
  Keys = {1, 2}
CHECK_DEADLOCK FALSE
PROPERTIES KeysFollow DeletionCompletes
