SPECIFICATION FairSpec
CONSTANTS
  Providers = {p1}
  VariableKeys = {v}
  MappedKeys = {m}
  UserKeys = {u}
  Values = {x1, x2}
  NoKey = NoKey
  Empty = Empty
  Nobody = Nobody
  EnvOps = {"variables", "credentials", "rotate", "lose", "find", "userKey", "create", "delete", "restart", "apiError"}
  MaxOps = 2
CHECK_DEADLOCK FALSE
INVARIANTS TypeOK
PROPERTIES UserKeysKept SourceLossKeepsKeys Converges Settles
