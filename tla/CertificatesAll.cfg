SPECIFICATION FairSpec
CONSTANTS
  a = a
  b = b
  x = x
  y = y
  s = s
  t = t
  Certificates = {a, b}
  Issuers = {i}
  LastWebhook = 2
  Services = {s, t}
  Secrets = {x, y}
  Deployments = {d1, d2}
  Manifests <- MCManifests
  None = None
  Unnamed = Unnamed
  EnvOps = {"upgrade", "removeCertificate", "restart", "toggle", "apiError"}
  MaxOps = 4
CHECK_DEADLOCK FALSE
INVARIANTS TypeOK
PROPERTIES ConditionIsEarned ConditionFollowsGate RolloutsEnd WebhooksServed
