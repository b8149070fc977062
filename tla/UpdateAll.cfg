SPECIFICATION FairSpec
CONSTANTS
  shipped = shipped
  other = other
  core = core
  extra = extra
  host = host
  org = org
  mirror = mirror
  Keys = {shipped, other}
  Images = {core, extra}
  Parts = {host, org, mirror}
  MaxVersion = 2
  Releases = {1, 2}
  Embedded <- MCEmbedded
  Users <- MCUsers
  Registries = {mirror}
  None = None
  NoData = NoData
  Edited = Edited
  Asked <- MCAsked
  Wanted <- MCWanted
  EnvOps = {"configure", "setRegistry", "editConfigMap", "editProvider", "deleteProvider", "restart", "upgrade", "apiError"}
  MaxOps = 2
CHECK_DEADLOCK FALSE
INVARIANTS TypeOK OverridesWin
PROPERTIES InstallsOwnRelease ConfigConverges VersionSettles ProviderDeletionCompletes PinKept
