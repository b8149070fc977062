----------------------------- MODULE ProviderUpdate -----------------------------
(***************************************************************************)
(* How a CAPIProvider follows the clusterctl configuration.                *)
(*                                                                         *)
(* ClusterctlConfigReconciler computes the configuration and applies it to *)
(* a ConfigMap; kubelet mounts the ConfigMap as a file; the phases of      *)
(* CAPIProviderReconciler wait until the file says what they compute       *)
(* themselves (WaitForClusterctlConfigUpdate), choose the version          *)
(* (setLatestVersion) and install from the file.  Users edit all of it     *)
(* meanwhile, and turtles is restarted or upgraded.                        *)
(***************************************************************************)
EXTENDS ClusterctlConfig

CONSTANTS
  Asked,    \* providers users create: key, version and automatic updates
  Wanted,   \* versions users ask for later
  EnvOps,   \* what users and faults may do
  MaxOps    \* bound on the number of EnvOps steps in a behaviour

\* The ConfigMap of the chart has no data, and then there is no file; users may
\* write anything into it.
CONSTANTS NoData, Edited

ASSUME ProviderUpdateAssumption ==
  /\ Asked \subseteq [key : Keys, version : Versions \cup {Unset}, auto : BOOLEAN]
  /\ Wanted \subseteq Versions \cup {Unset}
  /\ MaxOps \in Nat

VARIABLES
  release,      \* of the turtles that runs
  user,         \* the ClusterctlConfig on the API server
  setting,      \* system-default-registry on the API server
  settingCache, \* the informer's copy of it
  configMap,    \* clusterctl.yaml in the ConfigMap on the API server
  file,         \* clusterctl.yaml in the container
  queued,       \* the request in the ClusterctlConfig workqueue
  computed,     \* the configuration about to be applied
  provider,     \* the CAPIProvider on the API server
  pc,           \* what its reconciler does next
  p, base,      \* r.Provider, and as it was read
  mounted,      \* the file as it was read
  installed,    \* the configuration the components were installed from
  ops           \* EnvOps steps so far

inputs == <<release, user, setting, settingCache>>
syncer == <<queued, computed>>
local == <<pc, p, base, mounted>>
vars == <<release, user, setting, settingCache, configMap, file, queued,
          computed, provider, pc, p, base, mounted, installed, ops>>

Settings == Registries \cup {"", None}

\* What ClusterConfig computes where it returns no error, and from what.
Computable == {x \in Releases \X (Users \cup {None}) \X Settings :
                 ~ConfigFails(x[1], x[3])}
Computations == {[from |-> x, config |-> ClusterConfig(x[1], x[2], x[3])] :
                   x \in Computable}
ConfigOf(r, u, value) ==
  (CHOOSE c \in Computations : c.from = <<r, u, value>>).config
Contents == Configurations \cup {NoData, Edited}

\* The CheckLatestVersionTime condition, by its reason.
Reasons == {"", "ProviderUnknown", "LatestVersionSet", "UpdateAvailable",
            "VersionUpdated"}

Provider == [ex : BOOLEAN, del : BOOLEAN, fin : BOOLEAN, key : Keys,
             version : Versions \cup {Unset}, auto : BOOLEAN, check : Reasons]

Steps == {"idle", "readFile", "wait", "setSpec", "install", "delete", "patch"}

TypeOK ==
  /\ release \in Releases
  /\ user \in Users \cup {None}
  /\ setting \in Settings
  /\ settingCache \in Settings
  /\ configMap \in Contents \cup {None}
  /\ file \in Contents
  /\ queued \in BOOLEAN
  /\ computed \in Configurations \cup {None}
  /\ provider \in Provider
  /\ pc \in Steps
  /\ p \in Provider
  /\ base \in Provider
  /\ mounted \in Contents
  /\ installed \in Contents \cup {None}
  /\ ops \in 0..MaxOps

-----------------------------------------------------------------------------
Env(op) == op \in EnvOps /\ ops < MaxOps /\ ops' = ops + 1

\* What ClusterConfig returns.  The ClusterctlConfig is read live and the
\* setting, which comes from the cache, at the same moment.
Fails == ConfigFails(release, settingCache)
Config == ConfigOf(release, user, settingCache)

-----------------------------------------------------------------------------
(***************************************************************************)
(* ClusterctlConfigReconciler.                                             *)
(***************************************************************************)

\* Every edit of the ClusterctlConfig or the ConfigMap queues the request; there
\* is no watch on the setting.  The cache replays what exists each syncPeriod.
Watched == user # None \/ configMap # None
Resync ==
  /\ ~queued
  /\ Watched
  /\ queued' = TRUE
  /\ UNCHANGED <<inputs, configMap, file, computed, provider, local, installed,
                 ops>>

DeliverSetting ==
  /\ settingCache # setting
  /\ settingCache' = setting
  /\ UNCHANGED <<release, user, setting, configMap, file, syncer, provider,
                 local, installed, ops>>

\* SyncConfigMap up to the Apply.  An error here leaves the request queued, which
\* is a stuttering step.
Compute ==
  /\ queued
  /\ computed = None
  /\ ~Fails
  /\ queued' = FALSE
  /\ computed' = Config
  /\ UNCHANGED <<inputs, configMap, file, provider, local, installed, ops>>

\* ForceOwnership: whatever the ConfigMap says is replaced.
AppliedOnce == IF configMap \in {None, NoData} THEN computed ELSE configMap
Applied == computed
Apply ==
  /\ computed # None
  /\ \/ /\ configMap' = Applied
        /\ queued' = (queued \/ configMap' # configMap)
        /\ UNCHANGED ops
     \/ Env("apiError") /\ queued' = TRUE /\ UNCHANGED configMap
  /\ computed' = None
  /\ UNCHANGED <<inputs, file, provider, local, installed>>

\* kubelet.  The file of a ConfigMap that was deleted stays.
Mount ==
  /\ configMap # None
  /\ file # configMap
  /\ file' = configMap
  /\ UNCHANGED <<inputs, configMap, syncer, provider, local, installed, ops>>

-----------------------------------------------------------------------------
(***************************************************************************)
(* CAPIProviderReconciler.  Events, requeues and the resync period start   *)
(* it again and again.  Its patch names no version, so that what others    *)
(* write before it starts and what they write while it runs makes no       *)
(* difference to it: the provider is read live.                            *)
(***************************************************************************)
NoProvider(k) == [ex |-> FALSE, del |-> FALSE, fin |-> FALSE, key |-> k,
                  version |-> Unset, auto |-> FALSE, check |-> ""]
Rest == NoProvider(provider.key)

Return ==
  /\ pc' = "idle"
  /\ p' = Rest /\ base' = Rest /\ mounted' = NoData

\* Reconcile adds the finalizer in a round of its own.
AddFinalizer ==
  /\ pc = "idle"
  /\ provider.ex /\ ~provider.fin /\ ~provider.del
  /\ provider' = [provider EXCEPT !.fin = TRUE]
  /\ UNCHANGED <<inputs, configMap, file, syncer, local, installed, ops>>

Start ==
  /\ pc = "idle"
  /\ provider.ex
  /\ provider.fin \/ provider.del
  /\ pc' = "readFile"
  /\ p' = provider
  /\ base' = provider
  /\ UNCHANGED <<inputs, configMap, file, syncer, provider, mounted, installed,
                 ops>>

\* WaitForClusterctlConfigUpdate, up to the read of the file.
ReadFile ==
  /\ pc = "readFile"
  /\ IF file = NoData THEN Return
                      ELSE mounted' = file /\ pc' = "wait" /\ UNCHANGED <<p, base>>
  /\ UNCHANGED <<inputs, configMap, file, syncer, provider, installed, ops>>

\* The comparison.  A difference and an error both end the reconcile.  The
\* phases of a deletion begin with the same wait.
SyncedWithAny == ~Fails
SyncedWithEmbedded == ~Fails /\ mounted = ConfigOf(release, None, settingCache)
Synced == ~Fails /\ mounted = Config
Wait ==
  /\ pc = "wait"
  /\ \/ /\ Synced
        /\ pc' = IF base.del THEN "delete" ELSE "setSpec"
        /\ UNCHANGED <<p, base, mounted, ops>>
     \/ ~Synced /\ Return /\ UNCHANGED ops
     \/ Env("apiError") /\ Return
  /\ UNCHANGED <<inputs, configMap, file, syncer, provider, installed>>

\* setLatestVersion.
SetLatestIgnoringAuto(o, version, known) ==
  [o EXCEPT !.check = "VersionUpdated", !.version = version]
SetLatestVersion(o, version, known) ==
  CASE ~known -> [o EXCEPT !.check = "ProviderUnknown"]
    [] known /\ IsLatestVersion(version, o.version) ->
         [o EXCEPT !.check = "LatestVersionSet", !.version = version]
    [] known /\ ~IsLatestVersion(version, o.version) /\ ~o.auto ->
         [o EXCEPT !.check = "UpdateAvailable"]
    [] known /\ ~IsLatestVersion(version, o.version) /\ o.auto ->
         [o EXCEPT !.check = "VersionUpdated", !.version = version]

\* SetProviderSpec computes the configuration anew; an error ends the phases.
Offered == ProviderVersion(Config, p.key)
Chosen == ~Fails /\ ~LatestFails(Offered, p.version)
SetProviderSpec ==
  /\ pc = "setSpec"
  /\ \/ /\ Chosen
        /\ p' = SetLatestVersion(p, Offered, IsKnown(Config, p.key))
        /\ pc' = "install"
        /\ UNCHANGED <<base, mounted, ops>>
     \/ ~Chosen /\ Return /\ UNCHANGED ops
     \/ Env("apiError") /\ Return
  /\ UNCHANGED <<inputs, configMap, file, syncer, provider, installed>>

\* The other phases read the file again.  They install from it, find that there
\* is nothing to do, or fail; the provider is patched all the same.
Install ==
  /\ pc = "install"
  /\ \/ installed' = file
     \/ UNCHANGED installed
  /\ pc' = "patch"
  /\ UNCHANGED <<inputs, configMap, file, syncer, provider, p, base, mounted, ops>>

\* A merge patch of the fields that changed.
Patch ==
  /\ pc = "patch"
  /\ \/ /\ provider' = [provider EXCEPT
                !.version = IF p.version = base.version THEN @ ELSE p.version,
                !.check = IF p.check = base.check THEN @ ELSE p.check]
        /\ UNCHANGED ops
     \/ Env("apiError") /\ UNCHANGED provider
  /\ Return
  /\ UNCHANGED <<inputs, configMap, file, syncer, installed>>

\* The components are deleted, and the finalizer goes.  A failure is repeated,
\* which is a stuttering step.
Delete ==
  /\ pc = "delete"
  /\ installed' = None
  /\ provider' = Rest
  /\ Return
  /\ UNCHANGED <<inputs, configMap, file, syncer, ops>>

ProviderStep ==
  AddFinalizer \/ Start \/ ReadFile \/ Wait \/ SetProviderSpec \/ Install
  \/ Patch \/ Delete

-----------------------------------------------------------------------------
(***************************************************************************)
(* Users, Rancher and Helm.                                                *)
(***************************************************************************)
Configure ==
  /\ Env("configure")
  /\ user' \in (Users \cup {None}) \ {user}
  /\ queued' = TRUE
  /\ UNCHANGED <<release, setting, settingCache, configMap, file, computed,
                 provider, local, installed>>

SetRegistry ==
  /\ Env("setRegistry")
  /\ setting' \in Settings \ {setting}
  /\ UNCHANGED <<release, user, settingCache, configMap, file, syncer, provider,
                 local, installed>>

EditConfigMap ==
  /\ Env("editConfigMap")
  /\ configMap' \in {Edited, None} \ {configMap}
  /\ queued' = TRUE
  /\ UNCHANGED <<inputs, file, computed, provider, local, installed>>

EditProvider ==
  /\ Env("editProvider")
  /\ provider.ex
  /\ \E v \in Wanted, a \in BOOLEAN :
       provider' = [provider EXCEPT !.version = v, !.auto = a]
  /\ UNCHANGED <<inputs, configMap, file, syncer, local, installed>>

\* A provider without finalizer is gone at once.
DeleteProvider ==
  /\ Env("deleteProvider")
  /\ provider.ex /\ ~provider.del
  /\ provider' = IF provider.fin THEN [provider EXCEPT !.del = TRUE] ELSE Rest
  /\ UNCHANGED <<inputs, configMap, file, syncer, local, installed>>

\* The manager starts afresh: every object that exists arrives as an event.
StartManager ==
  /\ queued' = (user # None \/ configMap' # None)
  /\ computed' = None
  /\ settingCache' = setting
  /\ Return

Restart ==
  /\ Env("restart")
  /\ UNCHANGED configMap
  /\ StartManager
  /\ UNCHANGED <<release, user, setting, file, provider, installed>>

\* The hook deletes the ConfigMap and the chart creates it without data, unless
\* the old manager was quick enough to apply it once more.  The new container
\* starts with what is in the ConfigMap.
Upgrade ==
  /\ Env("upgrade")
  /\ release' \in Releases \ {release}
  /\ configMap' \in {NoData, IF configMap = None THEN NoData ELSE configMap}
  /\ file' = configMap'
  /\ StartManager
  /\ UNCHANGED <<user, setting, provider, installed>>

-----------------------------------------------------------------------------
\* Turtles was just installed; so was the provider, by the user or a chart.
Init ==
  /\ release \in Releases
  /\ user = None
  /\ setting = "" /\ settingCache = ""
  /\ configMap = NoData /\ file = NoData
  /\ queued = TRUE /\ computed = None
  /\ \E a \in Asked :
       provider = [NoProvider(a.key) EXCEPT !.ex = TRUE, !.version = a.version,
                                            !.auto = a.auto]
  /\ pc = "idle" /\ p = Rest /\ base = Rest /\ mounted = NoData
  /\ installed = None
  /\ ops = 0

Next ==
  \/ Resync \/ DeliverSetting \/ Compute \/ Apply \/ Mount
  \/ ProviderStep
  \/ Configure \/ SetRegistry \/ EditConfigMap \/ EditProvider \/ DeleteProvider
  \/ Restart \/ Upgrade

Spec == Init /\ [][Next]_vars

\* Informers, workers and kubelet keep running.
Fairness ==
  /\ WF_vars(Resync) /\ WF_vars(DeliverSetting)
  /\ WF_vars(Compute) /\ WF_vars(Apply)
  /\ WF_vars(Mount)
  /\ WF_vars(ProviderStep)

FairSpec == Spec /\ Fairness

-----------------------------------------------------------------------------
(***************************************************************************)
(* Properties.                                                             *)
(***************************************************************************)

\* What ClusterConfig computes, against what it is for: the user's last word on
\* a provider turtles ships, and the first on any other, is the version in
\* force, the user's image is the image pulled, and every other image comes from
\* the default registry if there is one (ClusterConfig, GetProviderVersion).
Version(ps, i) == ps[i].version
OverridesWin == ~Fails =>
  LET embedded == Embedded[release]
      mine == IF user = None THEN NoOverrides ELSE user IN
  /\ \A k \in Keys :
       LET ours == Listed(embedded.providers, k)
           theirs == Listed(mine.providers, k) IN
       ProviderVersion(Config, k) =
         CASE theirs # {} /\ ours # {} -> Version(mine.providers, Last(theirs))
           [] theirs # {} /\ ours = {} -> Version(mine.providers, First(theirs))
           [] theirs = {} /\ ours # {} -> Version(embedded.providers, First(ours))
           [] OTHER -> Latest
  /\ \A m \in Images :
       LET image == Config.images[m] IN
       IF mine.images[m] # Unlisted THEN image = mine.images[m]
       ELSE /\ image = Unlisted <=> embedded.images[m] = Unlisted
            /\ embedded.useDefaultRegistry /\ settingCache \in Registries
                 => image = Unlisted \/ Head(image) = settingCache

\* Components are never installed from the configuration of another release: a
\* file left from before an upgrade, or applied by the old manager during it,
\* is caught by the wait.  What users write into the ConfigMap themselves may
\* still be mounted after the wait (WaitForClusterctlConfigUpdate).
OfRelease(content) ==
  \E c \in Computations : c.from[1] = release /\ c.config = content
InstallsOwnRelease ==
  [][installed' # installed /\ installed' # None
       => OfRelease(installed') \/ installed' = Edited]_vars

\* ConfigMap and file end up with the configuration of the release, the user and
\* the setting in force.  The setting is not watched, the ConfigMap may be
\* edited: only the next reconcile repairs it.  Exempt are a setting that is
\* needed and missing, and a ConfigMap deleted while turtles was down and
\* nothing is left to replay (SyncConfigMap, configMapMapper).
NobodyAsks == ~Watched
ConfigConverges ==
  <>[](\/ ConfigFails(release, setting)
       \/ NobodyAsks
       \/ ~Fails /\ configMap = Config /\ file = configMap /\ settingCache = setting)

\* The provider comes to rest with the version the configuration allows: set to
\* it, or left behind it and reported so, as its automatic updates say; an
\* unknown provider keeps its version (setLatestVersion).
Version0 == ProviderVersion(Config, provider.key)
VersionSettled ==
  CASE ~IsKnown(Config, provider.key) -> provider.check = "ProviderUnknown"
    [] OTHER ->
         \/ LatestFails(Version0, provider.version)
         \/ provider.check = "LatestVersionSet" /\ provider.version = Version0
         \/ /\ provider.check = "UpdateAvailable"
            /\ ~provider.auto
            /\ provider.version \notin Semver \/ provider.version < Version0
VersionSettles ==
  <>[](\/ ~provider.ex \/ provider.del
       \/ ConfigFails(release, setting) \/ NobodyAsks
       \/ ~Fails /\ VersionSettled)

\* A deleted provider goes, although its deletion waits for the file as well
\* (DeletePhases).
ProviderDeletionCompletes ==
  []<>(~provider.ex \/ ~provider.del
       \/ ConfigFails(release, setting) \/ NobodyAsks)

\* Without automatic updates turtles never raises the version of a provider above
\* the one it read: it only lowers one beyond the configuration, or hands it to a
\* configuration that names none (setLatestVersion and the patch after it).
PinKept ==
  [][Patch /\ ~base.auto /\ provider'.version # provider.version
       => \/ provider'.version = Latest
          \/ base.version \in Semver /\ provider'.version <= base.version]_vars
=============================================================================
