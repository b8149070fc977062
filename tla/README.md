# Rancher Turtles in TLA+

Rancher Turtles runs a handful of Kubernetes controllers that connect Cluster
API (CAPI) with Rancher: they import CAPI clusters into Rancher, install CAPI
providers and hand Rancher's cloud credentials to them. This directory holds
TLA+ specifications of those controllers, the TLC configurations that check
them on small instances, and TLAPS proofs of the properties that hold for every
instance.

All controllers share one shape, and so do the modules. Objects live on an API
server that serializes writes; controllers see most kinds through an informer
cache that lags behind; events put names into a workqueue; a `Reconcile` makes
several API calls, and everybody else may run between two of them; the manager
may restart at any point and then knows only what is stored in objects. What is
hard to get right is the order of those calls and what is read from where, and
that is what the modules keep. Payloads are reduced to the few values the
properties tell apart.

## Inventory

| Component | Source | State | Operations | Depends on |
|---|---|---|---|---|
| CAPI cluster import controller | `internal/controllers/import_controller.go`, `util/`, `util/predicates/` | turtles and CAAPF finalizer and the `imported` annotation on the CAPI Cluster; finalizer, annotations and labels on the Rancher cluster; import labels on Cluster and Namespace | Reconcile: finalizer, Create, propagation, manifest, release, deletion of dependents | informer caches, an uncached client, the downstream cluster |
| CAPI cleanup controller | `internal/controllers/cleanup_controller.go` | finalizer on the Rancher cluster | drops it from deleted Rancher clusters | the same objects |
| Credential translation | `internal/controllers/credentialtranslation_controller.go`, `aws_translator.go` | finalizer and identity annotation on a Rancher credential; Secret and `AWSClusterStaticIdentity` in `capa-system` | translate, clean up | the CAPIProvider that owns the namespace |
| Config secret synchronization | `internal/sync/` | `status.variables` and a condition on the CAPIProvider; the config Secret | Get, Sync and Apply of two synchronizers | driven by the operator reconciler |
| CAPIProvider reconciler | `internal/controllers/operator_reconciler.go` | finalizer, spec defaults, phase and conditions of a CAPIProvider | phases of the upstream `GenericProviderReconciler` | `internal/sync`, `internal/provider` |
| Provider defaults and version | `internal/provider/defaults.go` | `spec.version`, a condition | SetProviderSpec | clusterctl configuration |
| Provider certificates | `internal/provider/wrangler.go` | annotations on Services and webhooks, Certificates, Issuers, a condition | convert from and to cert-manager, restart Deployments | a feature gate |
| clusterctl configuration | `internal/controllers/clusterctl/config.go`, `clusterctlconfig_controller.go`, `internal/provider/clusterctlconfig.go` | the ConfigMap and the file it is mounted as | merge of overrides, wait for the mount | kubelet, a Rancher setting |
| UIPlugin controller | `internal/controllers/uiplugin_controller.go` | a UIPlugin in two namespaces | copy, delete | |
| Remote import helpers | `internal/controllers/helpers.go` | registration token; objects on the downstream cluster | download, validate and create the manifest | Rancher, the downstream cluster |
| Manager | `main.go`, `feature/` | flags, caches, workqueues | leader election, resync, restart | |

What makes them correct, and hard:

- **Import**: a labelled Cluster is imported once and completely; a deleted one
  takes its Rancher cluster with it; deleting the Rancher cluster releases the
  Cluster for good; nobody's edits are lost. Two controllers remove the same
  finalizer, lists are stale, three different clients read the same Cluster.
- **Credentials**: nothing translated is left behind, nothing of others is
  touched, rotations arrive. Deletion is several calls, names are reused.
- **Config secret**: two writers and the user share one Secret; their events
  start the next reconcile, so they must converge and come to rest.
- **Certificates**: a conversion is many calls and one condition, which must be
  true when it is saved, and rollouts must end.
- **clusterctl configuration**: a release, a user and a setting each have a say,
  the result travels through a ConfigMap and a mounted file, and providers must
  not be installed from yesterday's; a pinned version stays pinned.
- **Manifest**: tokens and Secrets fill in late, a cleanup of an earlier import may
  still be running downstream, and half a manifest must become a whole one.

Left aside: generated code and schemas (`api/`, `config/`), Rancher's API types
(`api/rancher/`), charts, scripts, samples, and the tests, which were read for
what they expect.

## Modules

| Module | Contents |
|---|---|
| `ClusterImport` | import and cleanup controllers for one CAPI Cluster |
| `MCClusterImport` | TLC instance; symmetry of generated names |
| `ClusterImportProofs` | type correctness and the finalizer's safety |
| `ClusterImportUpdateProofs` | in every environment: no lost update, no Rancher cluster in use is freed |
| `ClusterImportReleaseProofs` | tracking, release, and what a release is worth, while users leave the annotation alone |
| `CredentialMirror` | abstract: what a translation of a credential promises |
| `CredentialTranslation` | the translation controller and the AWS translator for one credential |
| `MCCredentialTranslation` | TLC instance |
| `CredentialTranslationProofs` | type correctness, three safety properties, implementation of `CredentialMirror` |
| `ProviderSecretSync` | the config secret of CAPIProviders and its two writers |
| `MCProviderSecretSync` | TLC instance |
| `ProviderSecretSyncProofs` | type correctness, two safety properties, a secret that is right is left alone |
| `ProviderCertificates` | conversion of a provider between cert-manager and wrangler; the manifest patcher |
| `MCProviderCertificates` | TLC instance; four manifests |
| `ProviderCertificatesProofs` | type correctness, the condition's safety and stability, the patcher |
| `ClusterctlConfig` | operators: the merge of embedded, user's and registry's configuration, and the version it names |
| `ProviderUpdate` | ConfigMap, mounted file, and the phases of a provider that follow them |
| `MCProviderUpdate` | TLC instance; two releases, two users' configurations |
| `ProviderUpdateProofs` | type correctness, the merge of lists of any length, the release installed from, pinned versions, stability |
| `ImportManifest` | the steps of `reconcileNormal` from the registration token to the agent and the Fleet migration |
| `MCImportManifest` | TLC instance; three objects, two settings |
| `ImportManifestProofs` | type correctness, respect for a cleanup, what the migration annotation says |

In every module the environment (users, Rancher, Cluster API, failed calls,
restarts) is a set of actions guarded by `Env(op)`: `EnvOps` selects the kinds
a configuration allows and `MaxOps` bounds how many of their steps a behaviour
has. Steps of the controllers themselves are never bounded.

### ClusterImport

`capi`, `ranchers` and `nsLabel` are the objects on the API server; each has a
resource version `rv`, and `capiEvents`, `rancherEvents` are the versions the
informers have not delivered yet to `capiCache`, `rancherCache`. `pc` names the
API call `Reconcile` makes next; `c`, `base`, `rid`/`rc` and `res` are its
local variables (`capiCluster`, the object of `patchBase`, `rancherCluster`, the
result). One Reconcile is `Start` (cached Get), `AddFinalizer` (the
RetryOnConflict loop), `Gate` (control plane and annotation, then the cached
List), and one of:

- `ReconcileDelete`, `DropRancherFinalizer`: the Rancher cluster is going, so
  annotate and release the Cluster and let the Rancher cluster go;
- `DeleteDependents`, `DropCapiFinalizer`: the Cluster is going;
- `ShouldAutoImportUncached`, `CreateRancher`: there is no Rancher cluster yet; the
  uncached read replaces the local copy, and where it fails the patch that follows
  still takes CAAPF's finalizer away (`FleetManaged`);
- `ReconcileNormal`, `PatchRancher`: there is one, and it is brought up to date;

each followed by `OuterPatch`, the deferred patch of the Cluster. `Cleanup` is
the other controller. `DeliverCapi`, `DeliverRancher`, `DeliverNamespace` and
`Resync` are the watches with their predicates. Optimistic patches and Updates
carry the version they were computed from (`CapiLock`, `RancherLock`).

Decisions worth knowing: objects disappear in steps of their own (`CapiGone`,
`RancherGone`) because other controllers hold finalizers, too. A conflict of the
cleanup controller and the requeue of a Cluster that is not found change nothing
and are stuttering steps. `DeleteAllOf` marks the live objects one after the
other. The registration manifest, the agent and the Fleet migration are one
answer (`ok`, wait, error) that is free until the cluster is Ready. A Create
fails once the names in `RancherIds` are used up. Watch filter values are not
set. `Adopted` Rancher clusters are those of an earlier release without
finalizer and annotations.

### CredentialTranslation

Secrets and unstructured objects are read live (`main.go` disables the cache for
Secrets); only the CAPIProvider comes from a cache. `cred` carries a UID, since
names are reused: `Recreate` makes another credential of the same name, and the
targets (`secret`, `identity`) carry the owner's UID in an annotation. One
Reconcile is `Start`, `CheckProvider`, then `AddFinalizer`,
`CreateOrUpdateSecret`, `CreateOrUpdateIdentity`, `Annotate`, or `GetIdentity`,
`DeleteIdentity`, `GetSecret`, `DeleteSecret`, `DropFinalizer`. The patches are
merge patches without a version and apply to whatever has the name by then.
`CreateOrUpdate` reads and then writes against that version, so a success is one
step at the time of the write.

`CredentialMirror` says what this is for: objects mirror a credential only under
the guard of its finalizer, secret before identity on the way in and after it on
the way out. `Mirror == INSTANCE CredentialMirror WITH ...` maps owner UIDs and
finalizer to it.

### ProviderSecretSync

`provider[p]`, its cached copy and `source[p]` (the Rancher credential) are
per CAPIProvider; there is one config `secret`. `d1` and `d2` are the copies
(`Destination`) of `SecretSync` and `SecretMapperSync`, both read before either is
written. Resource versions are abstracted to whether a copy was made from no
object, the current one or an older one, which is all that Update looks at and
keeps the state space finite without a bound on writes. One Reconcile is `Start`
(with `setVariables`), `GetVariables`, `GetSource`, `GetMapped`,
`ApplyVariables`, `ApplyMapped` and `PatchStatus`, the deferred patch of the
upstream reconciler. `Update`, then `Create` if nothing was there, is one step.
Features are variables like others. The other phases are not part of this
module; there is one worker, the default of the concurrency flag.

### ProviderCertificates

`certificates`, `issuers`, `inject` and `need` are the provider's objects and
annotations in the cluster, `cond` and `condCache` the saved
`WranglerManagedCertificates` condition and its cached copy, `c` and `base` the
condition in `r.Provider` and as it was read. `stale` are the Deployments that
were not rolled out since a cleanup changed something. One Reconcile is `Start`
with the guard of its cleanup; `ListCertificates`, `DeleteCertificate`,
`ListIssuers`, `DeleteIssuer`, `ListResources`, `UpdateResource` with the feature
`NoCertManager`, or `ListServices`, `UpdateService` without it; `ListDeployments`,
`RestartDeployment`, `SetCondition`; `Install`, the upstream phases that may
apply the manifest; and `PatchStatus`. The loops of the code are a set `todo`
taken in any order. A conflict is one of the calls that fail; a Certificate that
is gone makes its Delete fail (`CertificateNotFound`). `WranglerPatcher` maps a
`Manifest` (secret names of Certificates, `inject-ca-from` annotations, Services
of webhooks) to the objects it leaves; the three kinds of `cleanupKinds` are one
list, the CustomResourceDefinitions one resource. `gate` changes only with a
restart.

### ClusterctlConfig and ProviderUpdate

`ClusterctlConfig` has no state. A configuration is a sequence of providers, each
with the version its URL names, and a function from images to repositories (the
empty one is an image that is not listed). `MergeProviders`, `MergeImages` and
`ClusterConfig` are the loops of `ClusterConfig`, `ProviderVersion` and
`IsLatestVersion` the functions of those names. Versions are numbered in semantic
order, beside `Latest`, `Unset` and `Invalid`, what `semver.Parse` refuses.
The case of a provider's type, which the two lookups treat differently, and tags
are left out.

In `ProviderUpdate`, `release`, `user` (the ClusterctlConfig) and `setting` go into
the configuration, `settingCache` is the informer's copy: the ClusterctlConfig and
the ConfigMap are read live (`main.go` disables the cache for them), Settings are
not. `Compute` and `Apply` are `SyncConfigMap` with the controller's `queued`
request, `Mount` is kubelet. A CAPIProvider's Reconcile is `AddFinalizer`, or
`Start`, `ReadFile`, `Wait` (the comparison in `WaitForClusterctlConfigUpdate`,
after a read of its own), `SetProviderSpec`, `Install` and `Patch`; a deletion is
`Start`, `ReadFile`, `Wait` and `Delete`. `Install` stands for the upstream phases:
they read the file again and install from it or do nothing. `Upgrade` is the
chart's: the hook deletes the ConfigMap, the chart creates it empty, the old
manager may have applied it once more, and the new container starts with it
mounted.

### ImportManifest

One Rancher cluster that exists and one downstream cluster. `token`, `secret` and
`settings` are what Rancher serves, `objects` the manifest's objects downstream,
`1..Last` in its order, left over from an earlier import (`old`) or made by this
one (`new`). One Reconcile is `Start` (Ready, Fleet, `getTrustedCAcert`), then
`GetToken`, `ResolveManifestURL`, `DownloadManifest`, `ListJobs`, `CheckDeletion`
for each object and `CreateObject` for each object; or, when the cluster is Ready
but not migrated, `RemoveFleetNamespace`, `CheckFleetNamespace`, `MigrateFleet`.
Requeues and errors both end it (`Return`): every one is started again.
`settingsCache` is the informer's copy of the settings that `getTrustedCAcert` reads;
`agent-tls-mode` and `cacerts` are objects of their own, so they reach it one by one
(`DeliverSetting`) and a Reconcile may see the one without the other.
`CreationRefused` is an object whose namespace is missing or going; if the object
itself is still there, a Create may also find that it exists. The job deletes what it
finds and does not wait; a namespace that is deleted takes what lives in it. The
TLS handshake is reduced to whether the trusted CA signed the certificate
(`Verified`). The HTTP status is not looked at by the code: an error page fails to
parse before anything is created and is a failed call. `underway` is a history
variable: the deletions that were there when the Reconcile began and still last.

## What is checked

Passing runs:

| Run | Shows | Bounds |
|---|---|---|
| `import_all` | `TypeOK`; `FinalizerOutlivesDependents`: the Cluster's finalizer leaves only when its Rancher clusters are gone or going; `NoLostUpdate`: no stale copy overwrites others' edits; `HoldUntilDeletion`: no controller frees a Rancher cluster in use | two names, one adopted; any 2 of 11 kinds of environment steps |
| `import_safety` | `HeldOrReleased`, `ReleasedIsNotHeld`, `NoReimport`, `ReleaseBeforeDrop`: tracking and release of a Cluster with a label of its own | two names; 2 of deletions, restart, failed call |
| `import_liveness` | `DependentsDeleted`, `CapiDeletionCompletes`, `RancherDeletionCompletes`, `ImportCompletes`: import and both deletions finish | one name; 3 of both deletions, restart, concurrent edit |
| `credential_safety` | `TypeOK`, `NoOrphans`, `ForeignKept`, `RefIsBacked`, `ImplementsMirror` | two key pairs; 4 of 10 kinds |
| `credential_completes` | `KeysFollow`, `DeletionCompletes` | two key pairs; 3 of 9 kinds |
| `sync_all` | `TypeOK`, `UserKeysKept`, `SourceLossKeepsKeys`, `Converges`, `Settles` | one provider, a variable, a mapped key, a user's key, two values; 2 of 10 kinds |
| `certificates_all` | `TypeOK`; `ConditionIsEarned`: the saved condition changes only after a complete cleanup and rollout; `ConditionFollowsGate`, `RolloutsEnd`: conversions complete and then rest; `WebhooksServed`: the patcher leaves no webhook without a certificate | four manifests (shared Services, shared Certificates, two that cannot be patched), two Deployments; 4 of 5 kinds |
| `update_all` | `TypeOK`; `OverridesWin`: what `ClusterConfig` computes, against what users asked for; `InstallsOwnRelease`: never from another release's configuration; `ConfigConverges`, `VersionSettles`, `ProviderDeletionCompletes`; `PinKept`: no version is raised without automatic updates | two releases, two user configurations with duplicates and odd URLs, one registry, four providers; 2 of 8 kinds |
| `manifest_all` | `TypeOK`; `CleanupRespected`: nothing is created into a cleanup that was there at the start; `AgentComesUp`; `MigrationEarned`: annotated eventually, and only once the old namespace was gone and the new one there | three objects, one of them a namespace and one in it; two settings, mixed in the cache; 2 of 6 kinds |

The bounds are chosen so that the hazard of each property can happen: two
generated names are needed for a duplicate, two environment steps for an edit
that races with a restart or a failed call, three for both deletions around a
restart, four for delete, recreate, failure and a foreign object; an upgrade that
races with an edit, or a cleanup job that starts behind the readiness check while a
call fails, are two steps as well, and three objects have one before, one that is
and one inside a namespace. Restrictions
are part of the claims. `import_safety` leaves the label on the Cluster (with one
on the namespace the code re-imports, see Known behaviour); `import_liveness`
keeps the control plane available and has one name, so no duplicates; `credential_completes` assumes the provider comes back and the
driver annotation stays; `credential_safety` has nobody remove turtles' objects
by hand; `Settles` and `Converges` are about keys that are not both variable and
mapped, and one provider per secret; `update_all` exempts a setting that is needed
and missing, and a ConfigMap that nobody asks for (below); `manifest_all` exempts
leftovers and settings that do not fit Rancher's certificate.

Runs that exhibit a disagreement between code and documentation:

| Run | Violated | What happens |
|---|---|---|
| `import_duplicate` | `SingleRancherCluster` | the Create is decided on a stale List and has a generated name: two Rancher clusters for one Cluster |
| `import_cleanup_race` | `DeletionReleases` | the cleanup controller drops the finalizer of a deleted Rancher cluster before the import controller has annotated the Cluster |
| `certificates_unconverted` | `UnconvertedLeftAlone` | without the feature every reconcile rolls out all Deployments: the guard tests for a condition value nothing sets |

## Fairness

Liveness is checked under weak fairness of the deliveries, the resync and the
reconcile steps. The code justifies it: informers and workers run as long as the
manager does, failed requests are requeued with back-off, and `main.go` sets a
cache `SyncPeriod`, so every watched object is replayed. Each module adds what it
needs of others. In `ClusterImport`, deletions nobody blocks complete, a running
agent makes its cluster Ready, and (strong fairness of `ReconcileNormal` with
answer `ok`) the downstream cluster does not refuse the manifest for ever; in
`CredentialTranslation`, an installed provider becomes Ready. In
`ProviderSecretSync`, `Start(p)` is strongly fair because the workqueue is served
in order. In `ProviderUpdate`, kubelet syncs the mounted file and both controllers
run; in `ImportManifest`, Rancher fills in token and Secret, the agent reports, a
cleanup job ends, deletions complete and the Fleet agent is installed, all under
weak fairness; `FleetReturns`, `StartCleanup` and every failure are bounded. Faults are bounded by `MaxOps`, so every fair behaviour is eventually
without new ones.

Deadlock is not checked: a system in which users do nothing and every queue is
empty has nothing to do.

## What is proved

TLAPS proves these for every value of the constants: any number of names, providers,
keys and values, any environment, any `MaxOps`, but for the hypotheses in the table.

| Theorem | Statement | Argument |
|---|---|---|
| `ClusterImportProofs!TypeCorrect` | `Spec => []TypeOK` | inductive, with what `rid` and `pc` have to do with each other |
| `ClusterImportProofs!FinalizerSafety` | `Spec => FinalizerOutlivesDependents` | see below |
| `ClusterImportUpdateProofs!UpdateSafety`, `HoldSafety` | `NoLostUpdate`, `HoldUntilDeletion` | see below |
| `ClusterImportReleaseProofs!HeldSafety`, `ReleaseSafety` | `[]HeldOrReleased`, `ReleaseBeforeDrop` | under `Undisturbed` |
| `ClusterImportReleaseProofs!ReimportSafety` | `NoReimport` | under `NotAnnotated` and `NamespaceUnlabelled` |
| `ClusterImportReleaseProofs!ReleasedSafety` | `[]ReleasedIsNotHeld` | under `Undisturbed`, `NotAnnotated`, `NothingAdopted` |
| `CredentialTranslationProofs!TypeCorrect` | `Spec => []TypeOK` | inductive with the pinned UID |
| `CredentialTranslationProofs!NothingOrphaned` | `Spec => []NoOrphans` | see below |
| `CredentialTranslationProofs!ForeignSafety`, `RefSafety`, `MirrorImplemented` | `ForeignKept`, `RefIsBacked`, `ImplementsMirror` | under `Undisturbed` |
| `ProviderSecretSyncProofs!TypeCorrect` | `Spec => []TypeOK` | inductive |
| `ProviderSecretSyncProofs!UserKeysSafety`, `SourceLossSafety` | `UserKeysKept`, `SourceLossKeepsKeys` | see below |
| `ProviderSecretSyncProofs!RestSafety` | what `Settles` waits for lasts | see below |
| `ProviderCertificatesProofs!TypeCorrect`, `ConditionSafety`, `WebhooksSafety` | `TypeOK`, `ConditionIsEarned`, `WebhooksServed` | see below |
| `ProviderCertificatesProofs!AgreementSafety` | what `ConditionFollowsGate` and `RolloutsEnd` wait for lasts | see below |
| `ProviderUpdateProofs!TypeCorrect` | `Spec => []TypeOK` | inductive; a merge of configurations is one |
| `ProviderUpdateProofs!OverridesSafety` | `[]OverridesWin` | under `EmbeddedOnce` |
| `ProviderUpdateProofs!ReleaseSafety`, `PinSafety` | `InstallsOwnRelease`, `PinKept` | see below |
| `ProviderUpdateProofs!RestSafety` | what `ConfigConverges` and `VersionSettles` wait for lasts | see below |
| `ImportManifestProofs!TypeCorrect`, `CleanupIsRespected` | `TypeOK`, `CleanupRespected` | see below |
| `ImportManifestProofs!MigrationSafety` | the safety part of `MigrationEarned` | see below |

The hypotheses are about the environment. Each of those on the import is needed: TLC
finds a counterexample as soon as one is dropped, with at most three steps of the
environment.

- `Undisturbed` of `ClusterImportReleaseProofs`: nobody takes the imported
  annotation off a Cluster, and no Cluster gets the name of an old one. The
  annotation is turtles' record of the release; without it, or with a new Cluster
  nobody has looked at, a Rancher cluster that is still there is held for a Cluster
  that says nothing of it.
- `NotAnnotated`: users do not set the annotation themselves, so that it means a
  release. Set by hand while a Reconcile is past its checks, it is followed by an
  import or an addition of the finalizer.
- `NamespaceUnlabelled`: the label is the Cluster's own, since the one of the
  namespace overrules the annotation (`util/util.go:75`, see Known behaviour).
- `NothingAdopted`: no Rancher clusters of an earlier release. With one,
  `ReleasedIsNotHeld` is false (Known behaviour).
- `EmbeddedOnce`: a release embeds each provider once, as `config-prime.yaml` and
  `config-community.yaml` do. Of two entries, `existingProviders` would keep the
  last and `GetProviderVersion` return the first, so an override would not show.
- `Undisturbed` of `CredentialTranslationProofs`: nobody removes translated objects
  by hand (see NothingOrphaned).

**FinalizerSafety.** When `DropCapiFinalizer` is next, every Rancher cluster is
being deleted or gone. That is not stable by itself: a Create could follow. The
strengthening says that only the reconciler creates, and only at `create`, that its
copies are never newer than the store, and that a copy of the current version equals
the stored object; then the optimistic lock shows that the object the finalizer
leaves is the one that was looked at, and `OuterPatch`, which is computed from
`base`, can only remove it together with the annotation.

**UpdateSafety, HoldSafety.** A write loses an update if the copy it is computed
from is old and nothing refuses it. `CopiesFollow`: the local Cluster either differs
from `base`, against which the patch is computed, only in what turtles owns, or a
write went before, `base` is older than what that returned, and the optimistic lock
refuses the patch. `RanchersCoherent` and `RancherCopy` say the same of Rancher
clusters: a version in cache, events or local copy that is the current one equals
the stored object. `HoldUntilDeletion` follows from the same facts, as both
controllers test the deletion on the copy they patch.

**HeldSafety, ReleaseSafety.** What needs the finalizer is a Cluster that is neither
held nor released nor deleted. Under `Undisturbed` versions only move away from that
(`Grows`), and the informer sees them in their order (`OneWay`), so a stale copy
that was held says that the stored Cluster was held since (`Marked`, `Holding`). The
one way to lose the finalizer without a release is `DropCapiFinalizer`: `Deleting`
says that it happens only for a deletion the informer has seen. `HeldOrReleased`
then needs no look at the order of the two patches of a release, which is what
`ReleaseBeforeDrop` is about: `ReleaseLasts`, from the release to the drop the
stored Cluster carries the annotation.

**ReimportSafety, ReleasedSafety.** While users leave the annotation alone only the
reconciler sets it (`ImportedStep`). The uncached check sees it, and a Create after
the check happens for a Cluster that has no Rancher cluster (`NotReleased`), so
there was nothing to release it for. A released Cluster could get its finalizer back
only from an `AddFinalizer` decided before: `FinalizerFirst` says that as long as
anybody still sees the Cluster without finalizer and annotation there is no Rancher
cluster, hence no release; it needs that finalizer and annotation are never seen
together on a sane copy (`SaneCopies`).

**NothingOrphaned.** The invariant has four parts: types; `Pinned`, the UID of the
local copy against that of the stored credential while a Reconcile is on its way;
`Cleaned`, at `dropFinalizer` nothing owned is left (the identity from `getSecret`
on); and `NoOrphans`. The finalizer is what makes them inductive: a credential with
the finalizer cannot go, so a Reconcile that works under it still has the object it
read, whatever happens between its calls. For the other three theorems, `Backed`
(after `secret` and `identity` the objects are there) and `HolderExists` (a Delete
meets what was found) are added; both need `Undisturbed`, and `ForeignKept` is
really false without it, since Cleanup deletes by name what it read earlier.

**UserKeysSafety, SourceLossSafety.** A `Destination` whose version is current holds
the data of the stored secret (`Snapshots`), mapped strings touch mapped keys only
and are those of the credential that was found (`Separated`, `Strings`). Any change
of the secret makes the copies stale, and a stale copy is refused. A write without a
version is outside `UserKeysKept`: it overwrites a secret a user created since the
Get.

**RestSafety of the secret.** `Resting`: the secret says what the status and the
credential say, and a Reconcile that is on its way has read both (`Underway`). Then
each write puts together what is there already (`Idempotent`), and a write that
changes nothing makes no copy stale, starts no Reconcile, and lets the second
synchronizer do the same. With two providers for one secret no state is at rest, as
the owner changes with every write; that is the rewriting for ever of Next, item 5.

**ConditionSafety, WebhooksSafety.** In a loop, nothing outside `todo` is left to
clean, and behind it nothing is (`CleanedSoFar`, `Restarting`); a condition that
differs from the one that was read (`Earned`) means that the cleanup of the running
feature is complete and everything was rolled out since. Installing with the feature
brings no cert-manager objects, and without it no wrangler annotations, so this
lasts until the provider is patched. The patcher needs `LastExists` (a set of
webhooks has a last one, from well-foundedness of the naturals) and that a manifest
it accepts names only Certificates with a Secret.

**AgreementSafety.** `Agreed`: stored and cached condition are the one the feature
asks for, and so is the copy of a Reconcile, which with the feature is at `install`
or `patch`. A failed call, an upgrade or a restart changes none of it; only the
feature does. With the feature `Agreed` excludes the rollout.

**ReleaseSafety, PinSafety.** That the file is of the running release is no
invariant: after an upgrade it may be of the old one. Call a content clean if the
running release computed it or a user wrote it. `Sources` says that what is about to
be applied is the release's own, that behind a clean file there is a clean
ConfigMap, so the file stays clean, and that it is clean from a successful `Wait`
until `Install`; only `Upgrade` brings other content, and it ends every Reconcile.
`PinKept` needs that between `SetProviderSpec` and `Patch` the version of `p` is
that of `base` or lower (`Copies`), from a lemma about `SetLatestVersion`, and that
the records have their fields (`Shapes`).

**OverridesSafety.** `Appended` is a recursive function over the overrides. What it
yields is shown by least counterexample: if it failed for some length there would be
a least one (`Least`, from the well-foundedness of the naturals), and one step of
the recursion contradicts that (`AppendingExists`, `AppendedKept`). `Sorts` and
`Rewritten` are the images: overridden, rewritten to the registry, or as embedded.
`MergedVersion` then goes through the four cases of `OverridesWin`: the version in
force for a provider is at the first place of the merged list that names it, which
is the embedded place, or behind it the first of the overrides that were appended.

**RestSafety of the provider.** `ConfigResting`: setting and cache, ConfigMap, file
and what is about to be applied all agree with what is computed. `VersionResting`:
the provider is settled and so is the copy of a Reconcile, which
`SetLatestVersionSettled` keeps so; a version beyond the configuration was lowered,
one below it stays where automatic updates are off. No failed call and no restart
leaves this; edits, a setting and an upgrade do.

**CleanupIsRespected.** `Seen`: what is underway at `verify` is at the object being
looked at or later, and at `create` nothing is. It is inductive because `underway`
only shrinks during a Reconcile and what is in it is still being deleted
(`Lasting`), so `ListJobs` and `CheckDeletion` meet it; `AtFirst` says that the
reader begins at the first object.

**MigrationSafety.** The old namespace is looked at before the annotation is
written, in another call. `OldSeenGone`: what was seen gone is not being deleted at
the time of the annotation; an agent that was not told yet may bring the namespace
back, but only this reconciler deletes it, and it is past that step.

Every invariant and every action property of the passing runs is now a theorem.
Model-checked only is liveness: `DependentsDeleted`, `CapiDeletionCompletes`,
`RancherDeletionCompletes`, `ImportCompletes`, `KeysFollow`, `DeletionCompletes`,
`Converges`, `Settles`, `ConditionFollowsGate`, `RolloutsEnd`, `ConfigConverges`,
`VersionSettles`, `ProviderDeletionCompletes`, `AgentComesUp` and the eventual
annotation of `MigrationEarned`. Fairness is a matter of ENABLED, which is beyond
this use of TLAPS. Of a property "eventually always" the theorems above prove the
"always": that what is reached lasts; TLC checks that it is reached. The induction
theorems of the library take an operator as a parameter and are out of reach as
well, which is why `OverridesSafety` goes through least counterexamples.

## Known behaviour

What the models show of the code and the passing runs exempt or keep out:

- A CAPI Cluster whose control plane becomes unavailable before its deletion is
  handled is requeued for ever and keeps finalizer and Rancher cluster
  (`import_controller.go:174`). `DependentsDeleted` fails as soon as the
  environment may take the control plane away.
- With two Rancher clusters for one Cluster (`import_duplicate`), deleting one of
  them releases the Cluster, and nobody deletes the other one afterwards.
- With a Rancher cluster adopted from an earlier release, which is there before the
  Cluster has its finalizer, the release can overtake `AddFinalizer`: the retry of its
  RetryOnConflict reads the released Cluster and adds the finalizer to it
  (`import_controller.go:159`). `import_safety` has nothing adopted for this reason.
- A released Cluster is imported again through the label of its namespace
  (`util/util.go:75`); a credential deleted after its provider keeps its
  finalizer (`credentialtranslation_controller.go:157`).
- Overrides: of two for a provider turtles ships the last one counts, of two for any
  other provider the first (`clusterctl/config.go:142`). `OverridesWin` states it.
- Nothing watches the setting `system-default-registry`; ConfigMap and providers
  follow with the next resync (`clusterctlconfig_controller.go:65`).
- A ConfigMap that is deleted while turtles is down, with no ClusterctlConfig, is
  not created again: there is no object to replay. Providers, deleted ones too, then
  wait if the mounted file is not what they expect.
- An object of an earlier import that nothing deletes is left as it is
  (`helpers.go:374`); the agent then runs with old credentials, or not at all.

## Not modelled

See `components` in `PROJECT.json`. The upstream phases of cluster-api-operator
appear only through their outcomes. Of the CAPIProvider reconciler, `setConditions`
and the conversions to upstream types are left out; of the defaults, the names of
references and the two fixed variables of Azure and GCP. The UIPlugin controller
copies one object and deletes the original and shares no state with the rest.
Predicates and name converters that no controller uses, Rancher's server setting,
generated code, charts (but for the upgrade hook), tests and tools are not
modelled. Several workers reconciling different objects at the same time are not
modelled; workqueues never give one name to two workers.

## Next

1. `ProviderCertificates`: the crash between the installation and the patch of the
   provider (`wrangler.go:426`). The condition True outlives a way back that was
   not saved, so a later conversion is skipped; a run should exhibit it.
2. A run of `ClusterImport` with `UseCAAPF`, and the refinement of its
   `ReconcileNormal` by `ImportManifest`.
3. More proofs: an abstract import that `ClusterImport` implements; that what
   `AgentComesUp`, `KeysFollow` and `ImportCompletes` wait for lasts.
4. `UIPlugin`: copy before delete.
5. Behaviour of `internal/sync` that the present configurations keep out and that
   deserves runs: on a missing secret the second writer replaces what the first
   created (`client.go:55`); a key both variable and mapped, or a secret shared by
   two providers, is rewritten for ever (`core.go:97`); a removed variable stays
   (`defaults.go:164`); the reason `RancherCredentialSourceMissing` is overwritten
   before it is saved (`secret_mapper_sync.go:293`). Likewise Cleanup's Get and
   Delete by name (`aws_translator.go:84`), and a credential whose keys are emptied
   and whose translation stays (`aws_translator.go:59`).
