------------------------- MODULE ProviderCertificates -------------------------
(***************************************************************************)
(* The webhook certificates of one CAPIProvider: the cleanup phase of      *)
(* CAPIProviderReconciler (cleanupCertManagerResources with the feature    *)
(* NoCertManager, cleanupWranglerResources without it) and WranglerPatcher,*)
(* which rewrites the manifest the upstream phases install afterwards.     *)
(*                                                                         *)
(* A conversion is a dozen API calls, then a condition that is saved with  *)
(* the provider at the end of the Reconcile.  Calls fail, users remove     *)
(* Certificates, the manager restarts with or without the feature.         *)
(***************************************************************************)
EXTENDS Integers

CONSTANTS
  Certificates, \* cert-manager Certificates a manifest may contain
  Issuers,      \* cert-manager Issuers of the provider
  LastWebhook,  \* number of webhook configurations
  Services,     \* Services of the provider
  Secrets,      \* what a Certificate may have as spec.secretName
  Deployments,  \* Deployments of the provider
  Manifests,    \* the manifests of the versions of the provider
  None,         \* no Certificate, no Secret
  Unnamed,      \* a Certificate without spec.secretName
  EnvOps,       \* what users and faults may do
  MaxOps        \* bound on the number of EnvOps steps in a behaviour

\* Webhook configurations are numbered in the order of the manifest; resource 0
\* stands for the CustomResourceDefinitions.
Webhooks == 1..LastWebhook
Resources == 0..LastWebhook

\* secretName: None for a Certificate that is not in the manifest; inject: the
\* Certificate in the inject-ca-from annotation; services: those of the
\* clientConfigs.
Manifest == [secretName : [Certificates -> Secrets \cup {None, Unnamed}],
             inject : [Resources -> Certificates \cup {None}],
             services : [Webhooks -> SUBSET Services]]

ASSUME ProviderCertificatesAssumption ==
  /\ LastWebhook \in Nat
  /\ Manifests \subseteq Manifest
  /\ None \notin Secrets \cup Certificates /\ Unnamed \notin Secrets \cup {None}
  /\ MaxOps \in Nat

VARIABLES
  gate,         \* the feature NoCertManager of the running manager
  cond,         \* the saved WranglerManagedCertificates condition
  condCache,    \* the informer's copy of it
  queued,       \* the provider is in the workqueue
  manifest,     \* of the version users asked for
  certificates, issuers,  \* cert-manager objects in the cluster
  inject,       \* resources that carry inject-ca-from
  need,         \* the need-a-cert annotation of each Service
  stale,        \* Deployments not rolled out since a cleanup changed something
  pc,           \* the API call the reconciler makes next
  c, base,      \* the condition in r.Provider, and when it was read
  todo,         \* what is left of the list a loop runs over
  err,          \* the phases ended with an error
  ops           \* EnvOps steps so far

objects == <<certificates, issuers, inject, need, stale>>
local == <<c, base, todo, err>>
vars == <<gate, cond, condCache, queued, manifest, certificates, issuers,
          inject, need, stale, pc, c, base, todo, err, ops>>

Statuses == {"Absent", "True"}

Steps == {"idle", "listCertificates", "deleteCertificates", "deleteIssuers",
          "updateResources", "listServices", "updateServices", "restart",
          "install", "patch"}

\* What the provider label selects.
Items == Certificates \cup Issuers \cup Resources \cup Services \cup Deployments

TypeOK ==
  /\ gate \in BOOLEAN
  /\ cond \in Statuses
  /\ condCache \in Statuses
  /\ queued \in BOOLEAN
  /\ manifest \in Manifest
  /\ certificates \subseteq Certificates
  /\ issuers \subseteq Issuers
  /\ inject \subseteq Resources
  /\ need \in [Services -> Secrets \cup {None}]
  /\ stale \subseteq Deployments
  /\ pc \in Steps
  /\ c \in Statuses
  /\ base \in Statuses
  /\ todo \subseteq Items
  /\ err \in BOOLEAN
  /\ ops \in 0..MaxOps

-----------------------------------------------------------------------------
(***************************************************************************)
(* WranglerPatcher.                                                        *)
(***************************************************************************)
NoServices == [s \in Services |-> None]
Contained(m) == {x \in Certificates : m.secretName[x] # None}

\* getCertificates and getServices: a Certificate without a secretName, or an
\* annotation that names no Certificate of the manifest, fails the whole patch.
UnnamedSecret(m) == \E x \in Certificates : m.secretName[x] = Unnamed
UnknownCertificate(m) ==
  \E r \in Resources : m.inject[r] \notin Contained(m) \cup {None}
PatchFails(m) == UnnamedSecret(m) \/ UnknownCertificate(m)

\* The map of services keeps what the last webhook said about a Service.
Serving(m, s) == {w \in Webhooks : m.inject[w] # None /\ s \in m.services[w]}
Last(ws) == CHOOSE w \in ws : \A v \in ws : v <= w
NeedACert(m) == [s \in Services |->
  IF Serving(m, s) = {} THEN None
                        ELSE m.secretName[m.inject[Last(Serving(m, s))]]]

WranglerPatcher(m) ==
  [certificates |-> {}, issuers |-> {}, inject |-> {}, need |-> NeedACert(m)]
Unpatched(m) ==
  [certificates |-> Contained(m), issuers |-> Issuers,
   inject |-> {r \in Resources : m.inject[r] # None}, need |-> NoServices]

-----------------------------------------------------------------------------
Env(op) == op \in EnvOps /\ ops < MaxOps /\ ops' = ops + 1

\* A call that fails, a conflict with another writer included, ends the phases.
Stop == err' = TRUE /\ pc' = "patch"
Fails == Env("apiError") /\ Stop

\* A List with the selector of the provider; the loop over it comes next.
ListAnyway(items, next) ==
  /\ \/ todo' = items /\ UNCHANGED ops
     \/ Env("apiError") /\ UNCHANGED todo
  /\ pc' = next
  /\ UNCHANGED <<gate, cond, condCache, queued, manifest, objects, c, base, err>>
List(items, next) ==
  /\ \/ todo' = items /\ pc' = next /\ UNCHANGED <<err, ops>>
     \/ Fails /\ UNCHANGED todo
  /\ UNCHANGED <<gate, cond, condCache, queued, manifest, objects, c, base>>

\* One turn of a loop: the call succeeds with this effect, or fails.
Turn(x, effect) ==
  /\ x \in todo
  /\ \/ effect /\ todo' = todo \ {x} /\ UNCHANGED <<pc, err, ops>>
     \/ Fails /\ UNCHANGED <<objects, todo>>
  /\ UNCHANGED <<gate, cond, condCache, queued, manifest, c, base>>

-----------------------------------------------------------------------------
(***************************************************************************)
(* Watch and resync of the CAPIProvider.                                   *)
(***************************************************************************)
DeliverProvider ==
  /\ condCache # cond
  /\ condCache' = cond
  /\ queued' = TRUE
  /\ UNCHANGED <<gate, cond, manifest, objects, pc, local, ops>>

\* The cache replays every CAPIProvider each syncPeriod.
Resync ==
  /\ ~queued
  /\ queued' = TRUE
  /\ UNCHANGED <<gate, cond, condCache, manifest, objects, pc, local, ops>>

-----------------------------------------------------------------------------
(***************************************************************************)
(* One Reconcile: the cleanup, the installation, the patch of the provider.*)
(***************************************************************************)

\* The guards at the top of the two cleanups.  Nothing sets the condition to
\* False, so the second one never holds.
NeverManaged(o) == FALSE
ManagedByWrangler(o) == o = "True"
NotManagedByWrangler(o) == o = "False"

Start ==
  /\ pc = "idle"
  /\ queued
  /\ queued' = FALSE
  /\ c' = condCache
  /\ base' = condCache
  /\ pc' = IF gate
           THEN IF ManagedByWrangler(condCache) THEN "install"
                                                ELSE "listCertificates"
           ELSE IF NotManagedByWrangler(condCache) THEN "install"
                                                   ELSE "listServices"
  /\ UNCHANGED <<gate, cond, condCache, manifest, objects, todo, err, ops>>

\* CleanupCertManagerResources.
ListCertificates == pc = "listCertificates"
                    /\ List(certificates, "deleteCertificates")

DeleteCertificate(x) ==
  /\ pc = "deleteCertificates"
  /\ x \in certificates
  /\ Turn(x, /\ certificates' = certificates \ {x}
             /\ stale' = Deployments
             /\ UNCHANGED <<issuers, inject, need>>)

\* Delete of a Certificate that is gone meanwhile is an error like any other.
CertificateNotFound(x) ==
  /\ pc = "deleteCertificates"
  /\ x \in todo \ certificates
  /\ Stop
  /\ UNCHANGED <<gate, cond, condCache, queued, manifest, objects, c, base,
                 todo, ops>>

ListIssuers == pc = "deleteCertificates" /\ todo = {}
               /\ List(issuers, "deleteIssuers")

DeleteIssuer(x) ==
  /\ pc = "deleteIssuers"
  /\ Turn(x, /\ issuers' = issuers \ {x}
             /\ stale' = Deployments
             /\ UNCHANGED <<certificates, inject, need>>)

\* Resources without the annotation are skipped.
ListResources == pc = "deleteIssuers" /\ todo = {}
                 /\ List(inject, "updateResources")

UpdateResource(r) ==
  /\ pc = "updateResources"
  /\ Turn(r, /\ inject' = inject \ {r}
             /\ stale' = Deployments
             /\ UNCHANGED <<certificates, issuers, need>>)

\* CleanupWranglerResources.
Annotated == {s \in Services : need[s] # None}
ListServices == pc = "listServices" /\ List(Annotated, "updateServices")

UpdateService(s) ==
  /\ pc = "updateServices"
  /\ Turn(s, /\ need' = [need EXCEPT ![s] = None]
             /\ stale' = Deployments
             /\ UNCHANGED <<certificates, issuers, inject>>)

\* providerDeploymentRestart.
ListDeployments == pc \in {"updateResources", "updateServices"} /\ todo = {}
                   /\ List(Deployments, "restart")

RestartDeployment(d) ==
  /\ pc = "restart"
  /\ Turn(d, /\ stale' = stale \ {d}
             /\ UNCHANGED <<certificates, issuers, inject, need>>)

\* conditions.Set and conditions.Delete, on r.Provider.
OutcomeNeverDeleted == IF gate THEN "True" ELSE base
Outcome == IF gate THEN "True" ELSE "Absent"
SetCondition ==
  /\ pc = "restart"
  /\ todo = {}
  /\ c' = Outcome
  /\ pc' = "install"
  /\ UNCHANGED <<gate, cond, condCache, queued, manifest, objects, base, todo,
                 err, ops>>

\* The upstream phases download, alter and apply the manifest, or find that
\* there is nothing to install.  Objects that the new manifest lacks stay.
Apply(o) ==
  /\ certificates' = certificates \cup o.certificates
  /\ issuers' = issuers \cup o.issuers
  /\ inject' = o.inject
  /\ need' = o.need
  /\ UNCHANGED stale

Install ==
  /\ pc = "install"
  /\ \/ /\ IF gate THEN ~PatchFails(manifest) /\ Apply(WranglerPatcher(manifest))
                   ELSE Apply(Unpatched(manifest))
        /\ pc' = "patch"
        /\ UNCHANGED <<err, ops>>
     \/ pc' = "patch" /\ UNCHANGED <<objects, err, ops>>
     \/ gate /\ PatchFails(manifest) /\ Stop /\ UNCHANGED <<objects, ops>>
     \/ Fails /\ UNCHANGED objects
  /\ UNCHANGED <<gate, cond, condCache, queued, manifest, c, base, todo>>

\* The deferred merge patch sends what this Reconcile changed; an error puts
\* the request back.
PatchStatus ==
  /\ pc = "patch"
  /\ \/ /\ cond' = IF c = base THEN cond ELSE c
        /\ queued' = (queued \/ err)
        /\ UNCHANGED ops
     \/ Env("apiError") /\ queued' = TRUE /\ UNCHANGED cond
  /\ pc' = "idle"
  /\ c' = "Absent" /\ base' = "Absent" /\ todo' = {} /\ err' = FALSE
  /\ UNCHANGED <<gate, condCache, manifest, objects>>

ReconcileStep ==
  \/ Start
  \/ ListCertificates \/ ListIssuers \/ ListResources
  \/ ListServices \/ ListDeployments
  \/ \E x \in Certificates : DeleteCertificate(x) \/ CertificateNotFound(x)
  \/ \E x \in Issuers : DeleteIssuer(x)
  \/ \E r \in Resources : UpdateResource(r)
  \/ \E s \in Services : UpdateService(s)
  \/ \E d \in Deployments : RestartDeployment(d)
  \/ SetCondition \/ Install \/ PatchStatus

-----------------------------------------------------------------------------
(***************************************************************************)
(* Users and the manager.                                                  *)
(***************************************************************************)
Upgrade ==
  /\ Env("upgrade")
  /\ manifest' \in Manifests \ {manifest}
  /\ queued' = TRUE
  /\ UNCHANGED <<gate, cond, condCache, objects, pc, local>>

RemoveCertificate(x) ==
  /\ Env("removeCertificate")
  /\ x \in certificates
  /\ certificates' = certificates \ {x}
  /\ UNCHANGED <<gate, cond, condCache, queued, manifest, issuers, inject, need,
                 stale, pc, local>>

\* A restart, which may turn the feature on or off.
Restart ==
  /\ \/ Env("restart") /\ UNCHANGED gate
     \/ Env("toggle") /\ gate' = ~gate
  /\ condCache' = cond
  /\ queued' = TRUE
  /\ pc' = "idle"
  /\ c' = "Absent" /\ base' = "Absent" /\ todo' = {} /\ err' = FALSE
  /\ UNCHANGED <<cond, manifest, objects>>

-----------------------------------------------------------------------------
\* The provider is installed with cert-manager, by a release or with a setting
\* that does not know better, or is not installed yet.
Init ==
  /\ gate \in BOOLEAN
  /\ cond = "Absent" /\ condCache = "Absent"
  /\ queued = TRUE
  /\ manifest \in Manifests
  /\ \E o \in {Unpatched(manifest), [Unpatched(manifest) EXCEPT
                 !.certificates = {}, !.issuers = {}, !.inject = {}]} :
       /\ certificates = o.certificates
       /\ issuers = o.issuers
       /\ inject = o.inject
       /\ need = o.need
  /\ stale = {}
  /\ pc = "idle"
  /\ c = "Absent" /\ base = "Absent" /\ todo = {} /\ err = FALSE
  /\ ops = 0

Next ==
  \/ DeliverProvider \/ Resync
  \/ ReconcileStep
  \/ Upgrade \/ \E x \in Certificates : RemoveCertificate(x)
  \/ Restart

Spec == Init /\ [][Next]_vars

\* The watch, the resync period and the worker keep running.
Fairness == WF_vars(DeliverProvider) /\ WF_vars(Resync) /\ WF_vars(ReconcileStep)

FairSpec == Spec /\ Fairness

-----------------------------------------------------------------------------
(***************************************************************************)
(* Properties.                                                             *)
(***************************************************************************)

\* The condition tells the truth when it changes, whatever failed, restarted or
\* was repeated on the way: set, cert-manager is out of the provider; removed,
\* wrangler is; and every Deployment was rolled out after the last change
\* (the two Cleanup functions).
CertManagerGone == certificates = {} /\ issuers = {} /\ inject = {}
WranglerGone == Annotated = {}
ConditionIsEarned ==
  [][cond' # cond =>
       /\ stale = {}
       /\ IF cond' = "True" THEN CertManagerGone ELSE WranglerGone]_vars

\* The conversion completes: the condition ends up saying what the feature of
\* the running manager says (a conflict or an object that is gone only delays
\* it, and so does a manifest that cannot be patched).
ConditionFollowsGate ==
  /\ <>[]gate => <>[](cond = "True")
  /\ <>[]~gate => <>[](cond = "Absent")

\* With the feature on, rollouts come to an end (the guard of
\* CleanupCertManagerResources and the saved condition).
RolloutsEnd ==
  <>[]gate => <>[][\A d \in Deployments : ~RestartDeployment(d)]_vars

\* WranglerPatcher loses no webhook: whenever it changes the Services, every
\* Service of a webhook that relied on cert-manager is annotated with the Secret
\* of a Certificate such a webhook named, and no other Service is.
ServiceSecrets(s) == {manifest.secretName[manifest.inject[w]] :
                        w \in Serving(manifest, s)}
WebhooksServed ==
  [][gate /\ need' # need =>
       \A s \in Services : IF Serving(manifest, s) = {}
                           THEN need'[s] = None
                           ELSE need'[s] \in ServiceSecrets(s) \cap Secrets]_vars

\* Without the feature, a provider that was never converted is left alone
\* (the guard of CleanupWranglerResources).
UnconvertedLeftAlone ==
  [][\A d \in Deployments : RestartDeployment(d) /\ ~gate => base = "True"]_vars
=============================================================================
