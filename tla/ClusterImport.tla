--------------------------- MODULE ClusterImport ---------------------------
(***************************************************************************)
(* The import of one CAPI Cluster into Rancher: CAPIImportReconciler       *)
(* (import_controller.go) and CAPICleanupReconciler                        *)
(* (cleanup_controller.go), running against an API server through informer *)
(* caches that lag behind it, while users, Cluster API and Rancher change  *)
(* the same objects.                                                       *)
(*                                                                         *)
(* Each object carries a resource version rv that every write increments;  *)
(* an optimistic write succeeds only on the current version.  A kind's     *)
(* watch stream is the sequence of versions its informer has not delivered *)
(* yet.  The steps of one Reconcile are separated at its API calls, so     *)
(* every other actor may run between two of them.                          *)
(***************************************************************************)
EXTENDS Integers, Sequences, FiniteSets

CONSTANTS
  RancherIds,       \* names GenerateName can hand out: bounds the Creates
  None,             \* "no Rancher cluster": the nil *managementv3.Cluster
  EnvOps,           \* what users, Cluster API, Rancher and faults may do
  MaxOps,           \* bound on the number of EnvOps steps in a behaviour
  ClusterLabels,    \* initial values of the import label on the cluster
  NamespaceLabels,  \* initial values of the import label on the namespace
  UseCAAPF,         \* feature gate use-caapf
  FleetDisabled,    \* the CAPI cluster carries the fleet-disabled label
  Adopted           \* Rancher clusters of an earlier release, still present

ASSUME ClusterImportAssumption ==
  /\ None \notin RancherIds
  /\ MaxOps \in Nat
  /\ ClusterLabels \subseteq {"true", "false", "absent"}
  /\ NamespaceLabels \subseteq BOOLEAN
  /\ UseCAAPF \in BOOLEAN
  /\ FleetDisabled \in BOOLEAN
  /\ Adopted \subseteq RancherIds

VARIABLES
  capi,           \* the Cluster object on the API server
  capiCache,      \* the informer's copy of it
  capiEvents,     \* versions of it the informer has not delivered
  ranchers,       \* the managementv3 Clusters on the API server, by name
  rancherCache,   \* the informer's copies of them
  rancherEvents,  \* <<name, version>> pairs the informer has not delivered
  nsLabel,        \* the namespace's import label on the API server
  nsCache,        \* the informer's copy of it
  queue,          \* the cluster's request is in the import workqueue
  cleanupQueue,   \* the names in the cleanup workqueue
  pc,             \* the API call the import reconciler makes next
  c,              \* the local variable capiCluster
  base,           \* the object patchBase was taken from
  rid, rc,        \* the local variable rancherCluster: its name and content
  res,            \* what reconcile returned
  agents,         \* Rancher clusters whose import manifest was applied
  ops             \* EnvOps steps so far

local == <<c, base, rid, rc, res>>
capiStore == <<capi, capiEvents>>
rancherStore == <<ranchers, rancherEvents>>
caches == <<capiCache, rancherCache, nsCache>>
vars == <<capi, capiCache, capiEvents, ranchers, rancherCache, rancherEvents,
          nsLabel, nsCache, queue, cleanupQueue, pc, c, base, rid, rc, res,
          agents, ops>>

\* The import label: ParseBool true, present but not true, missing.
Labels == {"true", "false", "absent"}

\* What the controllers read and write of a CAPI Cluster: the turtles and the
\* CAAPF finalizers, the imported annotation, the import label and the
\* ControlPlaneAvailable condition.
CapiObject == [ex : BOOLEAN, rv : Nat, del : BOOLEAN, fin : BOOLEAN,
               fleetFin : BOOLEAN, imported : BOOLEAN, cp : BOOLEAN,
               label : Labels]

\* ... and of a Rancher cluster; meta says that the annotations and labels the
\* reconciler maintains are in place, migrated is fleetNamespaceMigrated.
RancherObject == [ex : BOOLEAN, rv : Nat, del : BOOLEAN, fin : BOOLEAN,
                  ready : BOOLEAN, migrated : BOOLEAN, meta : BOOLEAN]

NoCapi == [ex |-> FALSE, rv |-> 0, del |-> FALSE, fin |-> FALSE,
           fleetFin |-> FALSE, imported |-> FALSE, cp |-> FALSE,
           label |-> "absent"]

NoRancher == [ex |-> FALSE, rv |-> 0, del |-> FALSE, fin |-> FALSE,
              ready |-> FALSE, migrated |-> FALSE, meta |-> FALSE]

Steps == {"idle", "finalizer", "gate", "release", "dropRancher", "dependents",
          "dropCapi", "check", "create", "normal", "patchRancher", "patch"}

TypeOK ==
  /\ capi \in CapiObject
  /\ capiCache \in CapiObject
  /\ capiEvents \in Seq(CapiObject)
  /\ ranchers \in [RancherIds -> RancherObject]
  /\ rancherCache \in [RancherIds -> RancherObject]
  /\ rancherEvents \in Seq(RancherIds \X RancherObject)
  /\ nsLabel \in BOOLEAN
  /\ nsCache \in BOOLEAN
  /\ queue \in BOOLEAN
  /\ cleanupQueue \subseteq RancherIds
  /\ pc \in Steps
  /\ c \in CapiObject
  /\ base \in CapiObject
  /\ rid \in RancherIds \cup {None}
  /\ rc \in RancherObject
  /\ res \in {"ok", "requeue", "error"}
  /\ agents \subseteq RancherIds
  /\ ops \in 0..MaxOps

-----------------------------------------------------------------------------
(***************************************************************************)
(* The API server: writes, and the optimistic lock on them.                *)
(***************************************************************************)

\* A write that changes nothing leaves the resource version alone.
PutCapi(o) ==
  IF [o EXCEPT !.rv = capi.rv] = capi
  THEN UNCHANGED capiStore
  ELSE /\ capi' = [o EXCEPT !.rv = capi.rv + 1]
       /\ capiEvents' = Append(capiEvents, capi')

PutRancher(r, o) ==
  IF [o EXCEPT !.rv = ranchers[r].rv] = ranchers[r]
  THEN UNCHANGED rancherStore
  ELSE LET new == [o EXCEPT !.rv = ranchers[r].rv + 1] IN
       /\ ranchers' = [ranchers EXCEPT ![r] = new]
       /\ rancherEvents' = Append(rancherEvents, <<r, new>>)

\* Update, and Patch with MergeFromWithOptimisticLock, succeed only against
\* the version the caller read.
CapiUnlocked(o) == capi.ex
CapiLock(o) == capi.ex /\ capi.rv = o.rv
RancherUnlocked(r, o) == ranchers[r].ex
RancherLock(r, o) == ranchers[r].ex /\ ranchers[r].rv = o.rv

Live(r) == ranchers[r].ex /\ ~ranchers[r].del

-----------------------------------------------------------------------------
(***************************************************************************)
(* util.ShouldAutoImport and the predicates built on it.                   *)
(***************************************************************************)

\* The imported annotation is consulted for the cluster's own label only.
ShouldAutoImportIgnoresAnnotation(o, n) ==
  IF o.label = "absent" THEN n ELSE o.label = "true"
ShouldAutoImport(o, n) ==
  \/ o.label = "true" /\ ~o.imported
  \/ o.label # "false" /\ n

CapiPredicatesNotDeleted(o, n) ==
  ~o.del /\ ~o.imported /\ o.cp /\ ShouldAutoImport(o, n)

\* predicates.All of SetupWithManager (no watch filter value is set).
CapiPredicates(o, n) == ~o.imported /\ o.cp /\ ShouldAutoImport(o, n)

-----------------------------------------------------------------------------
(***************************************************************************)
(* Informers.                                                              *)
(***************************************************************************)

DeliverCapi ==
  /\ capiEvents # <<>>
  /\ capiCache' = Head(capiEvents)
  /\ capiEvents' = Tail(capiEvents)
  /\ queue' = (queue \/ CapiPredicates(capiCache', nsCache))
  /\ UNCHANGED <<capi, rancherStore, rancherCache, nsLabel, nsCache,
                 cleanupQueue, pc, local, agents, ops>>

CleanupRequestsUnnamed(r) == {None}
CleanupRequests(r) == {r}

\* rancherV3ClusterToCapiCluster maps the event through the cached Cluster;
\* the cleanup controller watches the same kind.
DeliverRancher ==
  /\ rancherEvents # <<>>
  /\ LET r == Head(rancherEvents)[1] IN
     /\ rancherCache' = [rancherCache EXCEPT ![r] = Head(rancherEvents)[2]]
     /\ cleanupQueue' = cleanupQueue \cup CleanupRequests(r)
  /\ rancherEvents' = Tail(rancherEvents)
  /\ queue' = (queue \/ (capiCache.ex /\ CapiPredicates(capiCache, nsCache)))
  /\ UNCHANGED <<capiStore, capiCache, ranchers, nsLabel, nsCache, pc, local,
                 agents, ops>>

\* namespaceToCapiClusters: only a label that says true maps to requests.
DeliverNamespace ==
  /\ nsCache # nsLabel
  /\ nsCache' = nsLabel
  /\ queue' = (queue \/ (nsLabel /\ capiCache.ex
                                 /\ CapiPredicates(capiCache, nsLabel)))
  /\ UNCHANGED <<capiStore, capiCache, rancherStore, rancherCache, nsLabel,
                 cleanupQueue, pc, local, agents, ops>>

\* The cache replays every object each syncPeriod.
Resync ==
  /\ capiCache.ex
  /\ ~queue
  /\ CapiPredicates(capiCache, nsCache)
  /\ queue' = TRUE
  /\ UNCHANGED <<capiStore, caches, rancherStore, nsLabel, cleanupQueue, pc,
                 local, agents, ops>>

-----------------------------------------------------------------------------
(***************************************************************************)
(* CAPIImportReconciler.Reconcile.                                         *)
(***************************************************************************)

\* An API call fails because the server refuses it, or because of a fault.
Env(op) == op \in EnvOps /\ ops < MaxOps /\ ops' = ops + 1
Fails(ok) == \/ ~ok /\ UNCHANGED ops
             \/ Env("apiError")

Finish(requeue) ==
  /\ pc' = "idle"
  /\ queue' = (queue \/ requeue)
  /\ c' = NoCapi /\ base' = NoCapi
  /\ rid' = None /\ rc' = NoRancher
  /\ res' = "ok"

\* reconcile returns: the deferred outer Patch of Reconcile follows.
Return(result) == pc' = "patch" /\ res' = result /\ UNCHANGED queue

NeedsFinalizerNever(o) == FALSE
NeedsFinalizer(o) == ~o.del /\ ~o.imported /\ ~o.fin

\* Lines 140-157: the cached Get.  The request of a missing Cluster is requeued,
\* which is a stuttering step.
Start ==
  /\ pc = "idle"
  /\ queue
  /\ capiCache.ex
  /\ queue' = FALSE
  /\ c' = capiCache
  /\ pc' = IF NeedsFinalizer(capiCache) THEN "finalizer" ELSE "gate"
  /\ UNCHANGED <<capiStore, caches, rancherStore, nsLabel, cleanupQueue, base,
                 rid, rc, res, agents, ops>>

\* Lines 159-169: RetryOnConflict re-reads the cache on every attempt.  The
\* API server refuses a new finalizer on an object that is being deleted.
AddFinalizer ==
  /\ pc = "finalizer"
  /\ LET ok == capiCache.ex /\ CapiLock(capiCache)
                            /\ (capiCache.del => capiCache.fin) IN
     \/ /\ ok
        /\ PutCapi([capiCache EXCEPT !.fin = TRUE])
        /\ c' = capi'
        /\ pc' = "gate"
        /\ UNCHANGED <<queue, base, rid, rc, res, ops>>
     \/ Fails(ok) /\ Finish(TRUE) /\ UNCHANGED capiStore
  /\ UNCHANGED <<caches, rancherStore, nsLabel, cleanupQueue, agents>>

\* Lines 171-187 and the choice reconcile makes (205-268) from the cached
\* List: Items[0] may be any of the matching clusters.
Gate ==
  /\ pc = "gate"
  /\ \/ /\ ~c.cp \/ c.imported
        /\ Finish(~c.cp)
     \/ /\ c.cp /\ ~c.imported
        /\ base' = c
        /\ LET items == {r \in RancherIds : rancherCache[r].ex} IN
           \/ /\ items = {}
              /\ pc' = IF c.del THEN "dependents" ELSE "check"
              /\ UNCHANGED <<rid, rc>>
           \/ \E r \in items :
              /\ rid' = r
              /\ rc' = rancherCache[r]
              /\ pc' = CASE rc'.del -> "release"
                         [] ~rc'.del /\ c.del -> "dependents"
                         [] OTHER -> "normal"
        /\ UNCHANGED <<queue, c, res>>
  /\ UNCHANGED <<capiStore, caches, rancherStore, nsLabel, cleanupQueue,
                 agents, ops>>

ReleasedUnmarked(o) == [o EXCEPT !.fin = FALSE]
ReleasedHeld(o) == [o EXCEPT !.imported = TRUE]
Released(o) == [o EXCEPT !.imported = TRUE, !.fin = FALSE]

\* reconcileDelete: imported annotation set and finalizer dropped in one patch.
ReconcileDelete ==
  /\ pc = "release"
  /\ \/ /\ CapiLock(c)
        /\ PutCapi(Released(c))
        /\ c' = capi'
        /\ IF rc.fin THEN pc' = "dropRancher" /\ UNCHANGED <<queue, res>>
                     ELSE Return("ok")
        /\ UNCHANGED ops
     \/ /\ Fails(CapiLock(c))
        /\ c' = Released(c)
        /\ Return("error")
        /\ UNCHANGED capiStore
  /\ UNCHANGED <<caches, rancherStore, nsLabel, cleanupQueue, base, rid, rc,
                 agents>>

\* Lines 244-248.
DropRancherFinalizer ==
  /\ pc = "dropRancher"
  /\ \/ /\ RancherLock(rid, rc)
        /\ PutRancher(rid, [rc EXCEPT !.fin = FALSE])
        /\ Return("ok")
        /\ UNCHANGED ops
     \/ /\ Fails(RancherLock(rid, rc))
        /\ Return("error")
        /\ UNCHANGED rancherStore
  /\ UNCHANGED <<capiStore, caches, nsLabel, cleanupQueue, c, base, rid, rc,
                 agents>>

\* deleteDependentRancherCluster: DeleteAllOf works through the live objects,
\* one at a time, whatever the cached List returned.
ListedDependents == {r \in RancherIds : Live(r) /\ r = rid}
Dependents == {r \in RancherIds : Live(r)}
DeleteDependents ==
  /\ pc = "dependents"
  /\ \/ /\ \E r \in Dependents :
             PutRancher(r, [ranchers[r] EXCEPT !.del = TRUE])
        /\ UNCHANGED <<pc, queue, res, ops>>
     \/ /\ Dependents = {}
        /\ IF c.fin THEN pc' = "dropCapi" /\ UNCHANGED <<queue, res>>
                    ELSE Return("ok")
        /\ UNCHANGED <<rancherStore, ops>>
     \/ Env("apiError") /\ Return("error") /\ UNCHANGED rancherStore
  /\ UNCHANGED <<capiStore, caches, nsLabel, cleanupQueue, c, base, rid, rc,
                 agents>>

\* Lines 259-263.
DropCapiFinalizer ==
  /\ pc = "dropCapi"
  /\ LET dropped == [c EXCEPT !.fin = FALSE] IN
     \/ /\ CapiLock(c)
        /\ PutCapi(dropped)
        /\ c' = capi'
        /\ Return("ok")
        /\ UNCHANGED ops
     \/ /\ Fails(CapiLock(c))
        /\ c' = dropped
        /\ Return("error")
        /\ UNCHANGED capiStore
  /\ UNCHANGED <<caches, rancherStore, nsLabel, cleanupQueue, base, rid, rc,
                 agents>>

\* reconcileExternalFleetManagement, on the CAPI Cluster.
FleetManaged(o) == [o EXCEPT !.fleetFin = UseCAAPF /\ @]

\* shouldAutoImportUncached: the live Cluster replaces the local copy, from which
\* reconcileNormal has taken CAAPF's finalizer before, as long as it is found.
\* The namespace still comes from the cache.
ShouldAutoImportUncached ==
  /\ pc = "check"
  /\ \/ /\ capi.ex
        /\ c' = capi
        /\ IF ShouldAutoImport(capi, nsCache)
           THEN pc' = "create" /\ UNCHANGED <<queue, res>>
           ELSE Return("ok")
        /\ UNCHANGED ops
     \/ /\ ~capi.ex
        /\ c' = FleetManaged(c)
        /\ Return("ok")
        /\ UNCHANGED ops
     \/ /\ Env("apiError")
        /\ c' = FleetManaged(c)
        /\ Return("error")
  /\ UNCHANGED <<capiStore, caches, rancherStore, nsLabel, cleanupQueue, base,
                 rid, rc, agents>>

\* The GenerateName Create of reconcileNormal never meets an existing name; in
\* the model it fails when the names are used up.
Unused == {r \in RancherIds : ranchers[r].rv = 0}
CreateRancher ==
  /\ pc = "create"
  /\ \/ /\ \E r \in Unused :
             PutRancher(r, [NoRancher EXCEPT !.ex = TRUE, !.fin = TRUE,
                                             !.migrated = TRUE, !.meta = TRUE])
        /\ Return("requeue")
        /\ UNCHANGED ops
     \/ Fails(Unused # {}) /\ Return("error") /\ UNCHANGED rancherStore
  /\ UNCHANGED <<capiStore, caches, nsLabel, cleanupQueue, c, base, rid, rc,
                 agents>>

\* optOutOfClusterOwner, propagateLabels, reconcileExternalFleetManagement and
\* AddFinalizer, on the Rancher cluster.
WantedFinalizerOnly(o) == [o EXCEPT !.fin = TRUE]
Wanted(o) == [o EXCEPT !.fin = TRUE, !.meta = TRUE]

\* reconcileNormal on an existing Rancher cluster.  The downstream cluster and
\* the registration manifest answer, ask to wait, or fail.
ReconcileNormal ==
  /\ pc = "normal"
  /\ c' = FleetManaged(c)
  /\ \E answer \in {"ok", "requeue", "error"} :
     LET fleetMigrated == FleetDisabled \/ rc.migrated IN
     /\ rc.ready /\ fleetMigrated => answer = "ok"
     /\ rc' = [Wanted(rc) EXCEPT !.migrated =
                                @ \/ (rc.ready /\ ~fleetMigrated /\ answer = "ok")]
     /\ agents' = IF ~rc.ready /\ answer = "ok" THEN agents \cup {rid}
                                                ELSE agents
     /\ res' = answer
     /\ pc' = IF answer = "error" THEN "patch" ELSE "patchRancher"
  /\ UNCHANGED <<capiStore, caches, rancherStore, nsLabel, queue, cleanupQueue,
                 base, rid, ops>>

\* The deferred patch of the Rancher cluster (lines 270-280).
PatchRancher ==
  /\ pc = "patchRancher"
  /\ \/ /\ RancherLock(rid, rc)
        /\ PutRancher(rid, rc)
        /\ Return(res)
        /\ UNCHANGED ops
     \/ /\ Fails(RancherLock(rid, rc))
        /\ Return("error")
        /\ UNCHANGED rancherStore
  /\ UNCHANGED <<capiStore, caches, nsLabel, cleanupQueue, c, base, rid, rc,
                 agents>>

\* Lines 194-202: whatever reconcile left in the local copy is patched against
\* the version it started from.
OuterPatch ==
  /\ pc = "patch"
  /\ \/ /\ CapiLock(base)
        /\ PutCapi(c)
        /\ Finish(res # "ok")
        /\ UNCHANGED ops
     \/ Fails(CapiLock(base)) /\ Finish(TRUE) /\ UNCHANGED capiStore
  /\ UNCHANGED <<caches, rancherStore, nsLabel, cleanupQueue, agents>>

ImportStep ==
  \/ Start \/ AddFinalizer \/ Gate \/ ReconcileDelete \/ DropRancherFinalizer
  \/ DeleteDependents \/ DropCapiFinalizer \/ ShouldAutoImportUncached
  \/ CreateRancher \/ ReconcileNormal \/ PatchRancher \/ OuterPatch

-----------------------------------------------------------------------------
(***************************************************************************)
(* CAPICleanupReconciler.Reconcile.  A refused patch leaves the name in    *)
(* the workqueue, which is a stuttering step.                              *)
(***************************************************************************)
MustCleanNever(o) == FALSE
MustCleanLive(o) == o.ex /\ o.fin
MustClean(o) == o.ex /\ o.del /\ o.fin

Cleanup(r) ==
  /\ r \in cleanupQueue
  /\ IF MustClean(rancherCache[r])
     THEN /\ RancherLock(r, rancherCache[r])
          /\ PutRancher(r, [rancherCache[r] EXCEPT !.fin = FALSE])
     ELSE UNCHANGED rancherStore
  /\ cleanupQueue' = cleanupQueue \ {r}
  /\ UNCHANGED <<capiStore, caches, nsLabel, queue, pc, local, agents, ops>>

-----------------------------------------------------------------------------
(***************************************************************************)
(* Users, Cluster API, Rancher, and the restart of the manager.            *)
(***************************************************************************)
EditCapi(op, o) ==
  /\ Env(op)
  /\ capi.ex
  /\ PutCapi(o)
  /\ UNCHANGED <<caches, rancherStore, nsLabel, queue, cleanupQueue, pc, local,
                 agents>>

EditRancher(op, r, o) ==
  /\ Env(op)
  /\ ranchers[r].ex
  /\ PutRancher(r, o)
  /\ UNCHANGED <<capiStore, caches, nsLabel, queue, cleanupQueue, pc, local,
                 agents>>

DeleteCapi == ~capi.del /\ EditCapi("deleteCapi", [capi EXCEPT !.del = TRUE])
Relabel == \E l \in Labels \ {capi.label} :
             EditCapi("relabel", [capi EXCEPT !.label = l])
Unannotate == capi.imported /\ EditCapi("unannotate",
                                        [capi EXCEPT !.imported = FALSE])
Annotate == ~capi.imported /\ EditCapi("annotate",
                                       [capi EXCEPT !.imported = TRUE])
ControlPlane == EditCapi("controlPlane", [capi EXCEPT !.cp = ~@])
DeleteRancher(r) == Live(r) /\ EditRancher("deleteRancher", r,
                                       [ranchers[r] EXCEPT !.del = TRUE])
TouchRancher(r) == ranchers[r].meta /\ EditRancher("touchRancher", r,
                                       [ranchers[r] EXCEPT !.meta = FALSE])

\* The last finalizers of other controllers go, and so does the object.
CapiGone ==
  /\ capi.ex /\ capi.del /\ ~capi.fin /\ ~capi.fleetFin
  /\ PutCapi([capi EXCEPT !.ex = FALSE])
  /\ UNCHANGED <<caches, rancherStore, nsLabel, queue, cleanupQueue, pc, local,
                 agents, ops>>

RancherGone(r) ==
  /\ ranchers[r].ex /\ ranchers[r].del /\ ~ranchers[r].fin
  /\ PutRancher(r, [ranchers[r] EXCEPT !.ex = FALSE])
  /\ UNCHANGED <<capiStore, caches, nsLabel, queue, cleanupQueue, pc, local,
                 agents, ops>>

\* Rancher reports a cluster Ready once its agent runs downstream.
RancherReady(r) ==
  /\ Live(r) /\ r \in agents /\ ~ranchers[r].ready
  /\ PutRancher(r, [ranchers[r] EXCEPT !.ready = TRUE])
  /\ UNCHANGED <<capiStore, caches, nsLabel, queue, cleanupQueue, pc, local,
                 agents, ops>>

\* A new Cluster of the same name: a new object, and a newer version.
FreshCapi(l, f) == [NoCapi EXCEPT !.ex = TRUE, !.cp = TRUE, !.label = l,
                                  !.fleetFin = f]
RecreateCapi ==
  /\ ~capi.ex
  /\ Env("recreateCapi")
  /\ PutCapi(FreshCapi(capi.label, FALSE))
  /\ UNCHANGED <<caches, rancherStore, nsLabel, queue, cleanupQueue, pc, local,
                 agents>>

RelabelNamespace ==
  /\ Env("relabelNamespace")
  /\ nsLabel' = ~nsLabel
  /\ UNCHANGED <<capiStore, caches, rancherStore, queue, cleanupQueue, pc,
                 local, agents>>

\* The manager restarts: local state and workqueues are lost, the caches are
\* listed afresh, and every object arrives as a Create event.
Restart ==
  /\ Env("restart")
  /\ capiCache' = capi /\ capiEvents' = <<>>
  /\ rancherCache' = ranchers /\ rancherEvents' = <<>>
  /\ nsCache' = nsLabel
  /\ pc' = "idle"
  /\ queue' = (capi.ex /\ CapiPredicates(capi, nsLabel))
  /\ cleanupQueue' = {r \in RancherIds : ranchers[r].ex}
  /\ c' = NoCapi /\ base' = NoCapi /\ rid' = None /\ rc' = NoRancher
  /\ res' = "ok"
  /\ UNCHANGED <<capi, ranchers, nsLabel, agents>>

-----------------------------------------------------------------------------
AdoptedRancher == [NoRancher EXCEPT !.ex = TRUE, !.rv = 1, !.ready = TRUE]

Init ==
  /\ \E l \in ClusterLabels, f \in {FALSE, Adopted # {}} :
       capi = [FreshCapi(l, f) EXCEPT !.rv = 1]
  /\ capiCache = capi
  /\ capiEvents = <<>>
  /\ ranchers = [r \in RancherIds |-> IF r \in Adopted THEN AdoptedRancher
                                                       ELSE NoRancher]
  /\ rancherCache = ranchers
  /\ rancherEvents = <<>>
  /\ nsLabel \in NamespaceLabels
  /\ nsCache = nsLabel
  /\ queue = CapiPredicates(capi, nsLabel)
  /\ cleanupQueue = Adopted
  /\ pc = "idle"
  /\ c = NoCapi /\ base = NoCapi /\ rid = None /\ rc = NoRancher
  /\ res = "ok"
  /\ agents = Adopted
  /\ ops = 0

Environment ==
  \/ DeleteCapi \/ Relabel \/ Annotate \/ Unannotate \/ ControlPlane
  \/ RecreateCapi \/ RelabelNamespace \/ Restart \/ CapiGone
  \/ \E r \in RancherIds : \/ DeleteRancher(r) \/ TouchRancher(r)
                           \/ RancherGone(r) \/ RancherReady(r)

Next ==
  \/ DeliverCapi \/ DeliverRancher \/ DeliverNamespace \/ Resync
  \/ ImportStep
  \/ \E r \in RancherIds : Cleanup(r)
  \/ Environment

Spec == Init /\ [][Next]_vars

\* The workers, the watches and the resync period keep running; deletions other
\* controllers no longer block complete; the downstream cluster does not refuse
\* the manifest for ever.
Fairness ==
  /\ WF_vars(DeliverCapi) /\ WF_vars(DeliverRancher) /\ WF_vars(DeliverNamespace)
  /\ WF_vars(Resync)
  /\ WF_vars(ImportStep)
  /\ SF_vars(ReconcileNormal /\ res' = "ok")
  /\ \A r \in RancherIds : /\ WF_vars(Cleanup(r))
                           /\ WF_vars(RancherGone(r))
                           /\ WF_vars(RancherReady(r))
  /\ WF_vars(CapiGone)

FairSpec == Spec /\ Fairness

-----------------------------------------------------------------------------
(***************************************************************************)
(* Properties.                                                             *)
(***************************************************************************)

\* Every Rancher cluster that turtles holds and nobody deletes is tracked: the
\* CAPI Cluster still carries the finalizer that deletes it, or was released
\* from Rancher by the imported annotation (reconcile, reconcileDelete).
HeldOrReleased ==
  \A r \in RancherIds :
    Live(r) /\ ranchers[r].fin => (capi.ex /\ capi.fin) \/ capi.imported

\* The finalizer leaves a CAPI Cluster that was not released only after every
\* Rancher cluster made for it is gone or being deleted: DeleteAllOf comes
\* before the finalizer's removal on every path, failed calls included.
FinalizerOutlivesDependents ==
  [][capi.fin /\ ~capi'.fin /\ ~capi'.imported
       => \A r \in RancherIds : ~Live(r)]_vars

\* No step of the import reconciler undoes what others wrote since it read its
\* copies: label, condition and deletion of the Cluster, deletion and readiness
\* of a Rancher cluster survive, and the imported annotation is never lost.
NoLostUpdate ==
  [][ImportStep =>
       /\ capi'.label = capi.label /\ capi'.cp = capi.cp
       /\ capi'.del = capi.del
       /\ capi.imported => capi'.imported
       /\ \A r \in RancherIds : ranchers[r].ex =>
            /\ ranchers[r].del => ranchers'[r].del
            /\ ranchers'[r].ready = ranchers[r].ready]_vars

\* The turtles finalizer never leaves a Rancher cluster that is in use: neither
\* controller drops it before the deletion is visible on the API server.
HoldUntilDeletion ==
  [][\A r \in RancherIds :
       ranchers[r].fin /\ ~ranchers'[r].fin => ranchers[r].del]_vars

\* A released CAPI Cluster is not imported again: no Rancher cluster is created
\* while the imported annotation is set (reconcileDelete's comment).
NoReimport ==
  [][\A r \in RancherIds : ~ranchers[r].ex /\ ranchers'[r].ex
                             => ~capi.imported]_vars

\* The import reconciler lets a Rancher cluster go only after the CAPI Cluster
\* was released, so a restart between the two calls cannot lose the release.
ReleaseBeforeDrop ==
  [][DropRancherFinalizer /\ ranchers' # ranchers => capi.imported]_vars

\* Deleting a Rancher cluster releases its CAPI Cluster: whichever controller
\* drops the finalizer, the annotation is there unless the Cluster is going too.
DeletionReleases ==
  [][\A r \in RancherIds :
       ranchers[r].fin /\ ~ranchers'[r].fin
         => capi.imported \/ capi.del \/ ~capi.ex]_vars

\* The two owner labels identify a single Rancher cluster.
SingleRancherCluster == Cardinality({r \in RancherIds : Live(r)}) <= 1

\* A released Cluster does not keep the finalizer that nobody would remove.
ReleasedIsNotHeld == capi.ex /\ capi.imported => ~capi.fin

\* A deleted CAPI Cluster takes its Rancher clusters with it.
DependentsDeleted == capi.ex /\ capi.del ~> \A r \in RancherIds : ~Live(r)

\* A deleted CAPI Cluster goes away: turtles lets go of its finalizer.
CapiDeletionCompletes == capi.ex /\ capi.del ~> ~capi.ex

\* A deleted Rancher cluster goes away, whatever became of the CAPI Cluster.
RancherDeletionCompletes ==
  \A r \in RancherIds : ranchers[r].ex /\ ranchers[r].del ~> ~ranchers[r].ex

\* A Cluster labelled for import is imported: it ends up with a Ready Rancher
\* cluster that carries finalizer, annotations and labels, or is deleted or
\* released, unless its Rancher clusters were deleted and no name is left.
NamesUsedUp == Unused = {} /\ \A r \in RancherIds : ~Live(r)
ImportCompletes ==
  []<>(\/ capi.del \/ capi.imported \/ NamesUsedUp
       \/ \E r \in RancherIds : Live(r) /\ ranchers[r].ready /\ ranchers[r].fin
                                        /\ ranchers[r].meta)
=============================================================================
