------------------------ MODULE ClusterImportProofs ------------------------
(***************************************************************************)
(* Proofs about ClusterImport, for every set of names, every environment   *)
(* and every bound: the type invariant, and that the CAPI finalizer        *)
(* outlives the Rancher clusters it stands for.                            *)
(***************************************************************************)
EXTENDS ClusterImport, TLAPS

\* What a write to the Cluster, a no-op included, leaves behind.
LEMMA PutCapiType ==
  ASSUME TypeOK, NEW o \in CapiObject, PutCapi(o)
  PROVE  /\ capi' \in CapiObject
         /\ capiEvents' \in Seq(CapiObject)
  <1>1. CASE UNCHANGED capiStore
    BY <1>1 DEF TypeOK, capiStore
  <1>2. CASE ~UNCHANGED capiStore
    <2> DEFINE new == [o EXCEPT !.rv = capi.rv + 1]
    <2>1. capi' = new /\ capiEvents' = Append(capiEvents, capi')
      BY <1>2 DEF PutCapi
    <2>2. capi.rv + 1 \in Nat
      BY DEF TypeOK, CapiObject
    <2>3. new \in CapiObject
      BY <2>2 DEF CapiObject
    <2> HIDE DEF new
    <2>4. QED
      BY <2>1, <2>3 DEF TypeOK
  <1>3. QED
    BY <1>1, <1>2

\* The same for a Rancher cluster.
LEMMA PutRancherType ==
  ASSUME TypeOK, NEW r \in RancherIds, NEW o \in RancherObject,
         PutRancher(r, o)
  PROVE  /\ ranchers' \in [RancherIds -> RancherObject]
         /\ rancherEvents' \in Seq(RancherIds \X RancherObject)
  <1>1. CASE UNCHANGED rancherStore
    BY <1>1 DEF TypeOK, rancherStore
  <1>2. CASE ~UNCHANGED rancherStore
    <2> DEFINE new == [o EXCEPT !.rv = ranchers[r].rv + 1]
    <2>1. /\ ranchers' = [ranchers EXCEPT ![r] = new]
          /\ rancherEvents' = Append(rancherEvents, <<r, new>>)
      BY <1>2 DEF PutRancher
    <2>2. ranchers[r].rv + 1 \in Nat
      BY DEF TypeOK, RancherObject
    <2>3. new \in RancherObject
      BY <2>2 DEF RancherObject
    <2> HIDE DEF new
    <2>4. QED
      BY <2>1, <2>3 DEF TypeOK
  <1>3. QED
    BY <1>1, <1>2

\* The two empty objects have their types.
LEMMA EmptyTypes == NoCapi \in CapiObject /\ NoRancher \in RancherObject
  BY DEF NoCapi, NoRancher, CapiObject, RancherObject, Labels

\* Only environment steps and faults count, and only up to the bound.
LEMMA EnvType ==
  ASSUME TypeOK, NEW op, Env(op) PROVE ops' \in 0..MaxOps
  BY ClusterImportAssumption DEF TypeOK, Env

LEMMA FailsType ==
  ASSUME TypeOK, NEW ok, Fails(ok) PROVE ops' \in 0..MaxOps
  BY EnvType DEF TypeOK, Fails

LEMMA FinishType ==
  ASSUME TypeOK, NEW b \in BOOLEAN, Finish(b)
  PROVE  /\ pc' \in Steps /\ queue' \in BOOLEAN
         /\ c' \in CapiObject /\ base' \in CapiObject
         /\ rid' \in RancherIds \cup {None} /\ rc' \in RancherObject
         /\ res' \in {"ok", "requeue", "error"}
  BY EmptyTypes DEF TypeOK, Finish, Steps

LEMMA PredicatesType ==
  ASSUME NEW o \in CapiObject, NEW n \in BOOLEAN
  PROVE  CapiPredicates(o, n) \in BOOLEAN
  BY DEF CapiPredicates, ShouldAutoImport, CapiObject

-----------------------------------------------------------------------------
(***************************************************************************)
(* Type correctness, by action.                                            *)
(***************************************************************************)

\* Informer deliveries and the resync keep the types.
LEMMA InformerType ==
  ASSUME TypeOK, DeliverCapi \/ DeliverRancher \/ DeliverNamespace \/ Resync
  PROVE  TypeOK'
  <1>1. CASE DeliverCapi
    <2>1. capiCache' \in CapiObject /\ capiEvents' \in Seq(CapiObject)
      BY <1>1 DEF DeliverCapi, TypeOK
    <2>2. queue' \in BOOLEAN
      BY <1>1, <2>1, PredicatesType DEF DeliverCapi, TypeOK
    <2>3. QED
      BY <1>1, <2>1, <2>2 DEF DeliverCapi, TypeOK, rancherStore, local
  <1>2. CASE DeliverRancher
    <2>1. PICK r \in RancherIds, o \in RancherObject :
            Head(rancherEvents) = <<r, o>>
      BY <1>2 DEF DeliverRancher, TypeOK
    <2>2. /\ rancherCache' \in [RancherIds -> RancherObject]
          /\ rancherEvents' \in Seq(RancherIds \X RancherObject)
          /\ cleanupQueue' \subseteq RancherIds
      BY <1>2, <2>1 DEF DeliverRancher, TypeOK, CleanupRequests
    <2>3. queue' \in BOOLEAN
      BY <1>2, PredicatesType DEF DeliverRancher, TypeOK
    <2>4. QED
      BY <1>2, <2>2, <2>3 DEF DeliverRancher, TypeOK, capiStore, local
  <1>3. CASE DeliverNamespace
    <2>1. queue' \in BOOLEAN
      BY <1>3, PredicatesType DEF DeliverNamespace, TypeOK
    <2>2. QED
      BY <1>3, <2>1 DEF DeliverNamespace, TypeOK, capiStore, rancherStore, local
  <1>4. CASE Resync
    BY <1>4 DEF Resync, TypeOK, capiStore, rancherStore, caches, local
  <1>5. QED
    BY <1>1, <1>2, <1>3, <1>4

\* Reading the caches: Start and Gate.
LEMMA ReadType ==
  ASSUME TypeOK, Start \/ Gate PROVE TypeOK'
  <1>1. CASE Start
    BY <1>1 DEF Start, TypeOK, Steps, capiStore, rancherStore, caches
  <1>2. CASE Gate
    <2>0. UNCHANGED <<capiStore, caches, rancherStore, nsLabel, cleanupQueue,
                      agents, ops>>
      BY <1>2 DEF Gate
    <2>1. CASE (~c.cp \/ c.imported) /\ Finish(~c.cp)
      <3>1. (~c.cp) \in BOOLEAN
        BY DEF TypeOK, CapiObject
      <3>2. QED
        BY <2>0, <2>1, <3>1, FinishType
           DEF TypeOK, capiStore, rancherStore, caches
    <2>2. CASE c.cp /\ ~c.imported
      <3>1. base' = c /\ UNCHANGED <<queue, c, res>>
        BY <1>2, <2>2 DEF Gate
      <3>2. /\ pc' \in Steps
            /\ rid' \in RancherIds \cup {None} /\ rc' \in RancherObject
        <4>1. CASE UNCHANGED <<rid, rc>> /\ pc' \in {"dependents", "check"}
          BY <4>1 DEF TypeOK, Steps
        <4>2. CASE \E r \in RancherIds :
                     /\ rid' = r /\ rc' = rancherCache[r]
                     /\ pc' \in {"release", "dependents", "normal"}
          BY <4>2 DEF TypeOK, Steps
        <4>3. QED
          BY <1>2, <2>2, <4>1, <4>2 DEF Gate
      <3>3. QED
        BY <2>0, <3>1, <3>2 DEF TypeOK, capiStore, rancherStore, caches
    <2>3. QED
      BY <1>2, <2>1, <2>2 DEF Gate
  <1>3. QED
    BY <1>1, <1>2

\* The steps that write the Cluster.
LEMMA CapiWriteType ==
  ASSUME TypeOK,
         AddFinalizer \/ ReconcileDelete \/ DropCapiFinalizer \/ OuterPatch
  PROVE  TypeOK'
  <1>1. CASE AddFinalizer
    <2>0. UNCHANGED <<caches, rancherStore, nsLabel, cleanupQueue, agents>>
      BY <1>1 DEF AddFinalizer
    <2>1. CASE /\ PutCapi([capiCache EXCEPT !.fin = TRUE])
               /\ c' = capi' /\ pc' = "gate"
               /\ UNCHANGED <<queue, base, rid, rc, res, ops>>
      <3>1. [capiCache EXCEPT !.fin = TRUE] \in CapiObject
        BY DEF TypeOK, CapiObject
      <3>2. QED
        BY <2>0, <2>1, <3>1, PutCapiType DEF TypeOK, Steps, rancherStore, caches
    <2>2. CASE /\ \E ok \in BOOLEAN : Fails(ok)
               /\ Finish(TRUE) /\ UNCHANGED capiStore
      BY <2>0, <2>2, FailsType, FinishType
         DEF TypeOK, capiStore, rancherStore, caches
    <2>3. QED
      BY <1>1, <2>1, <2>2 DEF AddFinalizer, CapiLock
  <1>2. CASE ReconcileDelete
    <2>0. UNCHANGED <<caches, rancherStore, nsLabel, cleanupQueue, base, rid,
                      rc, agents>>
      BY <1>2 DEF ReconcileDelete
    <2>1. Released(c) \in CapiObject
      BY DEF Released, TypeOK, CapiObject
    <2>2. /\ pc' \in Steps /\ queue' = queue
          /\ res' \in {"ok", "requeue", "error"}
      BY <1>2 DEF ReconcileDelete, Return, Steps, TypeOK
    <2>3. /\ capi' \in CapiObject /\ capiEvents' \in Seq(CapiObject)
          /\ c' \in CapiObject /\ ops' \in 0..MaxOps
      <3>1. CASE PutCapi(Released(c)) /\ c' = capi' /\ UNCHANGED ops
        BY <2>1, <3>1, PutCapiType DEF TypeOK
      <3>2. CASE Fails(CapiLock(c)) /\ c' = Released(c) /\ UNCHANGED capiStore
        BY <2>1, <3>2, FailsType DEF TypeOK, capiStore
      <3>3. QED
        BY <1>2, <3>1, <3>2 DEF ReconcileDelete
    <2>4. QED
      BY <2>0, <2>2, <2>3 DEF TypeOK, rancherStore, caches
  <1>3. CASE DropCapiFinalizer
    <2> DEFINE dropped == [c EXCEPT !.fin = FALSE]
    <2>0. UNCHANGED <<caches, rancherStore, nsLabel, cleanupQueue, base, rid,
                      rc, agents>>
      BY <1>3 DEF DropCapiFinalizer
    <2>1. dropped \in CapiObject
      BY DEF TypeOK, CapiObject
    <2>2. /\ pc' \in Steps /\ queue' = queue
          /\ res' \in {"ok", "requeue", "error"}
      BY <1>3 DEF DropCapiFinalizer, Return, Steps, TypeOK
    <2>3. /\ capi' \in CapiObject /\ capiEvents' \in Seq(CapiObject)
          /\ c' \in CapiObject /\ ops' \in 0..MaxOps
      <3>1. CASE PutCapi(dropped) /\ c' = capi' /\ UNCHANGED ops
        BY <2>1, <3>1, PutCapiType DEF TypeOK
      <3>2. CASE Fails(CapiLock(c)) /\ c' = dropped /\ UNCHANGED capiStore
        BY <2>1, <3>2, FailsType DEF TypeOK, capiStore
      <3>3. QED
        BY <1>3, <3>1, <3>2 DEF DropCapiFinalizer
    <2>4. QED
      BY <2>0, <2>2, <2>3 DEF TypeOK, rancherStore, caches
  <1>4. CASE OuterPatch
    <2>0. UNCHANGED <<caches, rancherStore, nsLabel, cleanupQueue, agents>>
      BY <1>4 DEF OuterPatch
    <2>1. CASE PutCapi(c) /\ Finish(res # "ok") /\ UNCHANGED ops
      <3>1. (res # "ok") \in BOOLEAN /\ c \in CapiObject
        BY DEF TypeOK
      <3>2. QED
        BY <2>0, <2>1, <3>1, PutCapiType, FinishType
           DEF TypeOK, rancherStore, caches
    <2>2. CASE Fails(CapiLock(base)) /\ Finish(TRUE) /\ UNCHANGED capiStore
      BY <2>0, <2>2, FailsType, FinishType
         DEF TypeOK, capiStore, rancherStore, caches
    <2>3. QED
      BY <1>4, <2>1, <2>2 DEF OuterPatch
  <1>5. QED
    BY <1>1, <1>2, <1>3, <1>4

\* From the moment it is chosen to its last use, rancherCluster is not nil.
RidKnown ==
  pc \in {"release", "dropRancher", "normal", "patchRancher"}
    => rid \in RancherIds

\* The steps of the import reconciler that write Rancher clusters.
LEMMA RancherWriteType ==
  ASSUME TypeOK, RidKnown,
         \/ DropRancherFinalizer \/ DeleteDependents \/ CreateRancher
         \/ PatchRancher
  PROVE  TypeOK'
  <1> DEFINE Written == /\ ranchers' \in [RancherIds -> RancherObject]
                        /\ rancherEvents' \in Seq(RancherIds \X RancherObject)
  <1>0. UNCHANGED rancherStore => Written
    BY DEF TypeOK, rancherStore
  <1>1. CASE DropRancherFinalizer
    <2>1. rid \in RancherIds
      BY <1>1 DEF DropRancherFinalizer, RidKnown
    <2>2. [rc EXCEPT !.fin = FALSE] \in RancherObject
      BY DEF TypeOK, RancherObject
    <2>3. Written /\ ops' \in 0..MaxOps
      BY <1>0, <1>1, <2>1, <2>2, PutRancherType, FailsType
         DEF DropRancherFinalizer, TypeOK
    <2>4. QED
      BY <1>1, <2>3 DEF DropRancherFinalizer, Return, TypeOK, Steps,
                        capiStore, caches
  <1>2. CASE DeleteDependents
    <2>1. ASSUME NEW r \in RancherIds
          PROVE  [ranchers[r] EXCEPT !.del = TRUE] \in RancherObject
      BY DEF TypeOK, RancherObject
    <2>2. Dependents \subseteq RancherIds
      BY DEF Dependents
    <2>3. Written /\ ops' \in 0..MaxOps
      BY <1>0, <1>2, <2>1, <2>2, PutRancherType, EnvType
         DEF DeleteDependents, TypeOK
    <2>4. /\ pc' \in Steps /\ queue' = queue
          /\ res' \in {"ok", "requeue", "error"}
      BY <1>2 DEF DeleteDependents, Return, TypeOK, Steps
    <2>5. QED
      BY <1>2, <2>3, <2>4 DEF DeleteDependents, TypeOK, capiStore, caches
  <1>3. CASE CreateRancher
    <2> DEFINE new == [NoRancher EXCEPT !.ex = TRUE, !.fin = TRUE,
                                        !.migrated = TRUE, !.meta = TRUE]
    <2>1. new \in RancherObject
      BY DEF NoRancher, RancherObject
    <2>2. Unused \subseteq RancherIds
      BY DEF Unused
    <2>3. Written /\ ops' \in 0..MaxOps
      BY <1>0, <1>3, <2>1, <2>2, PutRancherType, FailsType
         DEF CreateRancher, TypeOK
    <2>4. QED
      BY <1>3, <2>3 DEF CreateRancher, Return, TypeOK, Steps, capiStore, caches
  <1>4. CASE PatchRancher
    <2>1. rid \in RancherIds /\ rc \in RancherObject
      BY <1>4 DEF PatchRancher, RidKnown, TypeOK
    <2>2. Written /\ ops' \in 0..MaxOps
      BY <1>0, <1>4, <2>1, PutRancherType, FailsType DEF PatchRancher, TypeOK
    <2>3. QED
      BY <1>4, <2>2 DEF PatchRancher, Return, TypeOK, Steps, capiStore, caches
  <1>5. QED
    BY <1>1, <1>2, <1>3, <1>4

\* CAAPF's finalizer is all that changes.
LEMMA FleetManagedEffect ==
  ASSUME NEW o \in CapiObject
  PROVE  LET managed == FleetManaged(o) IN
         /\ managed \in CapiObject
         /\ managed.ex = o.ex /\ managed.rv = o.rv /\ managed.del = o.del
         /\ managed.fin = o.fin /\ managed.imported = o.imported
         /\ managed.cp = o.cp /\ managed.label = o.label
  BY ClusterImportAssumption DEF FleetManaged, CapiObject

\* The two steps that write nothing on the API server.
LEMMA LocalType ==
  ASSUME TypeOK, RidKnown, ShouldAutoImportUncached \/ ReconcileNormal
  PROVE  TypeOK'
  <1>1. CASE ShouldAutoImportUncached
    <2>1. /\ c' \in CapiObject /\ pc' \in Steps /\ queue' = queue
          /\ res' \in {"ok", "requeue", "error"} /\ ops' \in 0..MaxOps
      BY <1>1, EnvType, FleetManagedEffect
         DEF ShouldAutoImportUncached, Return, TypeOK, Steps
    <2>2. QED
      BY <1>1, <2>1 DEF ShouldAutoImportUncached, TypeOK, capiStore, caches,
                        rancherStore
  <1>2. CASE ReconcileNormal
    <2>1. rid \in RancherIds
      BY <1>2 DEF ReconcileNormal, RidKnown
    <2>2. c' \in CapiObject
      BY <1>2, FleetManagedEffect DEF ReconcileNormal, TypeOK
    <2>3. PICK answer \in {"ok", "requeue", "error"} :
            /\ rc' = [Wanted(rc) EXCEPT !.migrated =
                        @ \/ (rc.ready /\ ~(FleetDisabled \/ rc.migrated)
                                      /\ answer = "ok")]
            /\ agents' = IF ~rc.ready /\ answer = "ok" THEN agents \cup {rid}
                                                       ELSE agents
            /\ res' = answer
            /\ pc' = IF answer = "error" THEN "patch" ELSE "patchRancher"
      BY <1>2 DEF ReconcileNormal
    <2>4. rc' \in RancherObject
      BY <2>3, ClusterImportAssumption DEF TypeOK, RancherObject, Wanted
    <2>5. QED
      BY <1>2, <2>1, <2>2, <2>3, <2>4
         DEF ReconcileNormal, TypeOK, Steps, capiStore, caches, rancherStore
  <1>3. QED
    BY <1>1, <1>2

\* The cleanup controller.
LEMMA CleanupType ==
  ASSUME TypeOK, NEW r \in RancherIds, Cleanup(r) PROVE TypeOK'
  <1>1. [rancherCache[r] EXCEPT !.fin = FALSE] \in RancherObject
    BY DEF TypeOK, RancherObject
  <1>2. /\ ranchers' \in [RancherIds -> RancherObject]
        /\ rancherEvents' \in Seq(RancherIds \X RancherObject)
    BY <1>1, PutRancherType DEF Cleanup, TypeOK, rancherStore
  <1>3. QED
    BY <1>2 DEF Cleanup, TypeOK, capiStore, caches, local

\* Users, Cluster API and Rancher.
LEMMA EditCapiType ==
  ASSUME TypeOK, NEW op, NEW o \in CapiObject, EditCapi(op, o) PROVE TypeOK'
  BY PutCapiType, EnvType DEF EditCapi, TypeOK, rancherStore, caches, local

LEMMA EditRancherType ==
  ASSUME TypeOK, NEW op, NEW r \in RancherIds, NEW o \in RancherObject,
         EditRancher(op, r, o)
  PROVE  TypeOK'
  BY PutRancherType, EnvType DEF EditRancher, TypeOK, capiStore, caches, local

LEMMA EnvironmentType ==
  ASSUME TypeOK, Environment PROVE TypeOK'
  <1>1. CASE DeleteCapi
    BY <1>1, EditCapiType DEF DeleteCapi, TypeOK, CapiObject
  <1>2. CASE Relabel
    <2>1. PICK l \in Labels : EditCapi("relabel", [capi EXCEPT !.label = l])
      BY <1>2 DEF Relabel
    <2>2. [capi EXCEPT !.label = l] \in CapiObject
      BY DEF TypeOK, CapiObject
    <2>3. QED
      BY <2>1, <2>2, EditCapiType
  <1>3. CASE Annotate \/ Unannotate
    BY <1>3, EditCapiType DEF Annotate, Unannotate, TypeOK, CapiObject
  <1>4. CASE ControlPlane
    BY <1>4, EditCapiType DEF ControlPlane, TypeOK, CapiObject
  <1>5. CASE RecreateCapi
    <2>1. FreshCapi(capi.label, FALSE) \in CapiObject
      BY DEF FreshCapi, NoCapi, TypeOK, CapiObject
    <2>2. QED
      BY <1>5, <2>1, PutCapiType, EnvType
         DEF RecreateCapi, TypeOK, rancherStore, caches, local
  <1>6. CASE RelabelNamespace
    BY <1>6, EnvType DEF RelabelNamespace, TypeOK, capiStore, rancherStore,
                         caches, local
  <1>7. CASE Restart
    <2>1. queue' \in BOOLEAN
      BY <1>7, PredicatesType DEF Restart, TypeOK
    <2>2. /\ capiEvents' \in Seq(CapiObject)
          /\ rancherEvents' \in Seq(RancherIds \X RancherObject)
      BY <1>7 DEF Restart
    <2>3. QED
      BY <1>7, <2>1, <2>2, EnvType, EmptyTypes DEF Restart, TypeOK, Steps
  <1>8. CASE CapiGone
    <2>1. [capi EXCEPT !.ex = FALSE] \in CapiObject
      BY DEF TypeOK, CapiObject
    <2>2. QED
      BY <1>8, <2>1, PutCapiType
         DEF CapiGone, TypeOK, rancherStore, caches, local
  <1>9. ASSUME NEW r \in RancherIds,
               DeleteRancher(r) \/ TouchRancher(r) \/ RancherGone(r)
                                \/ RancherReady(r)
        PROVE  TypeOK'
    <2>1. /\ [ranchers[r] EXCEPT !.del = TRUE] \in RancherObject
          /\ [ranchers[r] EXCEPT !.meta = FALSE] \in RancherObject
          /\ [ranchers[r] EXCEPT !.ex = FALSE] \in RancherObject
          /\ [ranchers[r] EXCEPT !.ready = TRUE] \in RancherObject
      BY DEF TypeOK, RancherObject
    <2>2. CASE DeleteRancher(r) \/ TouchRancher(r)
      BY <2>1, <2>2, EditRancherType DEF DeleteRancher, TouchRancher
    <2>3. CASE RancherGone(r) \/ RancherReady(r)
      BY <2>1, <2>3, PutRancherType
         DEF RancherGone, RancherReady, TypeOK, capiStore, caches, local
    <2>4. QED
      BY <1>9, <2>2, <2>3
  <1>10. QED
    BY <1>1, <1>2, <1>3, <1>4, <1>5, <1>6, <1>7, <1>8, <1>9 DEF Environment

\* Only Gate brings the reconciler to the steps that use rancherCluster.
LEMMA RidKnownStep ==
  ASSUME TypeOK, RidKnown, [Next]_vars PROVE RidKnown'
  <1>1. CASE ImportStep
    <2>1. CASE Gate
      <3>1. CASE pc' \in {"idle", "dependents", "check"}
        BY <3>1 DEF RidKnown
      <3>2. CASE rid' \in RancherIds
        BY <3>2 DEF RidKnown
      <3>3. QED
        BY <2>1, <3>1, <3>2 DEF Gate, Finish
    <2>2. CASE ReconcileDelete \/ ReconcileNormal
      BY <2>2 DEF ReconcileDelete, ReconcileNormal, Return, RidKnown
    <2>3. CASE Start \/ AddFinalizer \/ OuterPatch
      BY <2>3 DEF Start, AddFinalizer, OuterPatch, Finish, RidKnown
    <2>4. CASE \/ DropRancherFinalizer \/ DeleteDependents \/ DropCapiFinalizer
               \/ ShouldAutoImportUncached \/ CreateRancher \/ PatchRancher
      BY <2>4 DEF DropRancherFinalizer, DeleteDependents, DropCapiFinalizer,
                  ShouldAutoImportUncached, CreateRancher, PatchRancher,
                  Return, RidKnown
    <2>5. QED
      BY <1>1, <2>1, <2>2, <2>3, <2>4 DEF ImportStep
  <1>2. CASE Environment
    BY <1>2 DEF Environment, DeleteCapi, Relabel, Annotate, Unannotate,
                ControlPlane, RecreateCapi, RelabelNamespace, Restart, CapiGone,
                DeleteRancher, TouchRancher, RancherGone, RancherReady,
                EditCapi, EditRancher, local, RidKnown
  <1>3. CASE \/ DeliverCapi \/ DeliverRancher \/ DeliverNamespace \/ Resync
             \/ (\E r \in RancherIds : Cleanup(r)) \/ UNCHANGED vars
    BY <1>3 DEF DeliverCapi, DeliverRancher, DeliverNamespace, Resync, Cleanup,
                vars, local, RidKnown
  <1>4. QED
    BY <1>1, <1>2, <1>3 DEF Next

LEMMA TypeStep ==
  ASSUME TypeOK, RidKnown, [Next]_vars PROVE TypeOK'
  <1>1. CASE UNCHANGED vars
    BY <1>1 DEF vars, TypeOK
  <1>2. CASE Next
    BY <1>2, InformerType, ReadType, CapiWriteType, RancherWriteType, LocalType,
       CleanupType, EnvironmentType DEF Next, ImportStep
  <1>3. QED
    BY <1>1, <1>2

LEMMA TypeInit == Init => TypeOK /\ RidKnown
  <1> SUFFICES ASSUME Init PROVE TypeOK /\ RidKnown
    OBVIOUS
  <1>1. capi \in CapiObject
    <2>1. PICK l \in ClusterLabels, f \in {FALSE, Adopted # {}} :
            capi = [FreshCapi(l, f) EXCEPT !.rv = 1]
      BY DEF Init
    <2>2. l \in Labels /\ f \in BOOLEAN
      BY ClusterImportAssumption DEF Labels
    <2>3. QED
      BY <2>1, <2>2 DEF FreshCapi, NoCapi, CapiObject
  <1>2. AdoptedRancher \in RancherObject /\ NoRancher \in RancherObject
    BY DEF AdoptedRancher, NoRancher, RancherObject
  <1>3. nsLabel \in BOOLEAN
    BY ClusterImportAssumption DEF Init
  <1>4. queue \in BOOLEAN
    BY <1>1, <1>3, PredicatesType DEF Init
  <1>5. ranchers \in [RancherIds -> RancherObject]
    BY <1>2 DEF Init
  <1>6. QED
    BY <1>1, <1>3, <1>4, <1>5, EmptyTypes, ClusterImportAssumption
       DEF Init, TypeOK, RidKnown, Steps

\* Every variable of the import keeps its type, and the reconciler never
\* dereferences a nil Rancher cluster.
THEOREM TypeCorrect == Spec => [](TypeOK /\ RidKnown)
  <1>1. TypeOK /\ RidKnown /\ [Next]_vars => (TypeOK /\ RidKnown)'
    BY TypeStep, RidKnownStep
  <1>2. QED
    BY TypeInit, <1>1, PTL DEF Spec

-----------------------------------------------------------------------------
(***************************************************************************)
(* The CAPI finalizer outlives the Rancher clusters.                       *)
(***************************************************************************)

\* A copy is of an earlier version of the Cluster, or is the current one.
Coherent(o) == o.rv <= capi.rv /\ (o.rv = capi.rv => o = capi)

\* Every copy the controllers may compare with the server is coherent.
CopiesCoherent ==
  /\ capi.rv >= 1
  /\ ~capi.ex => ~capi.fin
  /\ Coherent(capiCache)
  /\ \A i \in DOMAIN capiEvents : Coherent(capiEvents[i])
  /\ Coherent(base)
  /\ pc = "gate" => Coherent(c)

NoneLive == \A r \in RancherIds : ~Live(r)

\* Why the outer Patch cannot drop the finalizer too early: the local copy is
\* released, or as it was read, or read again or written since, or the Rancher
\* clusters have been deleted.
PatchHarmless ==
  \/ c.imported
  \/ c.fin = base.fin
  \/ Coherent(c) /\ base.rv <= c.rv
  \/ NoneLive

LocalCopies ==
  /\ pc # "idle" => c.ex
  /\ pc \in {"dependents", "check", "normal", "patchRancher"}
       => c.fin = base.fin
  /\ pc = "create" => Coherent(c) /\ base.rv <= c.rv
  /\ pc = "dropRancher" => c.imported
  /\ pc = "dropCapi" => NoneLive
  /\ pc = "patch" => PatchHarmless

IInv == TypeOK /\ RidKnown /\ CopiesCoherent /\ LocalCopies

\* The Cluster stays, or moves to its next version, which the watch reports.
CapiMoves ==
  \/ capi' = capi /\ capiEvents' = capiEvents
  \/ capi'.rv = capi.rv + 1 /\ capiEvents' = Append(capiEvents, capi')

\* What a write leaves on the server: the content written, in any case.
LEMMA PutCapiEffect ==
  ASSUME TypeOK, NEW o \in CapiObject, PutCapi(o)
  PROVE  /\ CapiMoves
         /\ capi' = [o EXCEPT !.rv = capi'.rv]
         /\ capi'.ex = o.ex /\ capi'.fin = o.fin
  <1>1. CASE UNCHANGED capiStore
    BY <1>1 DEF CapiMoves, PutCapi, capiStore, TypeOK, CapiObject
  <1>2. CASE ~UNCHANGED capiStore
    BY <1>2 DEF CapiMoves, PutCapi, TypeOK, CapiObject
  <1>3. QED
    BY <1>1, <1>2

\* The local copies a write takes its content from are well typed.
LEMMA Copies ==
  ASSUME TypeOK
  PROVE  /\ Released(c) \in CapiObject
         /\ [c EXCEPT !.fin = FALSE] \in CapiObject
         /\ [capiCache EXCEPT !.fin = TRUE] \in CapiObject
         /\ c \in CapiObject
  BY DEF TypeOK, CapiObject, Released

\* A coherent copy stays coherent while the Cluster moves.
LEMMA CoherentMoves ==
  ASSUME TypeOK, TypeOK', CapiMoves, NEW o \in CapiObject, Coherent(o)
  PROVE  o.rv <= capi'.rv /\ (o.rv = capi'.rv => o = capi')
  <1>1. o.rv \in Nat /\ capi.rv \in Nat
    BY DEF TypeOK, CapiObject
  <1>2. CASE capi' = capi
    BY <1>2 DEF Coherent
  <1>3. CASE capi'.rv = capi.rv + 1
    BY <1>1, <1>3 DEF Coherent
  <1>4. QED
    BY <1>2, <1>3 DEF CapiMoves

\* The import reconciler's writes to the Cluster, one version at a time; it
\* never writes one that does not exist.
LEMMA ImportMoves ==
  ASSUME IInv, ImportStep
  PROVE  /\ CapiMoves
         /\ ~capi'.ex => ~capi'.fin
  <1> USE DEF IInv
  <1>1. CASE AddFinalizer
    <2>1. CASE UNCHANGED capiStore
      BY <2>1 DEF CapiMoves, capiStore, CopiesCoherent
    <2>2. CASE capiCache.ex /\ PutCapi([capiCache EXCEPT !.fin = TRUE])
      BY <2>2, PutCapiEffect, Copies DEF TypeOK, CapiObject
    <2>3. QED
      BY <1>1, <2>1, <2>2 DEF AddFinalizer
  <1>2. CASE ReconcileDelete
    <2>1. CASE UNCHANGED capiStore
      BY <2>1 DEF CapiMoves, capiStore, CopiesCoherent
    <2>2. CASE PutCapi(Released(c))
      <3>1. Released(c).fin = FALSE
        BY DEF Released, TypeOK, CapiObject
      <3>2. QED
        BY <2>2, <3>1, PutCapiEffect, Copies DEF TypeOK, CapiObject
    <2>3. QED
      BY <1>2, <2>1, <2>2 DEF ReconcileDelete
  <1>3. CASE DropCapiFinalizer
    <2>1. CASE UNCHANGED capiStore
      BY <2>1 DEF CapiMoves, capiStore, CopiesCoherent
    <2>2. CASE PutCapi([c EXCEPT !.fin = FALSE])
      BY <2>2, PutCapiEffect, Copies DEF TypeOK, CapiObject
    <2>3. QED
      BY <1>3, <2>1, <2>2 DEF DropCapiFinalizer
  <1>4. CASE OuterPatch
    <2>1. CASE UNCHANGED capiStore
      BY <2>1 DEF CapiMoves, capiStore, CopiesCoherent
    <2>2. CASE PutCapi(c)
      <3>1. c.ex
        BY <1>4 DEF OuterPatch, LocalCopies
      <3>2. QED
        BY <2>2, <3>1, PutCapiEffect, Copies DEF TypeOK, CapiObject
    <2>3. QED
      BY <1>4, <2>1, <2>2 DEF OuterPatch
  <1>5. CASE \/ Start \/ Gate \/ DropRancherFinalizer \/ DeleteDependents
             \/ ShouldAutoImportUncached \/ CreateRancher \/ ReconcileNormal
             \/ PatchRancher
    BY <1>5 DEF Start, Gate, DropRancherFinalizer, DeleteDependents,
                ShouldAutoImportUncached, CreateRancher, ReconcileNormal,
                PatchRancher, capiStore, CapiMoves, CopiesCoherent
  <1>6. QED
    BY <1>1, <1>2, <1>3, <1>4, <1>5 DEF ImportStep

\* So do all other steps, the replay of a restart apart; none of them drops
\* the finalizer.
LEMMA OtherMoves ==
  ASSUME IInv, [Next]_vars, ~ImportStep, ~Restart, ~DeliverCapi
  PROVE  /\ CapiMoves
         /\ ~capi'.ex => ~capi'.fin
         /\ capi.fin => capi'.fin
         /\ UNCHANGED <<capiCache, pc, local>>
  <1> USE DEF IInv
  <1>1. CASE DeleteCapi \/ Relabel \/ Annotate \/ Unannotate \/ ControlPlane
    <2> DEFINE Moved == /\ CapiMoves
                        /\ ~capi'.ex => ~capi'.fin
                        /\ capi.fin => capi'.fin
                        /\ UNCHANGED <<capiCache, pc, local>>
    <2>1. ASSUME NEW op, NEW o \in CapiObject, EditCapi(op, o),
                 o.ex = capi.ex, o.fin = capi.fin
          PROVE  Moved
      BY <2>1, PutCapiEffect
         DEF EditCapi, TypeOK, CapiObject, caches, local, CopiesCoherent
    <2>2. CASE DeleteCapi
      BY <2>1, <2>2 DEF DeleteCapi, TypeOK, CapiObject
    <2>3. CASE Annotate
      BY <2>1, <2>3 DEF Annotate, TypeOK, CapiObject
    <2>4. CASE Unannotate
      BY <2>1, <2>4 DEF Unannotate, TypeOK, CapiObject
    <2>5. CASE ControlPlane
      BY <2>1, <2>5 DEF ControlPlane, TypeOK, CapiObject
    <2>6. CASE Relabel
      <3>1. PICK l \in Labels : EditCapi("relabel", [capi EXCEPT !.label = l])
        BY <2>6 DEF Relabel
      <3>2. QED
        BY <2>1, <3>1 DEF TypeOK, CapiObject
    <2>7. QED
      BY <1>1, <2>2, <2>3, <2>4, <2>5, <2>6
  <1>2. CASE RecreateCapi
    <2>1. /\ FreshCapi(capi.label, FALSE) \in CapiObject
          /\ FreshCapi(capi.label, FALSE).ex
      BY DEF FreshCapi, NoCapi, TypeOK, CapiObject
    <2>2. QED
      BY <1>2, <2>1, PutCapiEffect
         DEF RecreateCapi, TypeOK, CapiObject, caches, local, CopiesCoherent
  <1>3. CASE CapiGone
    <2>1. /\ [capi EXCEPT !.ex = FALSE] \in CapiObject
          /\ [capi EXCEPT !.ex = FALSE].fin = capi.fin
      BY DEF TypeOK, CapiObject
    <2>2. QED
      BY <1>3, <2>1, PutCapiEffect
         DEF CapiGone, TypeOK, CapiObject, caches, local, CopiesCoherent
  <1>4. CASE \/ DeliverRancher \/ DeliverNamespace \/ Resync
             \/ RelabelNamespace \/ UNCHANGED vars
             \/ \E r \in RancherIds :
                  \/ Cleanup(r) \/ DeleteRancher(r) \/ TouchRancher(r)
                  \/ RancherGone(r) \/ RancherReady(r)
    BY <1>4 DEF DeliverRancher, DeliverNamespace, Resync, RelabelNamespace,
                Cleanup, DeleteRancher, TouchRancher, RancherGone, RancherReady,
                EditRancher, vars, caches, capiStore, local, CapiMoves,
                CopiesCoherent
  <1>5. QED
    BY <1>1, <1>2, <1>3, <1>4 DEF Next, Environment

\* What the steps of the import reconciler do to the copies.
LEMMA CopiesStep ==
  ASSUME IInv, TypeOK', [Next]_vars PROVE CopiesCoherent'
  <1> USE DEF IInv
  <1>1. CASE DeliverCapi
    <2>1. /\ capiCache' = capiEvents[1]
          /\ 1 \in DOMAIN capiEvents
          /\ \A i \in DOMAIN capiEvents' : /\ i + 1 \in DOMAIN capiEvents
                                           /\ capiEvents'[i] = capiEvents[i + 1]
      BY <1>1 DEF DeliverCapi, TypeOK
    <2>2. capi' = capi /\ UNCHANGED <<pc, local>>
      BY <1>1 DEF DeliverCapi, capiStore
    <2>3. QED
      BY <2>1, <2>2 DEF CopiesCoherent, Coherent, local
  <1>2. CASE Restart
    BY <1>2 DEF Restart, CopiesCoherent, Coherent, NoCapi, TypeOK, CapiObject
  <1>3. ASSUME CapiMoves, ~capi'.ex => ~capi'.fin, capiCache' = capiCache,
               \/ base' = base \/ base' = NoCapi
               \/ pc = "gate" /\ base' = c,
               pc' = "gate" => \/ c' = capi' \/ c' = capiCache
                               \/ pc = "gate" /\ c' = c
        PROVE  CopiesCoherent'
    <2>1. capi'.rv >= 1
      BY <1>3 DEF CapiMoves, CopiesCoherent, TypeOK, CapiObject
    <2>2. Coherent(capiCache)'
      BY <1>3, CoherentMoves DEF CopiesCoherent, Coherent, TypeOK
    <2>3. Coherent(base)'
      <3>1. CASE base' = NoCapi
        BY <2>1, <3>1 DEF Coherent, NoCapi, TypeOK, CapiObject
      <3>2. CASE base' = base \/ (pc = "gate" /\ base' = c)
        BY <1>3, <3>2, CoherentMoves DEF CopiesCoherent, Coherent, TypeOK
      <3>3. QED
        BY <1>3, <3>1, <3>2
    <2>4. pc' = "gate" => Coherent(c)'
      <3>1. CASE c' = capi'
        BY <3>1 DEF Coherent, TypeOK, CapiObject
      <3>2. CASE c' = capiCache \/ (pc = "gate" /\ c' = c)
        BY <1>3, <3>2, CoherentMoves DEF CopiesCoherent, Coherent, TypeOK
      <3>3. QED
        BY <1>3, <3>1, <3>2
    <2>5. ASSUME NEW i \in DOMAIN capiEvents'
          PROVE  Coherent(capiEvents[i])'
      <3>1. CASE i \in DOMAIN capiEvents /\ capiEvents'[i] = capiEvents[i]
        <4>1. capiEvents[i] \in CapiObject /\ Coherent(capiEvents[i])
          BY <3>1 DEF TypeOK, CopiesCoherent
        <4>2. QED
          BY <1>3, <3>1, <4>1, CoherentMoves DEF Coherent
      <3>2. CASE capiEvents'[i] = capi'
        BY <3>2 DEF Coherent, TypeOK, CapiObject
      <3>3. QED
        <4>1. CASE capiEvents' = capiEvents
          BY <3>1, <4>1
        <4>2. CASE capiEvents' = Append(capiEvents, capi')
          BY <3>1, <3>2, <4>2 DEF TypeOK
        <4>3. QED
          BY <1>3, <4>1, <4>2 DEF CapiMoves
    <2>6. QED
      BY <1>3, <2>1, <2>2, <2>3, <2>4, <2>5 DEF CopiesCoherent
  <1>4. CASE ImportStep
    <2>1. capiCache' = capiCache
      BY <1>4 DEF ImportStep, Start, AddFinalizer, Gate, ReconcileDelete,
                  DropRancherFinalizer, DeleteDependents, DropCapiFinalizer,
                  ShouldAutoImportUncached, CreateRancher, ReconcileNormal,
                  PatchRancher, OuterPatch, caches
    <2>2. \/ base' = base \/ base' = NoCapi \/ (pc = "gate" /\ base' = c)
      BY <1>4 DEF ImportStep, Start, AddFinalizer, Gate, ReconcileDelete,
                  DropRancherFinalizer, DeleteDependents, DropCapiFinalizer,
                  ShouldAutoImportUncached, CreateRancher, ReconcileNormal,
                  PatchRancher, OuterPatch, Finish
    <2>3. pc' = "gate" => c' = capi' \/ c' = capiCache
      <3>1. CASE Start \/ AddFinalizer
        BY <3>1 DEF Start, AddFinalizer, Finish
      <3>2. CASE ~Start /\ ~AddFinalizer
        BY <1>4, <3>2
           DEF ImportStep, Gate, ReconcileDelete, DropRancherFinalizer,
               DeleteDependents, DropCapiFinalizer, ShouldAutoImportUncached,
               CreateRancher, ReconcileNormal, PatchRancher, OuterPatch,
               Finish, Return
      <3>3. QED
        BY <3>1, <3>2
    <2>4. QED
      BY <1>3, <1>4, <2>1, <2>2, <2>3, ImportMoves
  <1>5. CASE ~ImportStep /\ ~Restart /\ ~DeliverCapi
    BY <1>3, <1>5, OtherMoves DEF local
  <1>6. QED
    BY <1>1, <1>2, <1>4, <1>5

\* A write to one Rancher cluster replaces its content only.
LEMMA PutRancherEffect ==
  ASSUME TypeOK, NEW r \in RancherIds, NEW o \in RancherObject,
         PutRancher(r, o)
  PROVE  /\ ranchers'[r].ex = o.ex /\ ranchers'[r].del = o.del
         /\ \A x \in RancherIds \ {r} : ranchers'[x] = ranchers[x]
  <1>1. CASE UNCHANGED rancherStore
    BY <1>1 DEF PutRancher, rancherStore, TypeOK, RancherObject
  <1>2. CASE ~UNCHANGED rancherStore
    BY <1>2 DEF PutRancher, TypeOK, RancherObject
  <1>3. QED
    BY <1>1, <1>2

\* While the Cluster's finalizer is being dropped nothing brings a Rancher
\* cluster to life: only the reconciler creates them, and it is busy.
LEMMA NoneLiveStep ==
  ASSUME IInv, NoneLive, pc \in {"dropCapi", "patch"}, [Next]_vars
  PROVE  NoneLive'
  <1> USE DEF IInv
  <1>1. ASSUME ranchers' = ranchers PROVE NoneLive'
    BY <1>1 DEF NoneLive, Live
  <1>2. ASSUME NEW r \in RancherIds, NEW o \in RancherObject,
               PutRancher(r, o), o.del \/ ~o.ex
        PROVE  NoneLive'
    BY <1>2, PutRancherEffect DEF NoneLive, Live
  <1>3. CASE ImportStep
    BY <1>1, <1>3
       DEF ImportStep, Start, AddFinalizer, Gate, ReconcileDelete,
           DropRancherFinalizer, DeleteDependents, DropCapiFinalizer,
           ShouldAutoImportUncached, CreateRancher, ReconcileNormal,
           PatchRancher, OuterPatch, rancherStore
  <1>4. ASSUME NEW r \in RancherIds, Cleanup(r) PROVE NoneLive'
    <2>1. CASE MustClean(rancherCache[r])
      <3>1. /\ [rancherCache[r] EXCEPT !.fin = FALSE] \in RancherObject
            /\ [rancherCache[r] EXCEPT !.fin = FALSE].del
        BY <2>1 DEF MustClean, TypeOK, RancherObject
      <3>2. QED
        BY <1>2, <1>4, <2>1, <3>1 DEF Cleanup
    <2>2. CASE ~MustClean(rancherCache[r])
      BY <1>1, <1>4, <2>2 DEF Cleanup, rancherStore
    <2>3. QED
      BY <2>1, <2>2
  <1>5. ASSUME NEW r \in RancherIds, TouchRancher(r) \/ RancherGone(r)
        PROVE  NoneLive'
    <2>1. /\ [ranchers[r] EXCEPT !.meta = FALSE] \in RancherObject
          /\ [ranchers[r] EXCEPT !.meta = FALSE].del = ranchers[r].del
          /\ [ranchers[r] EXCEPT !.meta = FALSE].ex = ranchers[r].ex
          /\ [ranchers[r] EXCEPT !.ex = FALSE] \in RancherObject
          /\ ~[ranchers[r] EXCEPT !.ex = FALSE].ex
      BY DEF TypeOK, RancherObject
    <2>2. ranchers[r].del \/ ~ranchers[r].ex
      BY DEF NoneLive, Live
    <2>3. QED
      BY <1>2, <1>5, <2>1, <2>2 DEF TouchRancher, RancherGone, EditRancher
  <1>6. ASSUME NEW r \in RancherIds, DeleteRancher(r) \/ RancherReady(r)
        PROVE  FALSE
    BY <1>6 DEF DeleteRancher, RancherReady, NoneLive
  <1>7. CASE \/ DeliverCapi \/ DeliverRancher \/ DeliverNamespace \/ Resync
             \/ DeleteCapi \/ Relabel \/ Annotate \/ Unannotate \/ ControlPlane
             \/ RecreateCapi \/ RelabelNamespace \/ Restart \/ CapiGone
             \/ UNCHANGED vars
    BY <1>1, <1>7
       DEF DeliverCapi, DeliverRancher, DeliverNamespace, Resync, DeleteCapi,
           Relabel, Annotate, Unannotate, ControlPlane, EditCapi, RecreateCapi,
           RelabelNamespace, Restart, CapiGone, rancherStore, vars
  <1>8. QED
    BY <1>3, <1>4, <1>5, <1>6, <1>7 DEF Next, Environment

\* The claims about the local copies, at every step of the reconciler.
LEMMA LocalCopiesStep ==
  ASSUME IInv, TypeOK', [Next]_vars PROVE LocalCopies'
  <1> USE DEF IInv
  <1>1. ASSUME pc' = "idle" PROVE LocalCopies'
    BY <1>1 DEF LocalCopies
  <1>2. ASSUME c'.ex, pc' = "patch", c'.imported \/ c'.fin = base'.fin
        PROVE  LocalCopies'
    BY <1>2 DEF LocalCopies, PatchHarmless
  <1>3. CASE DeliverCapi
    BY <1>3 DEF DeliverCapi, capiStore, local, rancherStore, LocalCopies,
                PatchHarmless, Coherent, NoneLive, Live
  <1>4. CASE Restart
    BY <1>1, <1>4 DEF Restart
  <1>5. CASE ~ImportStep /\ ~Restart /\ ~DeliverCapi
    <2>1. CapiMoves /\ UNCHANGED <<pc, c, base>>
      BY <1>5, OtherMoves DEF local
    <2>2. Coherent(c) => Coherent(c)'
      BY <2>1, CoherentMoves DEF Coherent, TypeOK
    <2>3. NoneLive /\ pc \in {"dropCapi", "patch"} => NoneLive'
      BY NoneLiveStep
    <2>4. QED
      BY <2>1, <2>2, <2>3 DEF LocalCopies, PatchHarmless
  <1>6. CASE Start
    BY <1>6 DEF Start, LocalCopies
  <1>7. CASE AddFinalizer
    <2>1. CASE Finish(TRUE)
      BY <1>1, <2>1 DEF Finish
    <2>2. CASE /\ capiCache.ex /\ PutCapi([capiCache EXCEPT !.fin = TRUE])
               /\ c' = capi' /\ pc' = "gate"
      <3>1. capi'.ex
        <4>1. [capiCache EXCEPT !.fin = TRUE].ex
          BY <2>2 DEF TypeOK, CapiObject
        <4>2. QED
          BY <2>2, <4>1, PutCapiEffect, Copies
      <3>2. QED
        BY <2>2, <3>1 DEF LocalCopies
    <2>3. QED
      BY <1>7, <2>1, <2>2 DEF AddFinalizer
  <1>8. CASE Gate
    <2>1. CASE pc' = "idle"
      BY <1>1, <2>1
    <2>2. CASE /\ pc = "gate" /\ base' = c /\ c' = c
               /\ pc' \in {"dependents", "check", "release", "normal"}
      BY <2>2 DEF LocalCopies
    <2>3. QED
      BY <1>8, <2>1, <2>2 DEF Gate, Finish
  <1>9. CASE ReconcileDelete
    <2>1. c.ex
      BY <1>9 DEF ReconcileDelete, LocalCopies
    <2>2. c'.ex /\ c'.imported
      <3>1. Released(c).ex /\ Released(c).imported
        BY <2>1 DEF Released, TypeOK, CapiObject
      <3>2. CASE c' = Released(c)
        BY <3>1, <3>2
      <3>3. CASE PutCapi(Released(c)) /\ c' = capi'
        BY <3>1, <3>3, PutCapiEffect, Copies DEF TypeOK, CapiObject
      <3>4. QED
        BY <1>9, <3>2, <3>3 DEF ReconcileDelete
    <2>3. pc' \in {"dropRancher", "patch"}
      BY <1>9 DEF ReconcileDelete, Return
    <2>4. QED
      BY <2>2, <2>3 DEF LocalCopies, PatchHarmless
  <1>10. CASE DropRancherFinalizer
    BY <1>2, <1>10 DEF DropRancherFinalizer, Return, LocalCopies
  <1>11. CASE DeleteDependents
    <2>1. c' = c /\ base' = base /\ c.ex /\ c.fin = base.fin
      BY <1>11 DEF DeleteDependents, LocalCopies
    <2>2. CASE pc' = "patch"
      BY <1>2, <2>1, <2>2
    <2>3. CASE pc' = "dropCapi" /\ Dependents = {} /\ ranchers' = ranchers
      BY <2>1, <2>3 DEF LocalCopies, Dependents, NoneLive, Live
    <2>4. CASE pc' = pc
      BY <1>11, <2>1, <2>4 DEF DeleteDependents, LocalCopies
    <2>5. QED
      BY <1>11, <2>2, <2>3, <2>4 DEF DeleteDependents, Return, rancherStore
  <1>12. CASE DropCapiFinalizer
    <2>1. NoneLive' /\ c.ex
      BY <1>12, NoneLiveStep DEF DropCapiFinalizer, LocalCopies
    <2>2. c'.ex
      <3>1. CASE c' = [c EXCEPT !.fin = FALSE]
        BY <2>1, <3>1 DEF TypeOK, CapiObject
      <3>2. CASE PutCapi([c EXCEPT !.fin = FALSE]) /\ c' = capi'
        <4>1. [c EXCEPT !.fin = FALSE].ex
          BY <2>1 DEF TypeOK, CapiObject
        <4>2. QED
          BY <3>2, <4>1, PutCapiEffect, Copies
      <3>3. QED
        BY <1>12, <3>1, <3>2 DEF DropCapiFinalizer
    <2>3. pc' = "patch"
      BY <1>12 DEF DropCapiFinalizer, Return
    <2>4. QED
      BY <2>1, <2>2, <2>3 DEF LocalCopies, PatchHarmless
  <1>13. CASE ShouldAutoImportUncached
    <2>1. base' = base /\ capi' = capi /\ pc = "check" /\ pc' \in {"create", "patch"}
      BY <1>13 DEF ShouldAutoImportUncached, Return, capiStore
    <2>2. CASE capi.ex /\ c' = capi
      <3>1. Coherent(c)'
        BY <2>1, <2>2 DEF Coherent, TypeOK, CapiObject
      <3>2. base'.rv <= c'.rv
        BY <2>1, <2>2 DEF Coherent, CopiesCoherent
      <3>3. QED
        BY <2>1, <2>2, <3>1, <3>2 DEF LocalCopies, PatchHarmless
    <2>3. CASE c' = FleetManaged(c) /\ pc' = "patch"
      <3>1. c'.ex = c.ex /\ c'.fin = c.fin
        BY <2>3, FleetManagedEffect DEF TypeOK
      <3>2. QED
        BY <2>1, <2>3, <3>1 DEF LocalCopies, PatchHarmless
    <2>4. QED
      BY <1>13, <2>2, <2>3 DEF ShouldAutoImportUncached, Return
  <1>14. CASE CreateRancher
    <2>1. /\ c' = c /\ base' = base /\ capi' = capi
          /\ pc = "create" /\ pc' = "patch"
      BY <1>14 DEF CreateRancher, Return, capiStore
    <2>2. QED
      BY <2>1 DEF LocalCopies, PatchHarmless, Coherent
  <1>15. CASE ReconcileNormal
    <2>1. c'.ex = c.ex /\ c'.fin = c.fin
      BY <1>15, FleetManagedEffect DEF ReconcileNormal, TypeOK
    <2>2. /\ base' = base /\ pc = "normal" /\ pc' \in {"patch", "patchRancher"}
      BY <1>15 DEF ReconcileNormal
    <2>3. QED
      BY <2>1, <2>2 DEF LocalCopies, PatchHarmless
  <1>16. CASE PatchRancher
    BY <1>2, <1>16 DEF PatchRancher, Return, LocalCopies
  <1>17. CASE OuterPatch
    BY <1>1, <1>17 DEF OuterPatch, Finish
  <1>18. QED
    BY <1>3, <1>4, <1>5, <1>6, <1>7, <1>8, <1>9, <1>10, <1>11, <1>12, <1>13,
       <1>14, <1>15, <1>16, <1>17 DEF ImportStep

LEMMA IInvInit == Init => IInv
  <1> SUFFICES ASSUME Init PROVE IInv
    OBVIOUS
  <1>1. TypeOK /\ RidKnown
    BY TypeInit
  <1>2. capi.rv = 1 /\ capi.ex
    BY <1>1 DEF Init, FreshCapi, NoCapi, TypeOK, CapiObject
  <1>3. CopiesCoherent
    BY <1>1, <1>2 DEF Init, CopiesCoherent, Coherent, NoCapi, TypeOK, CapiObject
  <1>4. QED
    BY <1>1, <1>3 DEF Init, IInv, LocalCopies

LEMMA IInvStep == IInv /\ [Next]_vars => IInv'
  <1> SUFFICES ASSUME IInv, [Next]_vars PROVE IInv'
    OBVIOUS
  <1>1. TypeOK' /\ RidKnown'
    BY TypeStep, RidKnownStep DEF IInv
  <1>2. QED
    BY <1>1, CopiesStep, LocalCopiesStep DEF IInv

\* The step that drops the Cluster's finalizer without a release finds every
\* Rancher cluster gone or being deleted.
LEMMA DropIsSafe ==
  ASSUME IInv, [Next]_vars, capi.fin, ~capi'.fin, ~capi'.imported
  PROVE  NoneLive
  <1> USE DEF IInv
  <1>1. CASE DeliverCapi \/ Restart
    BY <1>1 DEF DeliverCapi, Restart
  <1>2. CASE ~ImportStep /\ ~Restart /\ ~DeliverCapi
    BY <1>2, OtherMoves
  <1>3. CASE AddFinalizer
    <2>1. PutCapi([capiCache EXCEPT !.fin = TRUE])
      BY <1>3 DEF AddFinalizer, capiStore
    <2>2. QED
      BY <2>1, PutCapiEffect, Copies DEF TypeOK, CapiObject
  <1>4. CASE ReconcileDelete
    <2>1. PutCapi(Released(c)) /\ Released(c).imported
      BY <1>4 DEF ReconcileDelete, capiStore, Released, TypeOK, CapiObject
    <2>2. QED
      BY <2>1, PutCapiEffect, Copies DEF TypeOK, CapiObject
  <1>5. CASE DropCapiFinalizer
    BY <1>5 DEF DropCapiFinalizer, LocalCopies
  <1>6. CASE OuterPatch
    <2>1. capi.rv = base.rv /\ PutCapi(c) /\ PatchHarmless
      BY <1>6 DEF OuterPatch, CapiLock, capiStore, LocalCopies
    <2>2. ~c.fin /\ ~c.imported
      BY <2>1, PutCapiEffect, Copies DEF TypeOK, CapiObject
    <2>3. base = capi
      BY <2>1 DEF CopiesCoherent, Coherent
    <2>4. CASE Coherent(c) /\ base.rv <= c.rv
      <3>1. c.rv \in Nat /\ capi.rv \in Nat /\ base.rv \in Nat
        BY DEF TypeOK, CapiObject
      <3>2. c = capi
        BY <2>1, <2>4, <3>1 DEF Coherent
      <3>3. QED
        BY <2>2, <3>2
    <2>5. QED
      BY <2>1, <2>2, <2>3, <2>4 DEF PatchHarmless
  <1>7. CASE \/ Start \/ Gate \/ DropRancherFinalizer \/ DeleteDependents
             \/ ShouldAutoImportUncached \/ CreateRancher \/ ReconcileNormal
             \/ PatchRancher
    BY <1>7 DEF Start, Gate, DropRancherFinalizer, DeleteDependents,
                ShouldAutoImportUncached, CreateRancher, ReconcileNormal,
                PatchRancher, capiStore
  <1>8. QED
    BY <1>1, <1>2, <1>3, <1>4, <1>5, <1>6, <1>7 DEF ImportStep

\* For every environment: the finalizer of an unreleased CAPI Cluster goes only
\* after all its Rancher clusters are gone or being deleted (Reconcile).
THEOREM FinalizerSafety == Spec => FinalizerOutlivesDependents
  <1>1. IInv /\ [Next]_vars
          => [capi.fin /\ ~capi'.fin /\ ~capi'.imported
                => \A r \in RancherIds : ~Live(r)]_vars
    BY DropIsSafe DEF NoneLive
  <1>2. QED
    BY IInvInit, IInvStep, <1>1, PTL DEF Spec, FinalizerOutlivesDependents
=============================================================================
