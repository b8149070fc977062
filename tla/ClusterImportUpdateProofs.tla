----------------------- MODULE ClusterImportUpdateProofs -----------------------
(***************************************************************************)
(* Proofs about what ClusterImport writes, for every environment: the      *)
(* import reconciler undoes nothing that others wrote since it read its    *)
(* copies, and no Rancher cluster in use is let go.                        *)
(***************************************************************************)
EXTENDS ClusterImportProofs

(***************************************************************************)
(* The local copy of the Cluster, against the object of the outer Patch.   *)
(***************************************************************************)

\* What a patch from base to the local copy would change: the finalizers, and the
\* annotation if it sets it; or base is stale as soon as the copy differs from it.
FollowsBase ==
  \/ /\ c.label = base.label /\ c.cp = base.cp /\ c.del = base.del
     /\ base.imported => c.imported
  \/ Coherent(c) /\ base.rv <= c.rv

CopiesFollow ==
  /\ pc \in {"release", "dependents", "dropCapi", "check", "normal"} => c = base
  /\ pc \in {"dropRancher", "create", "patchRancher", "patch"} => FollowsBase

\* Writing what the patch was computed from brings the copy to the next version.
LEMMA WrittenFollows ==
  ASSUME TypeOK, TypeOK', c = base, CapiLock(c), NEW o \in CapiObject, PutCapi(o),
         c' = capi', base' = base
  PROVE  FollowsBase'
  <1>1. capi.rv \in Nat /\ base.rv = capi.rv
    BY DEF TypeOK, CapiObject, CapiLock
  <1>2. capi'.rv >= capi.rv
    BY <1>1, PutCapiEffect DEF CapiMoves
  <1>3. QED
    BY <1>1, <1>2 DEF FollowsBase, Coherent, TypeOK, CapiObject

LEMMA CopiesFollowStep ==
  ASSUME IInv, TypeOK', CopiesFollow, [Next]_vars PROVE CopiesFollow'
  <1> USE DEF IInv
  <1>1. ASSUME pc' \in {"idle", "finalizer", "gate"} PROVE CopiesFollow'
    BY <1>1 DEF CopiesFollow
  <1>2. ASSUME capi' = capi, UNCHANGED <<c, base>>, c = base \/ FollowsBase,
               pc' \in {"dropRancher", "create", "patchRancher", "patch"}
        PROVE  CopiesFollow'
    BY <1>2 DEF CopiesFollow, FollowsBase, Coherent
  <1>3. CASE Restart \/ Start \/ AddFinalizer \/ OuterPatch
    BY <1>1, <1>3 DEF Restart, Start, AddFinalizer, OuterPatch, Finish
  <1>4. CASE DeliverCapi
    BY <1>4 DEF DeliverCapi, capiStore, local, CopiesFollow, FollowsBase, Coherent
  <1>5. CASE ~ImportStep /\ ~Restart /\ ~DeliverCapi
    <2>1. CapiMoves /\ UNCHANGED <<pc, c, base>>
      BY <1>5, OtherMoves DEF local
    <2>2. Coherent(c) => Coherent(c)'
      BY <2>1, CoherentMoves DEF Coherent, TypeOK
    <2>3. QED
      BY <2>1, <2>2 DEF CopiesFollow, FollowsBase
  <1>6. CASE Gate
    BY <1>1, <1>6 DEF Gate, Finish, CopiesFollow
  <1>7. CASE ReconcileDelete
    <2>1. c = base /\ base' = base /\ pc' \in {"dropRancher", "patch"}
      BY <1>7 DEF ReconcileDelete, Return, CopiesFollow
    <2>2. FollowsBase'
      <3>1. CASE CapiLock(c) /\ PutCapi(Released(c)) /\ c' = capi'
        BY <2>1, <3>1, WrittenFollows, Copies
      <3>2. CASE c' = Released(c)
        BY <2>1, <3>2 DEF FollowsBase, Released, TypeOK, CapiObject
      <3>3. QED
        BY <1>7, <3>1, <3>2 DEF ReconcileDelete
    <2>3. QED
      BY <2>1, <2>2 DEF CopiesFollow
  <1>8. CASE DropCapiFinalizer
    <2>1. c = base /\ base' = base /\ pc' = "patch"
      BY <1>8 DEF DropCapiFinalizer, Return, CopiesFollow
    <2>2. FollowsBase'
      <3>1. CASE /\ CapiLock(c) /\ PutCapi([c EXCEPT !.fin = FALSE])
                 /\ c' = capi'
        BY <2>1, <3>1, WrittenFollows, Copies
      <3>2. CASE c' = [c EXCEPT !.fin = FALSE]
        BY <2>1, <3>2 DEF FollowsBase, TypeOK, CapiObject
      <3>3. QED
        BY <1>8, <3>1, <3>2 DEF DropCapiFinalizer
    <2>3. QED
      BY <2>1, <2>2 DEF CopiesFollow
  <1>9. CASE DropRancherFinalizer \/ CreateRancher \/ PatchRancher
    BY <1>2, <1>9 DEF DropRancherFinalizer, CreateRancher, PatchRancher, Return,
                      CopiesFollow, capiStore
  <1>10. CASE DeleteDependents
    <2>1. c = base /\ UNCHANGED <<c, base, capi>>
      BY <1>10 DEF DeleteDependents, CopiesFollow, capiStore
    <2>2. pc' \in {"dependents", "dropCapi", "patch"}
      BY <1>10 DEF DeleteDependents, Return
    <2>3. QED
      BY <1>2, <2>1, <2>2 DEF CopiesFollow
  <1>11. CASE ShouldAutoImportUncached
    <2>1. c = base /\ UNCHANGED <<base, capi>> /\ pc' \in {"create", "patch"}
      BY <1>11 DEF ShouldAutoImportUncached, Return, CopiesFollow, capiStore
    <2>2. CASE c' = FleetManaged(c) /\ pc' = "patch"
      <3>1. FollowsBase'
        BY <2>1, <2>2, FleetManagedEffect DEF FollowsBase, TypeOK
      <3>2. QED
        BY <2>2, <3>1 DEF CopiesFollow
    <2>3. CASE c' = capi
      <3>1. base'.rv <= c'.rv
        BY <2>1, <2>3 DEF CopiesCoherent, Coherent
      <3>2. QED
        BY <2>1, <2>3, <3>1 DEF CopiesFollow, FollowsBase, Coherent, TypeOK,
                                CapiObject
    <2>4. QED
      BY <1>11, <2>2, <2>3 DEF ShouldAutoImportUncached, Return
  <1>12. CASE ReconcileNormal
    <2>1. c = base /\ base' = base /\ pc' \in {"patch", "patchRancher"}
      BY <1>12 DEF ReconcileNormal, CopiesFollow
    <2>2. FollowsBase'
      BY <1>12, <2>1, FleetManagedEffect DEF ReconcileNormal, FollowsBase, TypeOK
    <2>3. QED
      BY <2>1, <2>2 DEF CopiesFollow
  <1>13. QED
    BY <1>3, <1>4, <1>5, <1>6, <1>7, <1>8, <1>9, <1>10, <1>11, <1>12
       DEF ImportStep

\* What the import reconciler leaves of the Cluster's other fields.
KeepsCluster ==
  /\ capi'.label = capi.label /\ capi'.cp = capi.cp /\ capi'.del = capi.del
  /\ capi.imported => capi'.imported

\* It writes what it derived from the version that is current.
LEMMA ImportKeepsCluster ==
  ASSUME IInv, CopiesFollow, ImportStep PROVE KeepsCluster
  <1> USE DEF IInv
  <1>1. CASE UNCHANGED capiStore
    BY <1>1 DEF KeepsCluster, capiStore
  <1>2. ASSUME NEW o \in CapiObject, PutCapi(o),
               o.label = capi.label, o.cp = capi.cp, o.del = capi.del,
               capi.imported => o.imported
        PROVE  KeepsCluster
    BY <1>2, PutCapiEffect DEF KeepsCluster, CapiObject
  <1>3. CASE AddFinalizer
    <2>1. CASE /\ CapiLock(capiCache)
               /\ PutCapi([capiCache EXCEPT !.fin = TRUE])
      <3>1. capiCache = capi
        BY <2>1 DEF CapiLock, CopiesCoherent, Coherent
      <3>2. QED
        BY <1>2, <2>1, <3>1, Copies DEF TypeOK, CapiObject
    <2>2. QED
      BY <1>1, <1>3, <2>1 DEF AddFinalizer
  <1>4. CASE ReconcileDelete
    <2>1. CASE CapiLock(c) /\ PutCapi(Released(c))
      <3>1. c = capi
        BY <1>4, <2>1 DEF ReconcileDelete, CopiesFollow, CapiLock,
                          CopiesCoherent, Coherent
      <3>2. QED
        BY <1>2, <2>1, <3>1, Copies DEF Released, TypeOK, CapiObject
    <2>2. QED
      BY <1>1, <1>4, <2>1 DEF ReconcileDelete
  <1>5. CASE DropCapiFinalizer
    <2>1. CASE CapiLock(c) /\ PutCapi([c EXCEPT !.fin = FALSE])
      <3>1. c = capi
        BY <1>5, <2>1 DEF DropCapiFinalizer, CopiesFollow, CapiLock,
                          CopiesCoherent, Coherent
      <3>2. QED
        BY <1>2, <2>1, <3>1, Copies DEF TypeOK, CapiObject
    <2>2. QED
      BY <1>1, <1>5, <2>1 DEF DropCapiFinalizer
  <1>6. CASE OuterPatch
    <2>1. CASE CapiLock(base) /\ PutCapi(c)
      <3>1. base = capi
        BY <2>1 DEF CapiLock, CopiesCoherent, Coherent
      <3>2. CASE Coherent(c) /\ base.rv <= c.rv
        <4>1. c.rv \in Nat /\ capi.rv \in Nat
          BY DEF TypeOK, CapiObject
        <4>2. c = capi
          BY <3>1, <3>2, <4>1 DEF Coherent
        <4>3. QED
          BY <1>2, <2>1, <4>2, Copies
      <3>3. QED
        BY <1>2, <1>6, <2>1, <3>1, <3>2, Copies
           DEF OuterPatch, CopiesFollow, FollowsBase
    <2>2. QED
      BY <1>1, <1>6, <2>1 DEF OuterPatch
  <1>7. CASE \/ Start \/ Gate \/ DropRancherFinalizer \/ DeleteDependents
             \/ ShouldAutoImportUncached \/ CreateRancher \/ ReconcileNormal
             \/ PatchRancher
    BY <1>1, <1>7 DEF Start, Gate, DropRancherFinalizer, DeleteDependents,
                      ShouldAutoImportUncached, CreateRancher, ReconcileNormal,
                      PatchRancher
  <1>8. QED
    BY <1>3, <1>4, <1>5, <1>6, <1>7 DEF ImportStep

-----------------------------------------------------------------------------
(***************************************************************************)
(* The Rancher clusters.                                                   *)
(***************************************************************************)

\* A copy is of an earlier version of the Rancher cluster, or is the current one.
RancherCoherent(r, o) ==
  /\ o.rv <= ranchers[r].rv
  /\ o.rv = ranchers[r].rv => o = ranchers[r]

RanchersCoherent ==
  /\ \A r \in RancherIds : /\ RancherCoherent(r, rancherCache[r])
                           /\ ranchers[r].ex => ranchers[r].rv >= 1
  /\ \A i \in DOMAIN rancherEvents :
       RancherCoherent(rancherEvents[i][1], rancherEvents[i][2])

\* The local copy: as it was read, with the deletion that led to its release; and
\* before its patch with the finalizer, and otherwise as it was read.
RancherCopy ==
  /\ pc \in {"release", "dropRancher", "normal"} => RancherCoherent(rid, rc)
  /\ pc \in {"release", "dropRancher"} => rc.del
  /\ pc = "patchRancher" =>
       /\ rc.fin
       /\ rc.rv <= ranchers[rid].rv
       /\ rc.rv = ranchers[rid].rv => /\ rc.del = ranchers[rid].del
                                      /\ rc.ready = ranchers[rid].ready

UInv == IInv /\ CopiesFollow /\ RanchersCoherent /\ RancherCopy

\* A Rancher cluster moves to its next version, which the watch reports.
RancherMoves(r) ==
  /\ ranchers'[r].rv = ranchers[r].rv + 1
  /\ \A x \in RancherIds \ {r} : ranchers'[x] = ranchers[x]
  /\ rancherEvents' = Append(rancherEvents, <<r, ranchers'[r]>>)
RanchersMove ==
  UNCHANGED rancherStore \/ \E r \in RancherIds : RancherMoves(r)

\* What any step may write to a Rancher cluster: the finalizer goes only from one
\* that is being deleted, only the Create makes one, only Create and the deferred
\* patch put the finalizer on a live one, and the import reconciler leaves
\* readiness alone.
Allowed(r, o) ==
  /\ ranchers[r].ex \/ (ImportStep /\ pc = "create")
  /\ ranchers[r].fin /\ ~o.fin => ranchers[r].del
  /\ ranchers[r].ex /\ ranchers[r].del => o.del
  /\ o.ex /\ ~o.del /\ o.fin => \/ Live(r) /\ ranchers[r].fin
                                \/ pc \in {"create", "patchRancher"}
  /\ ImportStep /\ ranchers[r].ex => o.ready = ranchers[r].ready
RancherWritten ==
  \/ UNCHANGED rancherStore
  \/ \E r \in RancherIds, o \in RancherObject : PutRancher(r, o) /\ Allowed(r, o)

\* The import reconciler's writes to Rancher clusters.
LEMMA ImportRancherWrites ==
  ASSUME UInv, ImportStep PROVE RancherWritten
  <1> USE DEF UInv, IInv
  <1>1. CASE UNCHANGED rancherStore
    BY <1>1 DEF RancherWritten
  <1>2. CASE DropRancherFinalizer
    <2>1. CASE RancherLock(rid, rc) /\ PutRancher(rid, [rc EXCEPT !.fin = FALSE])
      <3>1. rid \in RancherIds /\ rc.del /\ rc = ranchers[rid] /\ rc.ex
        BY <1>2, <2>1 DEF DropRancherFinalizer, RidKnown, RancherCopy,
                          RancherCoherent, RancherLock
      <3> DEFINE o == [rc EXCEPT !.fin = FALSE]
      <3>2. o \in RancherObject /\ o.del /\ o.ready = rc.ready
        BY <3>1 DEF TypeOK, RancherObject
      <3>3. Allowed(rid, o)
        BY <3>1, <3>2 DEF Allowed
      <3>4. QED
        BY <2>1, <3>1, <3>2, <3>3 DEF RancherWritten
    <2>2. QED
      BY <1>1, <1>2, <2>1 DEF DropRancherFinalizer
  <1>3. CASE DeleteDependents
    <2>1. ASSUME NEW r \in RancherIds, Live(r),
                 PutRancher(r, [ranchers[r] EXCEPT !.del = TRUE])
          PROVE  RancherWritten
      <3> DEFINE o == [ranchers[r] EXCEPT !.del = TRUE]
      <3>1. /\ o \in RancherObject /\ o.del /\ o.ready = ranchers[r].ready
            /\ o.fin = ranchers[r].fin
        BY DEF TypeOK, RancherObject
      <3>2. Allowed(r, o)
        BY <2>1, <3>1 DEF Allowed, Live
      <3>3. QED
        BY <2>1, <3>1, <3>2 DEF RancherWritten
    <2>2. QED
      BY <1>1, <1>3, <2>1 DEF DeleteDependents, Dependents
  <1>4. CASE CreateRancher
    <2> DEFINE o == [NoRancher EXCEPT !.ex = TRUE, !.fin = TRUE,
                                      !.migrated = TRUE, !.meta = TRUE]
    <2>1. o \in RancherObject /\ o.fin
      BY DEF NoRancher, RancherObject
    <2>2. ASSUME NEW r \in Unused, PutRancher(r, o) PROVE RancherWritten
      <3>1. r \in RancherIds /\ ~ranchers[r].ex
        BY <2>2 DEF Unused, RanchersCoherent
      <3>2. Allowed(r, o)
        BY <1>4, <2>1, <3>1 DEF Allowed, CreateRancher
      <3>3. QED
        BY <2>1, <2>2, <3>1, <3>2 DEF RancherWritten
    <2>3. QED
      BY <1>1, <1>4, <2>2 DEF CreateRancher
  <1>5. CASE PatchRancher
    <2>1. CASE RancherLock(rid, rc) /\ PutRancher(rid, rc)
      <3>1. /\ rid \in RancherIds /\ rc \in RancherObject /\ ranchers[rid].ex
            /\ rc.fin /\ rc.del = ranchers[rid].del
            /\ rc.ready = ranchers[rid].ready
        BY <1>5, <2>1 DEF PatchRancher, RidKnown, RancherCopy, RancherLock, TypeOK
      <3>2. Allowed(rid, rc)
        BY <1>5, <3>1 DEF Allowed, PatchRancher
      <3>3. QED
        BY <2>1, <3>1, <3>2 DEF RancherWritten
    <2>2. QED
      BY <1>1, <1>5, <2>1 DEF PatchRancher
  <1>6. CASE \/ Start \/ AddFinalizer \/ Gate \/ ReconcileDelete
             \/ DropCapiFinalizer \/ ShouldAutoImportUncached \/ ReconcileNormal
             \/ OuterPatch
    BY <1>1, <1>6 DEF Start, AddFinalizer, Gate, ReconcileDelete,
                      DropCapiFinalizer, ShouldAutoImportUncached,
                      ReconcileNormal, OuterPatch
  <1>7. QED
    BY <1>2, <1>3, <1>4, <1>5, <1>6 DEF ImportStep

\* The same for the cleanup controller, users and Rancher.
LEMMA OtherRancherWrites ==
  ASSUME UInv, [Next]_vars, ~ImportStep, ~DeliverRancher, ~Restart
  PROVE  RancherWritten /\ UNCHANGED <<rancherCache, rid, rc, pc>>
  <1> USE DEF UInv, IInv
  <1>1. ASSUME NEW r \in RancherIds, NEW o \in RancherObject, PutRancher(r, o),
               ranchers[r].ex, ranchers[r].del => o.del,
               o.fin = ranchers[r].fin
        PROVE  RancherWritten
    <2>1. Allowed(r, o)
      BY <1>1 DEF Allowed, Live
    <2>2. QED
      BY <1>1, <2>1 DEF RancherWritten
  <1>2. ASSUME NEW r \in RancherIds, Cleanup(r)
        PROVE  RancherWritten /\ UNCHANGED <<rancherCache, rid, rc, pc>>
    <2>1. CASE MustClean(rancherCache[r])
      <3> DEFINE o == [rancherCache[r] EXCEPT !.fin = FALSE]
      <3>1. /\ rancherCache[r].del /\ rancherCache[r] = ranchers[r]
            /\ ranchers[r].ex
        BY <1>2, <2>1 DEF Cleanup, MustClean, RancherLock, RanchersCoherent,
                          RancherCoherent
      <3>2. o \in RancherObject /\ o.del
        BY <3>1 DEF TypeOK, RancherObject
      <3>3. Allowed(r, o)
        BY <3>1, <3>2 DEF Allowed
      <3>4. QED
        BY <1>2, <2>1, <3>2, <3>3 DEF Cleanup, RancherWritten, caches, local
    <2>2. CASE ~MustClean(rancherCache[r])
      BY <1>2, <2>2 DEF Cleanup, RancherWritten, caches, local
    <2>3. QED
      BY <2>1, <2>2
  <1>3. ASSUME NEW r \in RancherIds,
               DeleteRancher(r) \/ TouchRancher(r) \/ RancherGone(r)
                                \/ RancherReady(r)
        PROVE  RancherWritten /\ UNCHANGED <<rancherCache, rid, rc, pc>>
    <2> DEFINE Edit(o) == /\ o \in RancherObject
                          /\ ranchers[r].del => o.del
                          /\ o.fin = ranchers[r].fin
    <2>1. /\ Edit([ranchers[r] EXCEPT !.del = TRUE])
          /\ Edit([ranchers[r] EXCEPT !.meta = FALSE])
          /\ Edit([ranchers[r] EXCEPT !.ex = FALSE])
          /\ Edit([ranchers[r] EXCEPT !.ready = TRUE])
      BY DEF TypeOK, RancherObject
    <2>2. /\ ranchers[r].ex
          /\ UNCHANGED <<rancherCache, rid, rc, pc>>
          /\ \/ PutRancher(r, [ranchers[r] EXCEPT !.del = TRUE])
             \/ PutRancher(r, [ranchers[r] EXCEPT !.meta = FALSE])
             \/ PutRancher(r, [ranchers[r] EXCEPT !.ex = FALSE])
             \/ PutRancher(r, [ranchers[r] EXCEPT !.ready = TRUE])
      BY <1>3 DEF DeleteRancher, TouchRancher, RancherGone, RancherReady,
                  EditRancher, Live, caches, local
    <2>3. QED
      BY <1>1, <2>1, <2>2
  <1>4. CASE \/ DeliverCapi \/ DeliverNamespace \/ Resync \/ DeleteCapi
             \/ Relabel \/ Annotate \/ Unannotate \/ ControlPlane
             \/ RecreateCapi \/ RelabelNamespace \/ CapiGone \/ UNCHANGED vars
    BY <1>4 DEF DeliverCapi, DeliverNamespace, Resync, DeleteCapi, Relabel,
                Annotate, Unannotate, ControlPlane, EditCapi, RecreateCapi,
                RelabelNamespace, CapiGone, RancherWritten, rancherStore,
                caches, local, vars
  <1>5. QED
    BY <1>2, <1>3, <1>4 DEF Next, Environment

\* What a write leaves on the server: the content written, and a version more if
\* that is something new.
LEMMA PutRancherMoves ==
  ASSUME TypeOK, NEW r \in RancherIds, NEW o \in RancherObject,
         PutRancher(r, o)
  PROVE  /\ UNCHANGED rancherStore \/ RancherMoves(r)
         /\ \A x \in RancherIds \ {r} : ranchers'[x] = ranchers[x]
         /\ ranchers'[r].ex = o.ex /\ ranchers'[r].del = o.del
         /\ ranchers'[r].fin = o.fin /\ ranchers'[r].ready = o.ready
  <1>1. CASE UNCHANGED rancherStore
    BY <1>1 DEF PutRancher, rancherStore, TypeOK, RancherObject
  <1>2. CASE ~UNCHANGED rancherStore
    BY <1>2 DEF PutRancher, RancherMoves, TypeOK, RancherObject
  <1>3. QED
    BY <1>1, <1>2

LEMMA WrittenMoves ==
  ASSUME TypeOK, RancherWritten PROVE RanchersMove
  BY PutRancherMoves DEF RancherWritten, RanchersMove

\* A coherent copy stays coherent while the Rancher clusters move.
LEMMA RancherCoherentMoves ==
  ASSUME TypeOK, RanchersMove, NEW x \in RancherIds, NEW o \in RancherObject,
         RancherCoherent(x, o)
  PROVE  RancherCoherent(x, o)'
  <1>1. o.rv \in Nat /\ ranchers[x].rv \in Nat
    BY DEF TypeOK, RancherObject
  <1>2. CASE ranchers'[x] = ranchers[x]
    BY <1>2 DEF RancherCoherent
  <1>3. CASE ranchers'[x].rv = ranchers[x].rv + 1
    BY <1>1, <1>3 DEF RancherCoherent
  <1>4. QED
    BY <1>2, <1>3 DEF RanchersMove, RancherMoves, rancherStore

\* So do the copies of the informer.
LEMMA RanchersCoherentMoves ==
  ASSUME UInv, TypeOK', RanchersMove, rancherCache' = rancherCache
  PROVE  RanchersCoherent'
  <1> USE DEF UInv, IInv
  <1>1. ASSUME NEW r \in RancherIds PROVE RancherCoherent(r, rancherCache[r])'
    <2>1. rancherCache[r] \in RancherObject /\ RancherCoherent(r, rancherCache[r])
      BY DEF TypeOK, RanchersCoherent
    <2>2. QED
      BY <1>1, <2>1, RancherCoherentMoves DEF RancherCoherent
  <1>2. ASSUME NEW r \in RancherIds
        PROVE  ranchers'[r].ex => ranchers'[r].rv >= 1
    <2>1. CASE ranchers'[r] = ranchers[r]
      BY <2>1 DEF RanchersCoherent
    <2>2. CASE ranchers'[r].rv = ranchers[r].rv + 1
      BY <2>2 DEF TypeOK, RancherObject
    <2>3. QED
      BY <2>1, <2>2 DEF RanchersMove, RancherMoves, rancherStore
  <1>3. ASSUME NEW i \in DOMAIN rancherEvents'
        PROVE  RancherCoherent(rancherEvents[i][1], rancherEvents[i][2])'
    <2>1. CASE i \in DOMAIN rancherEvents /\ rancherEvents'[i] = rancherEvents[i]
      <3> DEFINE x == rancherEvents[i][1]
                 o == rancherEvents[i][2]
      <3>1. x \in RancherIds /\ o \in RancherObject /\ RancherCoherent(x, o)
        BY <2>1 DEF TypeOK, RanchersCoherent
      <3>2. QED
        BY <2>1, <3>1, RancherCoherentMoves DEF RancherCoherent
    <2>2. ASSUME NEW r \in RancherIds, rancherEvents'[i] = <<r, ranchers'[r]>>
          PROVE  RancherCoherent(rancherEvents[i][1], rancherEvents[i][2])'
      BY <2>2 DEF RancherCoherent, TypeOK, RancherObject
    <2>3. CASE rancherEvents' = rancherEvents
      BY <2>1, <2>3
    <2>4. ASSUME NEW r \in RancherIds,
                 rancherEvents' = Append(rancherEvents, <<r, ranchers'[r]>>)
          PROVE  RancherCoherent(rancherEvents[i][1], rancherEvents[i][2])'
      BY <2>1, <2>2, <2>4 DEF TypeOK
    <2>5. QED
      BY <2>3, <2>4 DEF RanchersMove, RancherMoves, rancherStore
  <1>4. QED
    BY <1>1, <1>2, <1>3 DEF RanchersCoherent

LEMMA ImportKeepsCaches == ASSUME ImportStep PROVE UNCHANGED rancherCache
  BY DEF ImportStep, Start, AddFinalizer, Gate, ReconcileDelete,
         DropRancherFinalizer, DeleteDependents, DropCapiFinalizer,
         ShouldAutoImportUncached, CreateRancher, ReconcileNormal,
         PatchRancher, OuterPatch, caches

LEMMA RanchersCoherentStep ==
  ASSUME UInv, TypeOK', [Next]_vars PROVE RanchersCoherent'
  <1> USE DEF UInv, IInv
  <1>1. CASE DeliverRancher
    <2>0. /\ 1 \in DOMAIN rancherEvents
          /\ Head(rancherEvents) = rancherEvents[1]
          /\ rancherEvents[1] \in RancherIds \X RancherObject
      BY <1>1 DEF DeliverRancher, TypeOK
    <2>1. PICK r \in RancherIds, o \in RancherObject :
            Head(rancherEvents) = <<r, o>>
      BY <1>1 DEF DeliverRancher, TypeOK
    <2>2. rancherEvents[1][1] = r /\ rancherEvents[1][2] = o
      BY <2>0, <2>1
    <2>3. RancherCoherent(r, o)
      BY <2>0, <2>2 DEF RanchersCoherent, RancherCoherent
    <2>4. rancherCache' = [rancherCache EXCEPT ![r] = o]
      BY <1>1, <2>0, <2>2 DEF DeliverRancher
    <2>5. \A i \in DOMAIN rancherEvents' :
            /\ i + 1 \in DOMAIN rancherEvents
            /\ rancherEvents'[i] = rancherEvents[i + 1]
      BY <1>1 DEF DeliverRancher, TypeOK
    <2>6. ranchers' = ranchers
      BY <1>1 DEF DeliverRancher
    <2>7. QED
      BY <2>3, <2>4, <2>5, <2>6 DEF RanchersCoherent, RancherCoherent, TypeOK
  <1>2. CASE Restart
    BY <1>2 DEF Restart, RanchersCoherent, RancherCoherent, TypeOK, RancherObject
  <1>3. CASE ImportStep
    BY <1>3, ImportRancherWrites, WrittenMoves, ImportKeepsCaches,
       RanchersCoherentMoves
  <1>4. CASE ~ImportStep /\ ~DeliverRancher /\ ~Restart
    BY <1>4, OtherRancherWrites, WrittenMoves, RanchersCoherentMoves
  <1>5. QED
    BY <1>1, <1>2, <1>3, <1>4

LEMMA RancherCopyStep ==
  ASSUME UInv, TypeOK', [Next]_vars PROVE RancherCopy'
  <1> USE DEF UInv, IInv
  <1> DEFINE Using == {"release", "dropRancher", "normal", "patchRancher"}
  <1>1. ASSUME pc' \notin Using PROVE RancherCopy'
    BY <1>1 DEF RancherCopy
  <1>2. CASE Restart
    BY <1>1, <1>2 DEF Restart
  <1>3. CASE DeliverRancher
    BY <1>3 DEF DeliverRancher, local, RancherCopy, RancherCoherent
  <1>4. CASE ~ImportStep /\ ~DeliverRancher /\ ~Restart
    <2>1. RanchersMove /\ UNCHANGED <<rid, rc, pc>>
      BY <1>4, OtherRancherWrites, WrittenMoves
    <2>2. CASE pc \in Using
      <3>1. rid \in RancherIds /\ rc \in RancherObject
        BY <2>2 DEF RidKnown, TypeOK
      <3>2. RancherCoherent(rid, rc) => RancherCoherent(rid, rc)'
        BY <2>1, <3>1, RancherCoherentMoves DEF RancherCoherent
      <3>3. \/ ranchers'[rid] = ranchers[rid]
            \/ ranchers'[rid].rv = ranchers[rid].rv + 1
        BY <2>1, <3>1 DEF RanchersMove, RancherMoves, rancherStore
      <3>4. rc.rv \in Nat /\ ranchers[rid].rv \in Nat
        BY <3>1 DEF TypeOK, RancherObject
      <3>5. QED
        BY <2>1, <3>2, <3>3, <3>4 DEF RancherCopy
    <2>3. QED
      BY <1>1, <2>1, <2>2
  <1>5. CASE Gate
    <2>1. ASSUME NEW r \in RancherIds, rid' = r, rc' = rancherCache[r],
                 pc' = CASE rc'.del -> "release"
                         [] ~rc'.del /\ c.del -> "dependents"
                         [] OTHER -> "normal"
          PROVE  RancherCopy'
      <3>1. ranchers' = ranchers /\ RancherCoherent(r, rancherCache[r])
        BY <1>5 DEF Gate, rancherStore, RanchersCoherent
      <3>2. RancherCoherent(rid, rc)'
        BY <2>1, <3>1 DEF RancherCoherent
      <3>3. pc' # "patchRancher" /\ pc' # "dropRancher"
        BY <2>1
      <3>4. pc' = "release" => rc'.del
        BY <2>1
      <3>5. QED
        BY <3>2, <3>3, <3>4 DEF RancherCopy
    <2>2. QED
      BY <1>1, <1>5, <2>1 DEF Gate, Finish
  <1>6. CASE ReconcileDelete
    BY <1>6 DEF ReconcileDelete, Return, rancherStore, RancherCopy,
                RancherCoherent
  <1>7. CASE ReconcileNormal
    <2>1. PICK answer \in {"ok", "requeue", "error"} :
            rc' = [Wanted(rc) EXCEPT !.migrated =
                     @ \/ (rc.ready /\ ~(FleetDisabled \/ rc.migrated)
                                   /\ answer = "ok")]
      BY <1>7 DEF ReconcileNormal
    <2>2. /\ rc'.fin /\ rc'.rv = rc.rv /\ rc'.del = rc.del
          /\ rc'.ready = rc.ready
      BY <2>1 DEF Wanted, TypeOK, RancherObject
    <2>3. ranchers' = ranchers /\ rid' = rid /\ RancherCoherent(rid, rc)
      BY <1>7 DEF ReconcileNormal, rancherStore, RancherCopy
    <2>4. pc' \in {"patch", "patchRancher"}
      BY <1>7 DEF ReconcileNormal
    <2>5. QED
      BY <2>2, <2>3, <2>4 DEF RancherCopy, RancherCoherent
  <1>8. CASE \/ Start \/ AddFinalizer \/ DropRancherFinalizer
             \/ DeleteDependents \/ DropCapiFinalizer
             \/ ShouldAutoImportUncached \/ CreateRancher \/ PatchRancher
             \/ OuterPatch
    BY <1>1, <1>8 DEF Start, AddFinalizer, DropRancherFinalizer,
                      DeleteDependents, DropCapiFinalizer,
                      ShouldAutoImportUncached, CreateRancher, PatchRancher,
                      OuterPatch, Return, Finish
  <1>9. QED
    BY <1>2, <1>3, <1>4, <1>5, <1>6, <1>7, <1>8 DEF ImportStep

LEMMA UInvInit == Init => UInv
  <1> SUFFICES ASSUME Init PROVE UInv
    OBVIOUS
  <1>1. IInv
    BY IInvInit
  <1>2. CopiesFollow /\ RancherCopy
    BY DEF Init, CopiesFollow, RancherCopy
  <1>3. RanchersCoherent
    BY <1>1 DEF Init, RanchersCoherent, RancherCoherent, AdoptedRancher,
                NoRancher, IInv, TypeOK, RancherObject
  <1>4. QED
    BY <1>1, <1>2, <1>3 DEF UInv

LEMMA UInvStep == UInv /\ [Next]_vars => UInv'
  <1> SUFFICES ASSUME UInv, [Next]_vars PROVE UInv'
    OBVIOUS
  <1>1. IInv' /\ TypeOK'
    BY IInvStep DEF UInv, IInv
  <1>2. QED
    BY <1>1, CopiesFollowStep, RanchersCoherentStep, RancherCopyStep DEF UInv

\* What became of one Rancher cluster in a step.
LEMMA RancherStep ==
  ASSUME UInv, [Next]_vars, NEW r \in RancherIds
  PROVE  ranchers'[r] = ranchers[r] \/ Allowed(r, ranchers'[r])
  <1>1. CASE DeliverRancher \/ Restart
    BY <1>1 DEF DeliverRancher, Restart
  <1>2. CASE RancherWritten
    <2>1. CASE UNCHANGED rancherStore
      BY <2>1 DEF rancherStore
    <2>2. ASSUME NEW x \in RancherIds, NEW o \in RancherObject,
                 PutRancher(x, o), Allowed(x, o)
          PROVE  ranchers'[r] = ranchers[r] \/ Allowed(r, ranchers'[r])
      BY <2>2, PutRancherMoves DEF UInv, IInv, Allowed
    <2>3. QED
      BY <1>2, <2>1, <2>2 DEF RancherWritten
  <1>3. QED
    BY <1>1, <1>2, ImportRancherWrites, OtherRancherWrites

\* For every environment: no step of the import reconciler undoes what users,
\* Cluster API and Rancher wrote since it read its copies; all it writes, the
\* outer Patch included, was derived from the version it replaces (Reconcile).
THEOREM UpdateSafety == Spec => NoLostUpdate
  <1>1. ASSUME UInv, [Next]_vars, ImportStep
        PROVE  /\ capi'.label = capi.label /\ capi'.cp = capi.cp
               /\ capi'.del = capi.del
               /\ capi.imported => capi'.imported
               /\ \A r \in RancherIds : ranchers[r].ex =>
                    /\ ranchers[r].del => ranchers'[r].del
                    /\ ranchers'[r].ready = ranchers[r].ready
    <2>1. KeepsCluster
      BY <1>1, ImportKeepsCluster DEF UInv
    <2>2. QED
      BY <1>1, <2>1, RancherStep DEF KeepsCluster, Allowed
  <1>2. UInv /\ [Next]_vars
          => [ImportStep =>
                /\ capi'.label = capi.label /\ capi'.cp = capi.cp
                /\ capi'.del = capi.del
                /\ capi.imported => capi'.imported
                /\ \A r \in RancherIds : ranchers[r].ex =>
                     /\ ranchers[r].del => ranchers'[r].del
                     /\ ranchers'[r].ready = ranchers[r].ready]_vars
    BY <1>1
  <1>3. QED
    BY UInvInit, UInvStep, <1>2, PTL DEF Spec, NoLostUpdate

\* For every environment: neither controller drops the finalizer of a Rancher
\* cluster that is not being deleted, however stale its copies are (reconcile,
\* CAPICleanupReconciler.Reconcile).
THEOREM HoldSafety == Spec => HoldUntilDeletion
  <1>1. UInv /\ [Next]_vars
          => [\A r \in RancherIds :
                ranchers[r].fin /\ ~ranchers'[r].fin => ranchers[r].del]_vars
    BY RancherStep DEF Allowed
  <1>2. QED
    BY UInvInit, UInvStep, <1>1, PTL DEF Spec, HoldUntilDeletion
=============================================================================
