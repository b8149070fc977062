----------------------- MODULE ClusterImportReleaseProofs -----------------------
(***************************************************************************)
(* Proofs about ClusterImport while nobody takes the imported annotation   *)
(* off a Cluster, and no new Cluster gets the name of an old one: what     *)
(* turtles holds is tracked, the release comes before the Rancher cluster  *)
(* is let go, and a released Cluster is neither held nor imported again.   *)
(***************************************************************************)
EXTENDS ClusterImportUpdateProofs

Undisturbed == "unannotate" \notin EnvOps /\ "recreateCapi" \notin EnvOps

\* The Cluster carries the finalizer, or it was released.
Held == (capi.ex /\ capi.fin) \/ capi.imported

\* How a later version differs from an earlier one: the deletion stays, and what
\* has been held, released or deleted never needs the finalizer again.
Grows(a, b) ==
  /\ a.del => b.del
  /\ ~NeedsFinalizer(a) => ~NeedsFinalizer(b)

\* The informer sees the versions in their order.
OneWay ==
  /\ Grows(capiCache, capi)
  /\ \A i \in DOMAIN capiEvents : /\ Grows(capiCache, capiEvents[i])
                                  /\ Grows(capiEvents[i], capi)
  /\ \A i, j \in DOMAIN capiEvents :
       i < j => Grows(capiEvents[i], capiEvents[j])

\* The local copy is of a Cluster that was held; what the reconciler deletes for
\* is being deleted, and the informer knows.
Deleting ==
  /\ pc \notin {"idle", "finalizer"} => ~NeedsFinalizer(c)
  /\ pc \in {"dependents", "dropCapi"} => c.del
  /\ pc \in {"gate", "dependents", "dropCapi"} /\ c.del => capiCache.del
  /\ pc = "patch" /\ ~c.fin /\ base.fin /\ ~c.imported
       => capiCache.del \/ (Coherent(c) /\ base.rv <= c.rv)

\* Behind the first two steps, the Cluster has been held, released or deleted.
Marked == pc \notin {"idle", "finalizer"} => ~NeedsFinalizer(capi)

\* Whoever still sees the finalizer on a Cluster that is not being deleted is right,
\* or missed no more than the release; so Rancher clusters are created and patched
\* for a Cluster that holds them.
Holding ==
  /\ capiCache.fin /\ ~capiCache.del => Held
  /\ \A i \in DOMAIN capiEvents :
       capiEvents[i].fin /\ ~capiEvents[i].del => Held
  /\ pc = "gate" /\ c.fin /\ ~c.del => Held
  /\ pc \in {"check", "create", "normal", "patchRancher"} => Held

HInv == OneWay /\ Marked /\ Deleting /\ Holding /\ HeldOrReleased

\* A release lasts until the Rancher cluster is let go.
ReleaseLasts == pc = "dropRancher" => capi.imported

\* The Cluster only moves forward.
LEMMA Forward ==
  ASSUME Undisturbed, UInv, Deleting, [Next]_vars
  PROVE  Grows(capi, capi') /\ (capi.imported => capi'.imported)
  <1> USE DEF UInv, IInv
  <1> DEFINE Goal == Grows(capi, capi') /\ (capi.imported => capi'.imported)
  <1>1. CASE capi' = capi
    BY <1>1 DEF Grows
  <1>2. ASSUME NEW o \in CapiObject, PutCapi(o), Grows(capi, o),
               capi.imported => o.imported
        PROVE  Goal
    BY <1>2, PutCapiEffect DEF Grows, NeedsFinalizer, CapiObject
  <1>3. CASE ImportStep
    <2>1. KeepsCluster
      BY <1>3, ImportKeepsCluster
    <2>2. ASSUME NEW o \in CapiObject, PutCapi(o), ~NeedsFinalizer(o)
          PROVE  Goal
      BY <2>1, <2>2, PutCapiEffect
         DEF KeepsCluster, Grows, NeedsFinalizer, CapiObject
    <2>3. CASE AddFinalizer
      BY <1>1, <2>2, <2>3, Copies
         DEF AddFinalizer, capiStore, NeedsFinalizer, TypeOK, CapiObject
    <2>4. CASE ReconcileDelete
      <3>1. ~NeedsFinalizer(Released(c))
        BY DEF Released, NeedsFinalizer, TypeOK, CapiObject
      <3>2. QED
        BY <1>1, <2>2, <2>4, <3>1, Copies DEF ReconcileDelete, capiStore
    <2>5. CASE DropCapiFinalizer
      <3>1. ~NeedsFinalizer([c EXCEPT !.fin = FALSE])
        BY <2>5 DEF DropCapiFinalizer, Deleting, NeedsFinalizer, TypeOK,
                    CapiObject
      <3>2. QED
        BY <1>1, <2>2, <2>5, <3>1, Copies DEF DropCapiFinalizer, capiStore
    <2>6. CASE OuterPatch
      BY <1>1, <2>2, <2>6, Copies DEF OuterPatch, Deleting, capiStore
    <2>7. CASE \/ Start \/ Gate \/ DropRancherFinalizer \/ DeleteDependents
               \/ ShouldAutoImportUncached \/ CreateRancher \/ ReconcileNormal
               \/ PatchRancher
      BY <1>1, <2>7 DEF Start, Gate, DropRancherFinalizer, DeleteDependents,
                        ShouldAutoImportUncached, CreateRancher,
                        ReconcileNormal, PatchRancher, capiStore
    <2>8. QED
      BY <1>3, <2>3, <2>4, <2>5, <2>6, <2>7 DEF ImportStep
  <1>4. CASE DeleteCapi \/ Relabel \/ Annotate \/ ControlPlane
    <2> DEFINE Edit(o) == /\ o \in CapiObject /\ Grows(capi, o)
                          /\ capi.imported => o.imported
    <2>1. /\ Edit([capi EXCEPT !.del = TRUE])
          /\ Edit([capi EXCEPT !.imported = TRUE])
          /\ Edit([capi EXCEPT !.cp = ~@])
      BY DEF Grows, NeedsFinalizer, TypeOK, CapiObject
    <2>2. ASSUME NEW l \in Labels PROVE Edit([capi EXCEPT !.label = l])
      BY DEF Grows, NeedsFinalizer, TypeOK, CapiObject
    <2>3. QED
      BY <1>2, <1>4, <2>1, <2>2
         DEF DeleteCapi, Relabel, Annotate, ControlPlane, EditCapi
  <1>5. CASE CapiGone
    <2> DEFINE o == [capi EXCEPT !.ex = FALSE]
    <2>1. o \in CapiObject /\ Grows(capi, o) /\ o.imported = capi.imported
      BY DEF Grows, NeedsFinalizer, TypeOK, CapiObject
    <2>2. QED
      BY <1>2, <1>5, <2>1 DEF CapiGone
  <1>6. ~Unannotate /\ ~RecreateCapi
    BY DEF Undisturbed, Unannotate, EditCapi, RecreateCapi, Env
  <1>7. CASE \/ DeliverCapi \/ DeliverRancher \/ DeliverNamespace \/ Resync
             \/ RelabelNamespace \/ Restart \/ UNCHANGED vars
             \/ \E r \in RancherIds :
                  \/ Cleanup(r) \/ DeleteRancher(r) \/ TouchRancher(r)
                  \/ RancherGone(r) \/ RancherReady(r)
    BY <1>1, <1>7 DEF DeliverCapi, DeliverRancher, DeliverNamespace, Resync,
                      RelabelNamespace, Restart, Cleanup, DeleteRancher,
                      TouchRancher, RancherGone, RancherReady, EditRancher,
                      capiStore, vars
  <1>8. QED
    BY <1>3, <1>4, <1>5, <1>6, <1>7 DEF Next, Environment

LEMMA GrowsTransitive ==
  ASSUME NEW a, NEW b, NEW d, Grows(a, b), Grows(b, d) PROVE Grows(a, d)
  BY DEF Grows

LEMMA OneWayStep ==
  ASSUME Undisturbed, UInv, TypeOK', Deleting, OneWay, [Next]_vars
  PROVE  OneWay'
  <1> USE DEF UInv, IInv
  <1>1. CASE DeliverCapi
    <2>1. /\ capiCache' = capiEvents[1]
          /\ 1 \in DOMAIN capiEvents
          /\ \A i \in DOMAIN capiEvents' : /\ i \in Nat \ {0}
                                           /\ i + 1 \in DOMAIN capiEvents
                                           /\ capiEvents'[i] = capiEvents[i + 1]
      BY <1>1 DEF DeliverCapi, TypeOK
    <2>2. capi' = capi
      BY <1>1 DEF DeliverCapi
    <2>3. \A i \in DOMAIN capiEvents' :
            /\ Grows(capiEvents[1], capiEvents[i + 1])
            /\ Grows(capiEvents[i + 1], capi)
      <3>1. \A i \in DOMAIN capiEvents' : 1 < i + 1
        BY <2>1
      <3>2. QED
        BY <2>1, <3>1 DEF OneWay
    <2>4. \A i, j \in DOMAIN capiEvents' :
            i < j => Grows(capiEvents[i + 1], capiEvents[j + 1])
      <3>1. \A i, j \in DOMAIN capiEvents' : i < j => i + 1 < j + 1
        BY <2>1
      <3>2. QED
        BY <2>1, <3>1 DEF OneWay
    <2>5. Grows(capiEvents[1], capi)
      BY <2>1 DEF OneWay
    <2>6. QED
      BY <2>1, <2>2, <2>3, <2>4, <2>5 DEF OneWay
  <1>2. CASE Restart
    BY <1>2 DEF Restart, OneWay, Grows
  <1>3. ASSUME CapiMoves, capiCache' = capiCache PROVE OneWay'
    <2>1. Grows(capi, capi')
      BY Forward
    <2>2. Grows(capiCache, capi')
      BY <2>1, GrowsTransitive DEF OneWay
    <2>3. \A i \in DOMAIN capiEvents : Grows(capiEvents[i], capi')
      BY <2>1, GrowsTransitive DEF OneWay
    <2>4. Grows(capi', capi')
      BY DEF Grows
    <2>5. CASE capiEvents' = capiEvents
      BY <1>3, <2>2, <2>3, <2>5 DEF OneWay
    <2>6. CASE capiEvents' = Append(capiEvents, capi')
      <3>1. \A i \in DOMAIN capiEvents' :
              \/ i \in DOMAIN capiEvents /\ capiEvents'[i] = capiEvents[i]
              \/ /\ i = Len(capiEvents) + 1 /\ capiEvents'[i] = capi'
                 /\ \A j \in DOMAIN capiEvents' : ~(i < j)
        BY <2>6 DEF TypeOK
      <3>2. \A i \in DOMAIN capiEvents' : /\ Grows(capiCache, capiEvents'[i])
                                          /\ Grows(capiEvents'[i], capi')
        BY <2>2, <2>3, <2>4, <3>1 DEF OneWay
      <3>3. ASSUME NEW i \in DOMAIN capiEvents', NEW j \in DOMAIN capiEvents',
                   i < j
            PROVE  Grows(capiEvents'[i], capiEvents'[j])
        <4>1. i \in DOMAIN capiEvents /\ capiEvents'[i] = capiEvents[i]
          BY <3>1, <3>3
        <4>2. CASE capiEvents'[j] = capi'
          BY <2>3, <4>1, <4>2
        <4>3. CASE j \in DOMAIN capiEvents /\ capiEvents'[j] = capiEvents[j]
          BY <3>3, <4>1, <4>3 DEF OneWay
        <4>4. QED
          BY <3>1, <4>2, <4>3
      <3>4. QED
        BY <1>3, <2>2, <3>2, <3>3 DEF OneWay
    <2>7. QED
      BY <1>3, <2>5, <2>6 DEF CapiMoves
  <1>4. CASE ImportStep
    <2>1. capiCache' = capiCache
      BY <1>4 DEF ImportStep, Start, AddFinalizer, Gate, ReconcileDelete,
                  DropRancherFinalizer, DeleteDependents, DropCapiFinalizer,
                  ShouldAutoImportUncached, CreateRancher, ReconcileNormal,
                  PatchRancher, OuterPatch, caches
    <2>2. QED
      BY <1>3, <1>4, <2>1, ImportMoves
  <1>5. CASE ~ImportStep /\ ~Restart /\ ~DeliverCapi
    BY <1>3, <1>5, OtherMoves
  <1>6. QED
    BY <1>1, <1>2, <1>4, <1>5

\* The finalizer goes without a release only from a Cluster that the informer knows
\* to be deleted, and then the reconcile ends.
LEMMA DropAfterDeletion ==
  ASSUME UInv, Deleting, [Next]_vars, capi.fin, ~capi'.fin, ~capi'.imported
  PROVE  /\ capiCache.del
         /\ UNCHANGED <<capiCache, ranchers>>
         /\ pc' \in {"patch", "idle"}
  <1> USE DEF UInv, IInv
  <1>1. CASE DeliverCapi \/ Restart
    BY <1>1 DEF DeliverCapi, Restart
  <1>2. CASE ~ImportStep /\ ~Restart /\ ~DeliverCapi
    BY <1>2, OtherMoves
  <1>3. CASE AddFinalizer
    <2>1. PutCapi([capiCache EXCEPT !.fin = TRUE])
      BY <1>3 DEF AddFinalizer, capiStore
    <2>2. QED
      BY <2>1, PutCapiEffect, Copies DEF TypeOK, CapiObject
  <1>4. CASE ReconcileDelete
    <2>1. PutCapi(Released(c)) /\ Released(c).imported
      BY <1>4 DEF ReconcileDelete, capiStore, Released, TypeOK, CapiObject
    <2>2. QED
      BY <2>1, PutCapiEffect, Copies DEF TypeOK, CapiObject
  <1>5. CASE DropCapiFinalizer
    BY <1>5 DEF DropCapiFinalizer, Return, Deleting, caches, rancherStore
  <1>6. CASE OuterPatch
    <2>1. capi.rv = base.rv /\ PutCapi(c)
      BY <1>6 DEF OuterPatch, CapiLock, capiStore
    <2>2. ~c.fin /\ ~c.imported
      BY <2>1, PutCapiEffect, Copies DEF TypeOK, CapiObject
    <2>3. base = capi
      BY <2>1 DEF CopiesCoherent, Coherent
    <2>4. ~(Coherent(c) /\ base.rv <= c.rv)
      <3>1. c.rv \in Nat /\ capi.rv \in Nat /\ base.rv \in Nat
        BY DEF TypeOK, CapiObject
      <3>2. QED
        BY <2>1, <2>2, <3>1 DEF Coherent
    <2>5. QED
      BY <1>6, <2>2, <2>3, <2>4
         DEF OuterPatch, Deleting, Finish, caches, rancherStore
  <1>7. CASE \/ Start \/ Gate \/ DropRancherFinalizer \/ DeleteDependents
             \/ ShouldAutoImportUncached \/ CreateRancher \/ ReconcileNormal
             \/ PatchRancher
    BY <1>7 DEF Start, Gate, DropRancherFinalizer, DeleteDependents,
                ShouldAutoImportUncached, CreateRancher, ReconcileNormal,
                PatchRancher, capiStore
  <1>8. QED
    BY <1>1, <1>2, <1>3, <1>4, <1>5, <1>6, <1>7 DEF ImportStep

LEMMA MarkedStep ==
  ASSUME Undisturbed, UInv, Marked, Deleting, OneWay, [Next]_vars PROVE Marked'
  <1> USE DEF UInv, IInv
  <1>1. ASSUME pc' \in {"idle", "finalizer"} PROVE Marked'
    BY <1>1 DEF Marked
  <1>2. CASE pc \notin {"idle", "finalizer"}
    BY <1>2, Forward DEF Marked, Grows
  <1>3. CASE ~ImportStep /\ ~Restart /\ ~DeliverCapi
    BY <1>1, <1>2, <1>3, OtherMoves
  <1>4. CASE DeliverCapi \/ Restart
    BY <1>1, <1>2, <1>4 DEF DeliverCapi, Restart
  <1>5. CASE Start
    BY <1>5 DEF Start, OneWay, Grows, Marked, capiStore
  <1>6. CASE AddFinalizer
    <2>1. CASE PutCapi([capiCache EXCEPT !.fin = TRUE])
      BY <2>1, PutCapiEffect, Copies
         DEF Marked, NeedsFinalizer, TypeOK, CapiObject
    <2>2. QED
      BY <1>1, <1>6, <2>1 DEF AddFinalizer, Finish
  <1>7. CASE ImportStep /\ pc \in {"idle", "finalizer"}
    BY <1>5, <1>6, <1>7
       DEF ImportStep, Gate, ReconcileDelete, DropRancherFinalizer,
           DeleteDependents, DropCapiFinalizer, ShouldAutoImportUncached,
           CreateRancher, ReconcileNormal, PatchRancher, OuterPatch
  <1>8. QED
    BY <1>2, <1>3, <1>4, <1>7

LEMMA DeletingStep ==
  ASSUME Undisturbed, UInv, TypeOK', Marked, Deleting, OneWay, [Next]_vars
  PROVE  Deleting'
  <1> USE DEF UInv, IInv
  <1>1. ASSUME pc' \in {"idle", "finalizer"} PROVE Deleting'
    BY <1>1 DEF Deleting
  \* The ways to the outer Patch that leave it the finalizer.
  <1>2. ASSUME UNCHANGED <<capi, capiCache, c, base>>, pc \notin {"idle", "finalizer"},
               pc' = "patch",
               \/ c.fin = base.fin \/ c.imported
               \/ Coherent(c) /\ base.rv <= c.rv
        PROVE  Deleting'
    BY <1>2 DEF Deleting, NeedsFinalizer, Coherent
  <1>3. CASE Restart \/ OuterPatch
    BY <1>1, <1>3 DEF Restart, OuterPatch, Finish
  <1>4. CASE DeliverCapi
    <2>1. /\ capiCache' = capiEvents[1] /\ 1 \in DOMAIN capiEvents
          /\ UNCHANGED <<capi, pc, c, base>>
      BY <1>4 DEF DeliverCapi, TypeOK, capiStore, local
    <2>2. capiCache.del => capiCache'.del
      BY <2>1 DEF OneWay, Grows
    <2>3. QED
      BY <2>1, <2>2 DEF Deleting, NeedsFinalizer, Coherent
  <1>5. CASE ~ImportStep /\ ~Restart /\ ~DeliverCapi
    <2>1. CapiMoves /\ UNCHANGED <<pc, c, base, capiCache>>
      BY <1>5, OtherMoves DEF local
    <2>2. Coherent(c) => Coherent(c)'
      BY <2>1, CoherentMoves DEF Coherent, TypeOK
    <2>3. QED
      BY <2>1, <2>2 DEF Deleting, NeedsFinalizer
  <1>6. CASE Start
    BY <1>6 DEF Start, Deleting, NeedsFinalizer, caches
  <1>7. CASE AddFinalizer
    <2>1. CASE /\ CapiLock(capiCache)
               /\ PutCapi([capiCache EXCEPT !.fin = TRUE])
               /\ c' = capi' /\ pc' = "gate" /\ UNCHANGED caches
      <3>1. /\ [capiCache EXCEPT !.fin = TRUE].del = capiCache.del
            /\ [capiCache EXCEPT !.fin = TRUE].fin
        BY DEF TypeOK, CapiObject
      <3>2. c'.del = capiCache.del /\ c'.fin
        BY <2>1, <3>1, PutCapiEffect, Copies DEF CapiObject
      <3>3. QED
        BY <2>1, <3>2 DEF Deleting, NeedsFinalizer, caches
    <2>2. QED
      BY <1>1, <1>7, <2>1 DEF AddFinalizer, Finish
  <1>8. CASE Gate
    <2>1. CASE pc' = "idle"
      BY <1>1, <2>1
    <2>2. CASE /\ pc = "gate" /\ UNCHANGED <<c, capiCache>>
               /\ \/ pc' = "dependents" /\ c.del
                  \/ pc' \in {"check", "release", "normal"}
      BY <2>2 DEF Deleting, NeedsFinalizer
    <2>3. QED
      BY <1>8, <2>1, <2>2 DEF Gate, Finish, caches
  <1>9. CASE ReconcileDelete
    <2>1. c'.imported
      <3>1. Released(c).imported
        BY DEF Released, TypeOK, CapiObject
      <3>2. CASE PutCapi(Released(c)) /\ c' = capi'
        <4>1. Released(c) \in CapiObject
          BY Copies
        <4>2. capi' = [Released(c) EXCEPT !.rv = capi'.rv]
          BY <3>2, <4>1, PutCapiEffect
        <4>3. QED
          BY <3>1, <3>2, <4>1, <4>2 DEF CapiObject
      <3>3. QED
        BY <1>9, <3>1, <3>2 DEF ReconcileDelete
    <2>2. pc' \in {"dropRancher", "patch"}
      BY <1>9 DEF ReconcileDelete, Return
    <2>3. QED
      BY <2>1, <2>2 DEF Deleting, NeedsFinalizer
  <1>10. CASE DropRancherFinalizer \/ CreateRancher \/ PatchRancher
    <2>1. /\ UNCHANGED <<capi, capiCache, c, base>> /\ pc' = "patch"
          /\ pc \in {"dropRancher", "create", "patchRancher"}
      BY <1>10 DEF DropRancherFinalizer, CreateRancher, PatchRancher, Return,
                   capiStore, caches
    <2>2. QED
      BY <1>2, <2>1 DEF LocalCopies
  <1>11. CASE DeleteDependents
    <2>1. UNCHANGED <<capi, capiCache, c, base>> /\ pc = "dependents"
      BY <1>11 DEF DeleteDependents, capiStore, caches
    <2>2. CASE pc' = "patch"
      BY <1>2, <2>1, <2>2 DEF LocalCopies
    <2>3. CASE pc' \in {"dependents", "dropCapi"}
      BY <2>1, <2>3 DEF Deleting, NeedsFinalizer
    <2>4. QED
      BY <1>11, <2>2, <2>3 DEF DeleteDependents, Return
  <1>12. CASE DropCapiFinalizer
    <2>1. c.del /\ capiCache.del /\ capiCache' = capiCache /\ pc' = "patch"
      BY <1>12 DEF DropCapiFinalizer, Deleting, Return, caches
    <2>2. c'.del
      <3>1. [c EXCEPT !.fin = FALSE].del
        BY <2>1 DEF TypeOK, CapiObject
      <3>2. CASE PutCapi([c EXCEPT !.fin = FALSE]) /\ c' = capi'
        BY <3>1, <3>2, PutCapiEffect, Copies DEF CapiObject
      <3>3. QED
        BY <1>12, <3>1, <3>2 DEF DropCapiFinalizer
    <2>3. QED
      BY <2>1, <2>2 DEF Deleting, NeedsFinalizer
  <1>13. CASE ShouldAutoImportUncached
    <2>1. /\ UNCHANGED <<base, capi, capiCache>> /\ pc = "check"
          /\ pc' \in {"create", "patch"}
      BY <1>13 DEF ShouldAutoImportUncached, Return, capiStore, caches
    <2>2. CASE c' = capi
      <3>1. Coherent(c)' /\ base'.rv <= c'.rv
        BY <2>1, <2>2 DEF Coherent, CopiesCoherent, TypeOK, CapiObject
      <3>2. ~NeedsFinalizer(capi)
        BY <2>1 DEF Marked
      <3>3. QED
        BY <2>1, <2>2, <3>1, <3>2 DEF Deleting
    <2>3. CASE c' = FleetManaged(c) /\ pc' = "patch"
      <3>1. c'.fin = c.fin /\ c'.imported = c.imported /\ c'.del = c.del
        BY <2>3, FleetManagedEffect DEF TypeOK
      <3>2. QED
        BY <2>1, <2>3, <3>1 DEF LocalCopies, Deleting, NeedsFinalizer
    <2>4. QED
      BY <1>13, <2>2, <2>3 DEF ShouldAutoImportUncached, Return
  <1>14. CASE ReconcileNormal
    <2>1. /\ c'.fin = c.fin /\ c'.del = c.del /\ c'.imported = c.imported
          /\ base' = base /\ pc = "normal" /\ c.fin = base.fin
          /\ pc' \in {"patch", "patchRancher"}
      BY <1>14, FleetManagedEffect DEF ReconcileNormal, TypeOK, LocalCopies
    <2>2. QED
      BY <2>1 DEF Deleting, NeedsFinalizer
  <1>15. QED
    BY <1>3, <1>4, <1>5, <1>6, <1>7, <1>8, <1>9, <1>10, <1>11, <1>12, <1>13,
       <1>14 DEF ImportStep

\* Only the end of a deletion lets go of a Cluster that was held, and then no
\* Rancher cluster is live.
LEMMA HeldStep ==
  ASSUME Undisturbed, UInv, Deleting, [Next]_vars, Held, ~Held'
  PROVE  /\ capiCache.del /\ NoneLive
         /\ UNCHANGED <<capiCache, ranchers>>
         /\ pc' \in {"patch", "idle"}
  <1> USE DEF UInv, IInv
  <1>1. capi.imported => capi'.imported
    BY Forward
  <1>2. ~capi'.ex => ~capi'.fin
    <2>1. CASE DeliverCapi \/ Restart
      BY <2>1 DEF DeliverCapi, Restart, CopiesCoherent
    <2>2. QED
      BY <2>1, ImportMoves, OtherMoves
  <1>3. capi.fin /\ ~capi'.fin /\ ~capi'.imported
    BY <1>1, <1>2 DEF Held
  <1>4. QED
    BY <1>3, DropAfterDeletion, DropIsSafe

LEMMA HoldingStep ==
  ASSUME Undisturbed, UInv, TypeOK', IInv', OneWay, Deleting, Holding, [Next]_vars
  PROVE  Holding'
  <1> USE DEF UInv, IInv
  <1>0. ~capi'.ex => ~capi'.fin
    BY DEF CopiesCoherent
  \* The copies of the informer.
  <1> DEFINE Seen == /\ capiCache.fin /\ ~capiCache.del => Held
                     /\ \A i \in DOMAIN capiEvents :
                          capiEvents[i].fin /\ ~capiEvents[i].del => Held
  <1>1. Seen'
    <2>1. CASE Held'
      BY <2>1
    <2>2. CASE ~Held' /\ DeliverCapi
      <3>1. /\ capiCache' = capiEvents[1] /\ 1 \in DOMAIN capiEvents
            /\ capi' = capi
            /\ \A i \in DOMAIN capiEvents' :
                 /\ i + 1 \in DOMAIN capiEvents
                 /\ capiEvents'[i] = capiEvents[i + 1]
        BY <2>2 DEF DeliverCapi, TypeOK
      <3>2. QED
        BY <3>1 DEF Holding, Held
    <2>3. CASE ~Held' /\ Restart
      BY <2>3, <1>0 DEF Restart, Held
    <2>4. CASE ~Held' /\ CapiMoves /\ capiCache' = capiCache
      <3>1. ASSUME NEW i \in DOMAIN capiEvents'
            PROVE  \/ i \in DOMAIN capiEvents /\ capiEvents'[i] = capiEvents[i]
                   \/ capiEvents'[i] = capi'
        <4>1. CASE capiEvents' = capiEvents
          BY <4>1
        <4>2. CASE capiEvents' = Append(capiEvents, capi')
          BY <4>2 DEF TypeOK
        <4>3. QED
          BY <2>4, <4>1, <4>2 DEF CapiMoves
      <3>2. ~capi'.fin
        BY <1>0, <2>4 DEF Held
      <3>3. CASE ~Held
        BY <2>4, <3>1, <3>2, <3>3 DEF Holding
      <3>4. CASE Held
        <4>1. capiCache.del
          BY <2>4, <3>4, HeldStep
        <4>2. \A i \in DOMAIN capiEvents : capiEvents[i].del
          BY <4>1 DEF OneWay, Grows
        <4>3. QED
          BY <2>4, <3>1, <3>2, <4>1, <4>2
      <3>5. QED
        BY <3>3, <3>4
    <2>5. CASE ImportStep
      <3>1. capiCache' = capiCache
        BY <2>5 DEF ImportStep, Start, AddFinalizer, Gate, ReconcileDelete,
                    DropRancherFinalizer, DeleteDependents, DropCapiFinalizer,
                    ShouldAutoImportUncached, CreateRancher, ReconcileNormal,
                    PatchRancher, OuterPatch, caches
      <3>2. QED
        BY <2>1, <2>4, <2>5, <3>1, ImportMoves
    <2>6. CASE ~ImportStep /\ ~Restart /\ ~DeliverCapi
      BY <2>1, <2>4, <2>6, OtherMoves
    <2>7. QED
      BY <2>1, <2>2, <2>3, <2>5, <2>6
  \* The steps of the reconciler.
  <1> DEFINE Working ==
        /\ pc = "gate" /\ c.fin /\ ~c.del => Held
        /\ pc \in {"check", "create", "normal", "patchRancher"} => Held
  <1>2. Working'
    <2>1. ASSUME pc' \notin {"gate", "check", "create", "normal", "patchRancher"}
          PROVE  Working'
      BY <2>1
    <2>2. CASE Held'
      BY <2>2
    <2>3. ASSUME ~Held', pc' \notin {"patch", "idle"} PROVE ~Held
      BY <2>3, HeldStep
    <2>4. CASE ~Held' /\ UNCHANGED <<pc, c>>
      BY <2>1, <2>3, <2>4 DEF Holding
    <2>5. CASE Restart \/ OuterPatch
      BY <2>1, <2>5 DEF Restart, OuterPatch, Finish
    <2>6. CASE DeliverCapi
      BY <2>2, <2>4, <2>6 DEF DeliverCapi, local
    <2>7. CASE ~ImportStep /\ ~Restart /\ ~DeliverCapi
      BY <2>2, <2>4, <2>7, OtherMoves DEF local
    <2>8. CASE Start
      BY <2>8 DEF Start, Holding, Held, capiStore
    <2>9. CASE AddFinalizer
      <3>1. CASE PutCapi([capiCache EXCEPT !.fin = TRUE])
        <4>1. capi'.fin
          BY <3>1, PutCapiEffect, Copies DEF TypeOK, CapiObject
        <4>2. QED
          BY <1>0, <2>2, <4>1 DEF Held
      <3>2. QED
        BY <2>1, <2>9, <3>1 DEF AddFinalizer, Finish
    <2>10. CASE Gate
      <3>1. CASE pc' = "idle"
        BY <2>1, <3>1
      <3>2. CASE /\ pc = "gate" /\ ~c.imported /\ UNCHANGED <<c, capi>>
                 /\ \/ pc' \in {"dependents", "release"}
                    \/ pc' \in {"check", "normal"} /\ ~c.del
        <4>1. c.fin \/ c.del
          BY <3>2 DEF Deleting, NeedsFinalizer
        <4>2. QED
          BY <3>2, <4>1 DEF Holding, Held
      <3>3. QED
        BY <2>10, <3>1, <3>2 DEF Gate, Finish, capiStore
    <2>11. CASE ShouldAutoImportUncached \/ ReconcileNormal
      <3>1. capi' = capi /\ pc \in {"check", "normal"}
        BY <2>11 DEF ShouldAutoImportUncached, ReconcileNormal, capiStore
      <3>2. QED
        BY <2>2, <3>1 DEF Holding, Held
    <2>12. CASE \/ ReconcileDelete \/ DropRancherFinalizer \/ DeleteDependents
                \/ DropCapiFinalizer \/ CreateRancher \/ PatchRancher
      BY <2>1, <2>12
         DEF ReconcileDelete, DropRancherFinalizer, DeleteDependents,
             DropCapiFinalizer, CreateRancher, PatchRancher, Return
    <2>13. QED
      BY <2>5, <2>6, <2>7, <2>8, <2>9, <2>10, <2>11, <2>12 DEF ImportStep
  <1>3. QED
    BY <1>1, <1>2 DEF Holding

LEMMA HeldOrReleasedStep ==
  ASSUME Undisturbed, UInv, Deleting, Holding, HeldOrReleased, [Next]_vars
  PROVE  HeldOrReleased'
  <1>1. CASE Held'
    BY <1>1 DEF Held, HeldOrReleased
  <1>2. CASE ~Held' /\ Held
    BY <1>2, HeldStep DEF HeldOrReleased, NoneLive, Live
  <1>3. CASE ~Held' /\ ~Held
    <2>1. ASSUME NEW r \in RancherIds, Live(r)', ranchers'[r].fin PROVE FALSE
      <3>1. ~(Live(r) /\ ranchers[r].fin)
        BY <1>3 DEF HeldOrReleased, Held
      <3>2. Allowed(r, ranchers'[r])
        BY <2>1, <3>1, RancherStep DEF Live
      <3>3. pc \in {"create", "patchRancher"}
        BY <2>1, <3>1, <3>2 DEF Allowed, Live
      <3>4. QED
        BY <1>3, <3>3 DEF Holding
    <2>2. QED
      BY <2>1 DEF HeldOrReleased
  <1>4. QED
    BY <1>1, <1>2, <1>3

LEMMA HInvInit == Init => HInv
  <1> SUFFICES ASSUME Init PROVE HInv
    OBVIOUS
  <1>1. TypeOK
    BY TypeInit
  <1>2. capi.ex /\ ~capi.del
    BY <1>1 DEF Init, FreshCapi, NoCapi, TypeOK, CapiObject
  <1>3. OneWay /\ Marked /\ Deleting
    BY DEF Init, OneWay, Grows, Marked, Deleting
  <1>4. Holding
    BY <1>2 DEF Init, Holding, Held
  <1>5. HeldOrReleased
    BY DEF Init, HeldOrReleased, Live, AdoptedRancher, NoRancher
  <1>6. QED
    BY <1>3, <1>4, <1>5 DEF HInv

LEMMA HInvStep ==
  ASSUME Undisturbed PROVE UInv /\ HInv /\ [Next]_vars => HInv'
  <1> SUFFICES ASSUME UInv, HInv, [Next]_vars PROVE HInv'
    OBVIOUS
  <1>1. TypeOK' /\ IInv'
    BY UInvStep DEF UInv, IInv
  <1>2. QED
    BY <1>1, OneWayStep, MarkedStep, DeletingStep, HoldingStep,
       HeldOrReleasedStep DEF HInv

LEMMA HInvAlways == ASSUME Undisturbed PROVE Spec => [](UInv /\ HInv)
  <1>1. UInv /\ HInv /\ [Next]_vars => UInv' /\ HInv'
    BY UInvStep, HInvStep
  <1>2. QED
    BY UInvInit, HInvInit, <1>1, PTL DEF Spec

\* However often the reconciler fails, conflicts, is restarted and reads stale
\* copies, and whatever users delete, label and annotate: a Rancher cluster that
\* turtles holds and nobody deletes belongs to a CAPI Cluster that carries the
\* finalizer, or that was released from Rancher (reconcile, reconcileDelete).
THEOREM HeldSafety == ASSUME Undisturbed PROVE Spec => []HeldOrReleased
  BY HInvAlways, PTL DEF HInv

LEMMA ReleaseLastsStep ==
  ASSUME Undisturbed, UInv, Deleting, ReleaseLasts, [Next]_vars
  PROVE  ReleaseLasts'
  <1> USE DEF UInv, IInv
  <1>1. CASE pc' # "dropRancher"
    BY <1>1 DEF ReleaseLasts
  <1>2. CASE pc = "dropRancher"
    BY <1>2, Forward DEF ReleaseLasts
  <1>3. CASE ReconcileDelete
    <2>1. CASE PutCapi(Released(c))
      <3>1. Released(c).imported
        BY DEF Released, TypeOK, CapiObject
      <3>2. QED
        BY <2>1, <3>1, PutCapiEffect, Copies DEF ReleaseLasts, CapiObject
    <2>2. QED
      BY <1>1, <1>3, <2>1 DEF ReconcileDelete, Return
  <1>4. CASE ~ImportStep /\ ~Restart /\ ~DeliverCapi
    BY <1>1, <1>2, <1>4, OtherMoves
  <1>5. CASE DeliverCapi \/ Restart
    BY <1>1, <1>2, <1>5 DEF DeliverCapi, Restart
  <1>6. CASE ImportStep /\ ~ReconcileDelete /\ pc # "dropRancher"
    <2>1. CASE Gate
      BY <1>1, <2>1 DEF Gate, Finish
    <2>2. CASE ~Gate
      BY <1>1, <1>6, <2>2
         DEF ImportStep, Start, AddFinalizer, DropRancherFinalizer,
             DeleteDependents, DropCapiFinalizer, ShouldAutoImportUncached,
             CreateRancher, ReconcileNormal, PatchRancher, OuterPatch, Return,
             Finish
    <2>3. QED
      BY <2>1, <2>2
  <1>7. QED
    BY <1>2, <1>3, <1>4, <1>5, <1>6

\* The import reconciler takes its finalizer off a Rancher cluster only when the
\* CAPI Cluster is released on the API server, so that neither a crash nor a failed
\* call in between loses the release (reconcile, reconcileDelete).
THEOREM ReleaseSafety == ASSUME Undisturbed PROVE Spec => ReleaseBeforeDrop
  <1>1. Init => ReleaseLasts
    BY DEF Init, ReleaseLasts
  <1>2. UInv /\ HInv /\ ReleaseLasts /\ [Next]_vars => ReleaseLasts'
    BY ReleaseLastsStep DEF HInv
  <1>3. ReleaseLasts /\ [Next]_vars
          => [DropRancherFinalizer /\ ranchers' # ranchers => capi.imported]_vars
    BY DEF ReleaseLasts, DropRancherFinalizer
  <1>4. QED
    BY HInvAlways, <1>1, <1>2, <1>3, PTL DEF Spec, ReleaseBeforeDrop

-----------------------------------------------------------------------------
(***************************************************************************)
(* While users leave the imported annotation to the reconciler.            *)
(***************************************************************************)
NotAnnotated == "annotate" \notin EnvOps

\* Only the release sets the annotation, or the outer Patch after a failed one.
LEMMA ImportedStep ==
  ASSUME NotAnnotated, UInv, [Next]_vars, capi'.imported
  PROVE  \/ capi.imported
         \/ ImportStep /\ pc \in {"release", "patch"} /\ (pc = "patch" => c.imported)
  <1> USE DEF UInv, IInv
  <1> DEFINE Goal ==
        \/ capi.imported
        \/ ImportStep /\ pc \in {"release", "patch"} /\ (pc = "patch" => c.imported)
  <1>1. CASE capi' = capi
    BY <1>1
  <1>2. ASSUME NEW o \in CapiObject, PutCapi(o), o.imported => capi.imported
        PROVE  Goal
    BY <1>2, PutCapiEffect DEF CapiObject
  <1>3. CASE AddFinalizer
    <2>1. CASE /\ CapiLock(capiCache)
               /\ PutCapi([capiCache EXCEPT !.fin = TRUE])
      <3>1. capiCache = capi
        BY <2>1 DEF CapiLock, CopiesCoherent, Coherent
      <3>2. QED
        BY <1>2, <2>1, <3>1, Copies DEF TypeOK, CapiObject
    <2>2. QED
      BY <1>1, <1>3, <2>1 DEF AddFinalizer, capiStore
  <1>4. CASE DropCapiFinalizer
    <2>1. CASE CapiLock(c) /\ PutCapi([c EXCEPT !.fin = FALSE])
      <3>1. c = capi
        BY <1>4, <2>1 DEF DropCapiFinalizer, CopiesFollow, CapiLock,
                          CopiesCoherent, Coherent
      <3>2. QED
        BY <1>2, <2>1, <3>1, Copies DEF TypeOK, CapiObject
    <2>2. QED
      BY <1>1, <1>4, <2>1 DEF DropCapiFinalizer, capiStore
  <1>5. CASE OuterPatch
    <2>1. CASE PutCapi(c) /\ ~c.imported
      BY <1>2, <2>1, Copies
    <2>2. QED
      BY <1>1, <1>5, <2>1 DEF OuterPatch, capiStore, ImportStep
  <1>6. CASE ReconcileDelete
    BY <1>6 DEF ReconcileDelete, ImportStep
  <1>7. CASE DeleteCapi \/ Relabel \/ Unannotate \/ ControlPlane
    <2> DEFINE Edit(o) == o \in CapiObject /\ (o.imported => capi.imported)
    <2>1. /\ Edit([capi EXCEPT !.del = TRUE])
          /\ Edit([capi EXCEPT !.imported = FALSE])
          /\ Edit([capi EXCEPT !.cp = ~@])
      BY DEF TypeOK, CapiObject
    <2>2. ASSUME NEW l \in Labels PROVE Edit([capi EXCEPT !.label = l])
      BY DEF TypeOK, CapiObject
    <2>3. QED
      BY <1>2, <1>7, <2>1, <2>2
         DEF DeleteCapi, Relabel, Unannotate, ControlPlane, EditCapi
  <1>8. CASE RecreateCapi \/ CapiGone
    <2>1. /\ FreshCapi(capi.label, FALSE) \in CapiObject
          /\ ~FreshCapi(capi.label, FALSE).imported
          /\ [capi EXCEPT !.ex = FALSE] \in CapiObject
          /\ [capi EXCEPT !.ex = FALSE].imported = capi.imported
      BY DEF FreshCapi, NoCapi, TypeOK, CapiObject
    <2>2. QED
      BY <1>2, <1>8, <2>1 DEF RecreateCapi, CapiGone
  <1>9. ~Annotate
    BY DEF NotAnnotated, Annotate, EditCapi, Env
  <1>10. CASE \/ Start \/ Gate \/ DropRancherFinalizer \/ DeleteDependents
              \/ ShouldAutoImportUncached \/ CreateRancher \/ ReconcileNormal
              \/ PatchRancher
    BY <1>1, <1>10 DEF Start, Gate, DropRancherFinalizer, DeleteDependents,
                       ShouldAutoImportUncached, CreateRancher,
                       ReconcileNormal, PatchRancher, capiStore
  <1>11. CASE \/ DeliverCapi \/ DeliverRancher \/ DeliverNamespace \/ Resync
              \/ RelabelNamespace \/ Restart \/ UNCHANGED vars
              \/ \E r \in RancherIds :
                   \/ Cleanup(r) \/ DeleteRancher(r) \/ TouchRancher(r)
                   \/ RancherGone(r) \/ RancherReady(r)
    BY <1>1, <1>11 DEF DeliverCapi, DeliverRancher, DeliverNamespace, Resync,
                       RelabelNamespace, Restart, Cleanup, DeleteRancher,
                       TouchRancher, RancherGone, RancherReady, EditRancher,
                       capiStore, vars
  <1>12. QED
    BY <1>3, <1>4, <1>5, <1>6, <1>7, <1>8, <1>9, <1>10, <1>11
       DEF Next, Environment, ImportStep

\* The label of the namespace would overrule the annotation (ShouldAutoImport).
NamespaceUnlabelled ==
  NamespaceLabels \subseteq {FALSE} /\ "relabelNamespace" \notin EnvOps

NotReleased ==
  /\ ~nsLabel /\ ~nsCache
  /\ pc = "create" => ~capi.imported

LEMMA NotReleasedStep ==
  ASSUME NotAnnotated, NamespaceUnlabelled, UInv, NotReleased, [Next]_vars
  PROVE  NotReleased'
  <1> USE DEF UInv, IInv
  <1>1. UNCHANGED nsLabel
    <2>1. ~RelabelNamespace
      BY DEF NamespaceUnlabelled, RelabelNamespace, Env
    <2>2. QED
      BY <2>1 DEF Next, ImportStep, Environment, DeliverCapi, DeliverRancher,
                  DeliverNamespace, Resync, Start, AddFinalizer, Gate,
                  ReconcileDelete, DropRancherFinalizer, DeleteDependents,
                  DropCapiFinalizer, ShouldAutoImportUncached, CreateRancher,
                  ReconcileNormal, PatchRancher, OuterPatch, Cleanup,
                  DeleteCapi, Relabel, Annotate, Unannotate, ControlPlane,
                  RecreateCapi, Restart, CapiGone, DeleteRancher, TouchRancher,
                  RancherGone, RancherReady, EditCapi, EditRancher, vars
  <1>2. nsCache' = nsCache \/ nsCache' = nsLabel
    <2>1. CASE DeliverNamespace \/ Restart
      BY <2>1 DEF DeliverNamespace, Restart
    <2>2. CASE ~DeliverNamespace /\ ~Restart
      BY <2>2 DEF Next, ImportStep, Environment, DeliverCapi, DeliverRancher,
                  Resync, Start, AddFinalizer, Gate, RelabelNamespace,
                  ReconcileDelete, DropRancherFinalizer, DeleteDependents,
                  DropCapiFinalizer, ShouldAutoImportUncached, CreateRancher,
                  ReconcileNormal, PatchRancher, OuterPatch, Cleanup,
                  DeleteCapi, Relabel, Annotate, Unannotate, ControlPlane,
                  RecreateCapi, CapiGone, DeleteRancher, TouchRancher,
                  RancherGone, RancherReady, EditCapi, EditRancher, vars, caches
    <2>3. QED
      BY <2>1, <2>2
  <1>3. pc' = "create" => ~capi'.imported
    <2>1. CASE pc = "create"
      BY <2>1, ImportedStep DEF NotReleased
    <2>2. CASE ShouldAutoImportUncached
      BY <2>2 DEF ShouldAutoImportUncached, ShouldAutoImport, Return,
                  NotReleased, capiStore
    <2>3. CASE ~ImportStep /\ ~Restart /\ ~DeliverCapi
      BY <2>1, <2>3, OtherMoves
    <2>4. CASE DeliverCapi \/ Restart
      BY <2>1, <2>4 DEF DeliverCapi, Restart
    <2>5. CASE Gate
      BY <2>5 DEF Gate, Finish
    <2>6. CASE ImportStep /\ ~ShouldAutoImportUncached /\ ~Gate
      BY <2>1, <2>6
         DEF ImportStep, Start, AddFinalizer, ReconcileDelete,
             DropRancherFinalizer, DeleteDependents, DropCapiFinalizer,
             CreateRancher, ReconcileNormal, PatchRancher, OuterPatch, Return,
             Finish
    <2>7. QED
      BY <2>2, <2>3, <2>4, <2>5, <2>6
  <1>4. QED
    BY <1>1, <1>2, <1>3 DEF NotReleased

\* A released Cluster is not imported again, though the cache the reconcile started
\* from may still show it unreleased: the Cluster is read again, uncached, before
\* the Create (reconcileNormal, shouldAutoImportUncached).
THEOREM ReimportSafety ==
  ASSUME NotAnnotated, NamespaceUnlabelled PROVE Spec => NoReimport
  <1>1. Init => NotReleased
    BY DEF Init, NotReleased, NamespaceUnlabelled
  <1>2. UInv /\ NotReleased /\ [Next]_vars => NotReleased'
    BY NotReleasedStep
  <1>3. UInv /\ NotReleased /\ [Next]_vars
          => [\A r \in RancherIds : ~ranchers[r].ex /\ ranchers'[r].ex
                                      => ~capi.imported]_vars
    BY RancherStep DEF Allowed, NotReleased
  <1>4. QED
    BY UInvInit, UInvStep, <1>1, <1>2, <1>3, PTL DEF Spec, NoReimport

-----------------------------------------------------------------------------
(***************************************************************************)
(* A released Cluster does not get the finalizer back.  With a Rancher     *)
(* cluster of an earlier release it may: it is then there before the       *)
(* finalizer is, so that the release can overtake the AddFinalizer, whose  *)
(* retry reads the released Cluster and adds the finalizer to it.          *)
(***************************************************************************)
NothingAdopted == Adopted = {}

NoRanchers == \A r \in RancherIds : ranchers[r].rv = 0

Sane(o) == o.imported => ~o.fin

\* No copy that could be written shows a released Cluster with the finalizer.
SaneCopies ==
  /\ Sane(capi) /\ Sane(capiCache) /\ Sane(c) /\ Sane(base)
  /\ \A i \in DOMAIN capiEvents : Sane(capiEvents[i])

\* While the informer still shows the Cluster of before the AddFinalizer there is no
\* Rancher cluster whose deletion could release it.
FinalizerFirst ==
  /\ NeedsFinalizer(capi) => NoRanchers
  /\ pc = "gate" /\ NeedsFinalizer(capiCache) => NoRanchers
  /\ capi.imported => ~NeedsFinalizer(capiCache)
  /\ pc = "finalizer" => ~capi.imported
  /\ pc = "release" => ~NeedsFinalizer(capiCache)
  /\ pc \notin {"idle", "finalizer", "gate"} /\ c.imported
       => ~NeedsFinalizer(capiCache)

SInv == SaneCopies /\ FinalizerFirst

\* The informer does not go back to a Cluster that needs the finalizer.
LEMMA CacheForward ==
  ASSUME UInv, OneWay, [Next]_vars, NeedsFinalizer(capiCache')
  PROVE  NeedsFinalizer(capiCache)
  <1> USE DEF UInv, IInv
  <1>1. CASE DeliverCapi
    <2>1. capiCache' = capiEvents[1] /\ 1 \in DOMAIN capiEvents
      BY <1>1 DEF DeliverCapi, TypeOK
    <2>2. QED
      BY <2>1 DEF OneWay, Grows
  <1>2. CASE Restart
    BY <1>2 DEF Restart, OneWay, Grows
  <1>3. CASE ImportStep
    BY <1>3 DEF ImportStep, Start, AddFinalizer, Gate, ReconcileDelete,
                DropRancherFinalizer, DeleteDependents, DropCapiFinalizer,
                ShouldAutoImportUncached, CreateRancher, ReconcileNormal,
                PatchRancher, OuterPatch, caches
  <1>4. CASE ~ImportStep /\ ~Restart /\ ~DeliverCapi
    BY <1>4, OtherMoves
  <1>5. QED
    BY <1>1, <1>2, <1>3, <1>4

\* Only the Create ends the time without Rancher clusters.
LEMMA NoRanchersStep ==
  ASSUME UInv, [Next]_vars, NoRanchers, pc # "create" PROVE NoRanchers'
  <1>1. ASSUME NEW r \in RancherIds PROVE ranchers'[r].rv = 0
    <2>1. ~ranchers[r].ex /\ ranchers[r].rv = 0
      BY DEF NoRanchers, UInv, RanchersCoherent
    <2>2. QED
      BY <2>1, RancherStep DEF Allowed
  <1>2. QED
    BY <1>1 DEF NoRanchers

\* The informer has no Rancher cluster where there is none.
LEMMA NoneListed ==
  ASSUME UInv, NoRanchers, NEW r \in RancherIds PROVE ~rancherCache[r].ex
  <1>1. ranchers[r].rv = 0 /\ ~ranchers[r].ex
    BY DEF NoRanchers, UInv, RanchersCoherent
  <1>2. rancherCache[r].rv \in Nat
    BY DEF UInv, IInv, TypeOK, RancherObject
  <1>3. rancherCache[r] = ranchers[r]
    BY <1>1, <1>2 DEF UInv, RanchersCoherent, RancherCoherent
  <1>4. QED
    BY <1>1, <1>3

\* What the server holds is sane: the AddFinalizer finds the version its copy shows.
LEMMA SaneServer ==
  ASSUME NotAnnotated, Undisturbed, UInv, SInv, [Next]_vars
  PROVE  Sane(capi')
  <1> USE DEF UInv, IInv, SInv, SaneCopies
  <1>1. CASE capi' = capi
    BY <1>1
  <1>2. ASSUME NEW o \in CapiObject, PutCapi(o), Sane(o) PROVE Sane(capi')
    BY <1>2, PutCapiEffect DEF Sane, CapiObject
  <1>3. CASE AddFinalizer
    <2>1. CASE /\ CapiLock(capiCache)
               /\ PutCapi([capiCache EXCEPT !.fin = TRUE])
      <3>1. capiCache = capi /\ ~capi.imported
        BY <1>3, <2>1 DEF AddFinalizer, FinalizerFirst, CapiLock,
                          CopiesCoherent, Coherent
      <3>2. Sane([capiCache EXCEPT !.fin = TRUE])
        BY <3>1 DEF Sane, TypeOK, CapiObject
      <3>3. QED
        BY <1>2, <2>1, <3>2, Copies
    <2>2. QED
      BY <1>1, <1>3, <2>1 DEF AddFinalizer, capiStore
  <1>4. CASE ReconcileDelete \/ DropCapiFinalizer \/ OuterPatch
    <2>1. Sane(Released(c)) /\ Sane([c EXCEPT !.fin = FALSE])
      BY DEF Sane, Released, TypeOK, CapiObject
    <2>2. QED
      BY <1>1, <1>2, <1>4, <2>1, Copies
         DEF ReconcileDelete, DropCapiFinalizer, OuterPatch, capiStore
  <1>5. CASE DeleteCapi \/ Relabel \/ ControlPlane \/ CapiGone
    <2> DEFINE Edit(o) == o \in CapiObject /\ Sane(o)
    <2>1. /\ Edit([capi EXCEPT !.del = TRUE])
          /\ Edit([capi EXCEPT !.ex = FALSE])
          /\ Edit([capi EXCEPT !.cp = ~@])
      BY DEF Sane, TypeOK, CapiObject
    <2>2. ASSUME NEW l \in Labels PROVE Edit([capi EXCEPT !.label = l])
      BY DEF Sane, TypeOK, CapiObject
    <2>3. QED
      BY <1>2, <1>5, <2>1, <2>2
         DEF DeleteCapi, Relabel, ControlPlane, EditCapi, CapiGone
  <1>6. ~Annotate /\ ~Unannotate /\ ~RecreateCapi
    BY DEF NotAnnotated, Undisturbed, Annotate, Unannotate, EditCapi,
           RecreateCapi, Env
  <1>7. CASE \/ Start \/ Gate \/ DropRancherFinalizer \/ DeleteDependents
             \/ ShouldAutoImportUncached \/ CreateRancher \/ ReconcileNormal
             \/ PatchRancher
    BY <1>1, <1>7 DEF Start, Gate, DropRancherFinalizer, DeleteDependents,
                      ShouldAutoImportUncached, CreateRancher,
                      ReconcileNormal, PatchRancher, capiStore
  <1>8. CASE \/ DeliverCapi \/ DeliverRancher \/ DeliverNamespace \/ Resync
             \/ RelabelNamespace \/ Restart \/ UNCHANGED vars
             \/ \E r \in RancherIds :
                  \/ Cleanup(r) \/ DeleteRancher(r) \/ TouchRancher(r)
                  \/ RancherGone(r) \/ RancherReady(r)
    BY <1>1, <1>8 DEF DeliverCapi, DeliverRancher, DeliverNamespace, Resync,
                      RelabelNamespace, Restart, Cleanup, DeleteRancher,
                      TouchRancher, RancherGone, RancherReady, EditRancher,
                      capiStore, vars
  <1>9. QED
    BY <1>3, <1>4, <1>5, <1>6, <1>7, <1>8 DEF Next, Environment, ImportStep

LEMMA SaneStep ==
  ASSUME NotAnnotated, Undisturbed, UInv, TypeOK', SInv, [Next]_vars
  PROVE  SaneCopies'
  <1> USE DEF UInv, IInv, SInv, SaneCopies
  <1>1. Sane(capi')
    BY SaneServer
  <1>2. Sane(NoCapi)
    BY DEF Sane, NoCapi
  <1>3. CASE DeliverCapi
    <2>1. /\ capiCache' = capiEvents[1] /\ 1 \in DOMAIN capiEvents
          /\ \A i \in DOMAIN capiEvents' : /\ i + 1 \in DOMAIN capiEvents
                                           /\ capiEvents'[i] = capiEvents[i + 1]
          /\ UNCHANGED <<c, base>>
      BY <1>3 DEF DeliverCapi, TypeOK, local
    <2>2. QED
      BY <1>1, <2>1 DEF Sane
  <1>4. CASE Restart
    BY <1>1, <1>2, <1>4 DEF Restart, Sane
  <1>5. ASSUME CapiMoves, capiCache' = capiCache, Sane(c'), Sane(base')
        PROVE  SaneCopies'
    <2>1. ASSUME NEW i \in DOMAIN capiEvents' PROVE Sane(capiEvents'[i])
      <3>1. CASE capiEvents' = capiEvents
        BY <2>1, <3>1
      <3>2. CASE capiEvents' = Append(capiEvents, capi')
        BY <1>1, <2>1, <3>2 DEF TypeOK
      <3>3. QED
        BY <1>5, <3>1, <3>2 DEF CapiMoves
    <2>2. QED
      BY <1>1, <1>5, <2>1 DEF Sane
  <1>6. CASE ~ImportStep /\ ~Restart /\ ~DeliverCapi
    BY <1>5, <1>6, OtherMoves DEF local
  <1>7. CASE ImportStep
    <2>1. capiCache' = capiCache
      BY <1>7 DEF ImportStep, Start, AddFinalizer, Gate, ReconcileDelete,
                  DropRancherFinalizer, DeleteDependents, DropCapiFinalizer,
                  ShouldAutoImportUncached, CreateRancher, ReconcileNormal,
                  PatchRancher, OuterPatch, caches
    <2>2. Sane(c')
      <3>1. /\ Sane(Released(c)) /\ Sane([c EXCEPT !.fin = FALSE])
            /\ Sane(c) => Sane(FleetManaged(c))
        BY FleetManagedEffect DEF Sane, Released, TypeOK, CapiObject
      <3>2. CASE \/ c' \in {capi', capi, capiCache, c, NoCapi, Released(c)}
                 \/ c' = [c EXCEPT !.fin = FALSE] \/ c' = FleetManaged(c)
        BY <1>1, <1>2, <3>1, <3>2
      <3>3. CASE ReconcileNormal
        BY <3>2, <3>3 DEF ReconcileNormal
      <3>4. CASE ~ReconcileNormal
        <4>1. CASE Gate
          BY <3>2, <4>1 DEF Gate, Finish
        <4>2. CASE ~Gate
          BY <1>7, <3>2, <3>4, <4>2
             DEF ImportStep, Start, AddFinalizer, ReconcileDelete,
                 DropRancherFinalizer, DeleteDependents, DropCapiFinalizer,
                 ShouldAutoImportUncached, CreateRancher, PatchRancher,
                 OuterPatch, Finish
        <4>3. QED
          BY <4>1, <4>2
      <3>5. QED
        BY <3>3, <3>4
    <2>3. base' \in {base, NoCapi, c}
      <3>1. CASE Gate
        BY <3>1 DEF Gate, Finish
      <3>2. CASE ~Gate
        BY <1>7, <3>2
           DEF ImportStep, Start, AddFinalizer, ReconcileDelete,
               DropRancherFinalizer, DeleteDependents, DropCapiFinalizer,
               ShouldAutoImportUncached, CreateRancher, ReconcileNormal,
               PatchRancher, OuterPatch, Finish
      <3>3. QED
        BY <3>1, <3>2
    <2>4. QED
      BY <1>2, <1>5, <1>7, <2>1, <2>2, <2>3, ImportMoves
  <1>8. QED
    BY <1>3, <1>4, <1>6, <1>7

LEMMA FinalizerFirstStep ==
  ASSUME NotAnnotated, Undisturbed, UInv, TypeOK', HInv, SInv, [Next]_vars
  PROVE  FinalizerFirst'
  <1> USE DEF UInv, IInv, HInv, SInv
  <1>1. (NeedsFinalizer(capi) => NoRanchers)'
    <2>1. CASE NeedsFinalizer(capi')
      <3>1. NeedsFinalizer(capi)
        BY <2>1, Forward DEF Grows
      <3>2. NoRanchers /\ pc # "create"
        BY <3>1 DEF FinalizerFirst, Marked
      <3>3. QED
        BY <3>2, NoRanchersStep
    <2>2. QED
      BY <2>1 DEF NeedsFinalizer
  <1>2. (capi.imported => ~NeedsFinalizer(capiCache))'
    <2>1. CASE capi'.imported /\ NeedsFinalizer(capiCache')
      <3>1. NeedsFinalizer(capiCache)
        BY <2>1, CacheForward
      <3>2. QED
        BY <2>1, <3>1, ImportedStep DEF FinalizerFirst
    <2>2. QED
      BY <2>1 DEF NeedsFinalizer
  \* The claims about the steps of the reconciler, while others act and it does.
  <1> DEFINE Working(p, l, needs) ==
        /\ p = "gate" /\ needs => NoRanchers'
        /\ p = "finalizer" => ~capi'.imported
        /\ p = "release" => ~needs
        /\ p \notin {"idle", "finalizer", "gate"} /\ l.imported => ~needs
  <1>3. Working(pc', c', NeedsFinalizer(capiCache'))
    <2>1. NeedsFinalizer(capiCache') => NeedsFinalizer(capiCache)
      BY CacheForward
    <2>2. CASE pc' = "idle"
      BY <2>2
    <2>3. CASE UNCHANGED <<pc, c>>
      <3>1. pc = "gate" /\ NoRanchers => NoRanchers'
        BY NoRanchersStep
      <3>2. pc = "finalizer" => ~capi'.imported
        BY ImportedStep DEF FinalizerFirst
      <3>3. QED
        BY <2>1, <2>3, <3>1, <3>2 DEF FinalizerFirst
    <2>4. CASE DeliverCapi
      BY <2>3, <2>4 DEF DeliverCapi, local
    <2>5. CASE Restart \/ OuterPatch
      BY <2>2, <2>5 DEF Restart, OuterPatch, Finish
    <2>6. CASE ~ImportStep /\ ~Restart /\ ~DeliverCapi
      BY <2>3, <2>6, OtherMoves DEF local
    <2>7. CASE Start
      <3>1. UNCHANGED <<capi, capiCache>>
        BY <2>7 DEF Start, capiStore, caches
      <3>2. /\ pc' = "finalizer" => NeedsFinalizer(capiCache)
            /\ pc' = "gate" => ~NeedsFinalizer(capiCache)
            /\ pc' \in {"finalizer", "gate"}
        BY <2>7 DEF Start
      <3>3. QED
        BY <3>1, <3>2 DEF FinalizerFirst
    <2>8. CASE AddFinalizer
      <3>1. CASE CapiLock(capiCache) /\ pc' = "gate" /\ UNCHANGED <<capiCache, ranchers>>
        <4>1. capiCache = capi
          BY <3>1 DEF CapiLock, CopiesCoherent, Coherent
        <4>2. NeedsFinalizer(capiCache) => NoRanchers'
          BY <3>1, <4>1 DEF FinalizerFirst, NoRanchers
        <4>3. QED
          BY <2>1, <3>1, <4>2
      <3>2. QED
        BY <2>2, <2>8, <3>1 DEF AddFinalizer, Finish, caches, rancherStore
    <2>9. CASE Gate
      <3>1. CASE /\ pc = "gate" /\ ~c.imported /\ c' = c
                 /\ pc' \in {"release", "dependents", "check", "normal"}
                 /\ pc' = "release" => \E r \in RancherIds : rancherCache[r].ex
        <4>1. pc' = "release" => ~NeedsFinalizer(capiCache)
          BY <3>1, NoneListed DEF FinalizerFirst
        <4>2. QED
          BY <2>1, <3>1, <4>1
      <3>2. QED
        BY <2>2, <2>9, <3>1 DEF Gate, Finish
    <2>10. CASE ReconcileDelete
      BY <2>1, <2>10 DEF ReconcileDelete, Return, FinalizerFirst
    <2>11. CASE DropCapiFinalizer
      <3>1. c'.imported = c.imported
        <4>1. [c EXCEPT !.fin = FALSE].imported = c.imported
          BY DEF TypeOK, CapiObject
        <4>2. CASE PutCapi([c EXCEPT !.fin = FALSE]) /\ c' = capi'
          BY <4>1, <4>2, PutCapiEffect, Copies DEF CapiObject
        <4>3. QED
          BY <2>11, <4>1, <4>2 DEF DropCapiFinalizer
      <3>2. pc = "dropCapi" /\ pc' = "patch"
        BY <2>11 DEF DropCapiFinalizer, Return
      <3>3. QED
        BY <2>1, <3>1, <3>2 DEF FinalizerFirst
    <2>12. CASE ShouldAutoImportUncached
      <3>1. /\ c'.imported \in {c.imported, capi.imported}
            /\ pc = "check" /\ pc' \in {"create", "patch"}
        BY <2>12, FleetManagedEffect DEF ShouldAutoImportUncached, Return, TypeOK
      <3>2. QED
        BY <2>1, <3>1 DEF FinalizerFirst
    <2>13. CASE \/ DropRancherFinalizer \/ DeleteDependents \/ CreateRancher
                \/ ReconcileNormal \/ PatchRancher
      <3>1. /\ c'.imported = c.imported
            /\ pc \notin {"idle", "finalizer", "gate"}
            /\ pc' \in {"patch", "dropCapi", "dependents", "patchRancher"}
        <4>1. CASE ReconcileNormal
          BY <4>1, FleetManagedEffect DEF ReconcileNormal, TypeOK
        <4>2. CASE ~ReconcileNormal
          BY <2>13, <4>2 DEF DropRancherFinalizer, DeleteDependents,
                             CreateRancher, PatchRancher, Return
        <4>3. QED
          BY <4>1, <4>2
      <3>2. QED
        BY <2>1, <3>1 DEF FinalizerFirst
    <2>14. QED
      BY <2>4, <2>5, <2>6, <2>7, <2>8, <2>9, <2>10, <2>11, <2>12, <2>13
         DEF ImportStep
  <1>4. QED
    BY <1>1, <1>2, <1>3 DEF FinalizerFirst, NeedsFinalizer

LEMMA SInvInit == ASSUME NothingAdopted PROVE Init => SInv
  <1> SUFFICES ASSUME Init PROVE SInv
    OBVIOUS
  <1>1. TypeOK
    BY TypeInit
  <1>2. ~capi.imported
    BY <1>1 DEF Init, FreshCapi, NoCapi, TypeOK, CapiObject
  <1>3. NoRanchers
    BY DEF Init, NothingAdopted, NoRanchers, NoRancher
  <1>4. SaneCopies
    BY <1>2 DEF Init, SaneCopies, Sane, NoCapi
  <1>5. FinalizerFirst
    BY <1>2, <1>3 DEF Init, FinalizerFirst
  <1>6. QED
    BY <1>4, <1>5 DEF SInv

\* A Cluster that was released does not keep the finalizer, and does not get it back
\* from a reconcile that started before the release: the annotation would hide the
\* Cluster from the controller, and nobody would take the finalizer off again
\* (Reconcile, reconcileDelete).
THEOREM ReleasedSafety ==
  ASSUME NotAnnotated, Undisturbed, NothingAdopted
  PROVE  Spec => []ReleasedIsNotHeld
  <1>1. UInv /\ HInv /\ SInv /\ [Next]_vars => SInv'
    <2>1. ASSUME UInv, HInv, SInv, [Next]_vars PROVE SInv'
      <3>1. TypeOK'
        BY <2>1, UInvStep DEF UInv, IInv
      <3>2. QED
        BY <2>1, <3>1, SaneStep, FinalizerFirstStep DEF SInv
    <2>2. QED
      BY <2>1
  <1>2. SInv => ReleasedIsNotHeld
    BY DEF SInv, SaneCopies, Sane, ReleasedIsNotHeld
  <1>3. QED
    BY HInvAlways, SInvInit, <1>1, <1>2, PTL DEF Spec
=============================================================================
