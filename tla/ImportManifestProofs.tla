-------------------------- MODULE ImportManifestProofs --------------------------
(***************************************************************************)
(* Proofs about ImportManifest, for manifests of any length and every      *)
(* environment: nothing is created into a cleanup that was there when the  *)
(* Reconcile began.                                                        *)
(***************************************************************************)
EXTENDS ImportManifest, TLAPS

\* What is left of the deletions the Reconcile began with still goes on; once the
\* jobs are listed none of it is the job, and every object that was looked at is
\* free of it.
Lasting == underway \subseteq Deletions
Seen ==
  /\ pc = "verify" => underway \subseteq doc..Last
  /\ pc = "create" => underway = {}

\* The reader is at the first object unless it is among them.
AtFirst == pc \notin {"verify", "create"} => doc = 1

IInv == TypeOK /\ Lasting /\ Seen /\ AtFirst

LEMMA DeletionsType ==
  ASSUME TypeOK
  PROVE  Deletions \subseteq Objects \cup {Job}
  BY DEF Deletions, Deleting

\* The job is no object of the manifest.
LEMMA JobIsNoObject == Job \notin Objects
  BY ImportManifestAssumption DEF Job, Objects

-----------------------------------------------------------------------------
(***************************************************************************)
(* The reader: a document that was looked at leaves the history, and the   *)
(* next one is still a document.                                           *)
(***************************************************************************)
LEMMA NextIsObject ==
  ASSUME doc \in Objects, ~AtEnd
  PROVE  AtNext \in Objects
  BY ImportManifestAssumption DEF AtNext, AtEnd, Objects

LEMMA LookedAt ==
  ASSUME doc \in Objects, NEW S, S \subseteq doc..Last, doc \notin S
  PROVE  IF AtEnd THEN S = {} ELSE S \subseteq AtNext..Last
  BY ImportManifestAssumption DEF AtNext, AtEnd, Objects

LEMMA FirstIsObject == 1 \in Objects
  BY ImportManifestAssumption DEF Objects

-----------------------------------------------------------------------------
(***************************************************************************)
(* Initial states and steps.                                               *)
(***************************************************************************)
LEMMA InitIInv == Init => IInv
  <1> SUFFICES ASSUME Init PROVE IInv
    OBVIOUS
  <1>1. PICK adopted \in BOOLEAN :
          /\ cluster = [ready |-> FALSE, migrated |-> ~adopted]
          /\ fleet = [old |-> IF adopted THEN "present" ELSE "absent", new |-> FALSE]
    BY DEF Init
  <1>2. /\ cluster \in Cluster /\ cached \in Cluster
        /\ settingsCache \in [mode : Modes, cacerts : BOOLEAN]
        /\ fleet \in [old : {"absent", "present", "deleting"}, new : BOOLEAN]
    BY <1>1, ImportManifestAssumption DEF Init, Cluster
  <1>3. objects \in [Objects -> {"absent", "old", "new", "deleting"}]
    BY DEF Init
  <1>4. TypeOK
    <2>1. ops \in 0..MaxOps
      BY ImportManifestAssumption DEF Init
    <2>2. token \in Tokens /\ tokenCache \in Tokens /\ pc \in Steps
      BY DEF Init, Tokens, Steps
    <2>3. job \in BOOLEAN /\ underway \subseteq Objects \cup {Job} /\ doc \in Objects
      BY FirstIsObject DEF Init
    <2> QED
      BY <1>2, <1>3, <2>1, <2>2, <2>3 DEF Init, TypeOK
  <1>5. Lasting /\ Seen /\ AtFirst
    BY DEF Init, Lasting, Seen, AtFirst
  <1> QED
    BY <1>4, <1>5 DEF IInv

\* Whatever ends the Reconcile leaves nothing to prove but the types.
LEMMA ReturnIInv ==
  ASSUME IInv, Return,
         UNCHANGED <<settings, serving, secret, caches, downstream>>,
         token' \in Tokens, cluster' \in Cluster, ops' \in 0..MaxOps
  PROVE  IInv'
  <1>1. TypeOK'
    BY FirstIsObject DEF IInv, TypeOK, Return, caches, downstream, Steps
  <1>2. Lasting' /\ Seen' /\ AtFirst'
    BY DEF Return, Lasting, Seen, AtFirst
  <1> QED
    BY <1>1, <1>2 DEF IInv

\* Nor does a step to a place where nothing is looked at yet.
LEMMA ProceedIInv ==
  ASSUME IInv, pc' \in Steps \ {"verify", "create"},
         pc \notin {"verify", "create"},
         UNCHANGED <<settings, serving, token, secret, caches, cluster, downstream,
                     doc, underway, ops>>,
         caCert' \in {"system", "cacerts"}
  PROVE  IInv'
  <1>1. TypeOK'
    BY DEF IInv, TypeOK, caches, downstream
  <1>2. Lasting' /\ Seen' /\ AtFirst'
    BY DEF IInv, Lasting, Seen, AtFirst, Deletions, Deleting, downstream
  <1> QED
    BY <1>1, <1>2 DEF IInv

LEMMA StartIInv == IInv /\ Start => IInv'
  <1> SUFFICES ASSUME IInv, Start PROVE IInv'
    OBVIOUS
  <1>1. Deletions' = Deletions
    BY DEF Start, Deletions, Deleting, downstream
  <1>2. TypeOK'
    BY DeletionsType DEF IInv, TypeOK, Start, rancher, caches, downstream, Steps,
       Trusted
  <1>3. Lasting' /\ Seen' /\ AtFirst'
    BY <1>1 DEF IInv, Start, Lasting, Seen, AtFirst
  <1> QED
    BY <1>2, <1>3 DEF IInv

LEMMA GetTokenIInv == IInv /\ GetToken => IInv'
  <1> SUFFICES ASSUME IInv, GetToken PROVE IInv'
    OBVIOUS
  <1>1. CASE tokenCache \in {"missing", "created"}
    <2>1. token' \in Tokens
      BY <1>1 DEF IInv, TypeOK, GetToken, Tokens
    <2> QED
      BY <1>1, <2>1, ReturnIInv DEF IInv, TypeOK, GetToken
  <1>2. CASE tokenCache \notin {"missing", "created"}
    BY <1>2, ProceedIInv DEF IInv, TypeOK, GetToken, Steps
  <1> QED
    BY <1>1, <1>2

LEMMA ResolveManifestURLIInv == IInv /\ ResolveManifestURL => IInv'
  <1> SUFFICES ASSUME IInv, ResolveManifestURL PROVE IInv'
    OBVIOUS
  <1>1. CASE Resolvable
    BY <1>1, ProceedIInv DEF IInv, TypeOK, ResolveManifestURL, Steps, rancher
  <1>2. CASE ~Resolvable
    BY <1>2, ReturnIInv DEF IInv, TypeOK, ResolveManifestURL, rancher
  <1> QED
    BY <1>1, <1>2

LEMMA DownloadManifestIInv == IInv /\ DownloadManifest => IInv'
  <1> SUFFICES ASSUME IInv, DownloadManifest PROVE IInv'
    OBVIOUS
  <1>1. CASE Verified
    BY <1>1, ProceedIInv DEF IInv, TypeOK, DownloadManifest, Steps, rancher
  <1>2. CASE ~Verified
    BY <1>2, ReturnIInv DEF IInv, TypeOK, DownloadManifest, rancher
  <1> QED
    BY <1>1, <1>2

LEMMA ListJobsIInv == IInv /\ ListJobs => IInv'
  <1> SUFFICES ASSUME IInv, ListJobs PROVE IInv'
    OBVIOUS
  <1>1. CASE job
    BY <1>1, ReturnIInv DEF IInv, TypeOK, ListJobs, rancher
  <1>2. CASE ~job
    <2>1. TypeOK'
      BY <1>2 DEF IInv, TypeOK, ListJobs, Steps, rancher, caches, downstream
    <2>2. Lasting'
      BY <1>2 DEF IInv, Lasting, ListJobs, Deletions, Deleting, downstream
    \* Nothing is under way but deletions of objects, and the first is next.
    <2>3. underway \subseteq Objects
      BY <1>2 DEF IInv, Lasting, Deletions, Deleting
    <2>4. doc = 1
      BY DEF ListJobs, IInv, AtFirst
    <2>5. Seen'
      BY <1>2, <2>3, <2>4 DEF Seen, ListJobs, Objects
    <2>6. AtFirst'
      BY <1>2 DEF AtFirst, ListJobs
    <2> QED
      BY <2>1, <2>2, <2>5, <2>6 DEF IInv
  <1> QED
    BY <1>1, <1>2

LEMMA CheckDeletionIInv == IInv /\ CheckDeletion => IInv'
  <1> SUFFICES ASSUME IInv, CheckDeletion PROVE IInv'
    OBVIOUS
  <1>1. CASE MustWait
    BY <1>1, ReturnIInv DEF IInv, TypeOK, CheckDeletion, rancher
  <1>2. CASE ~MustWait
    <2> USE <1>2
    <2>1. doc \in Objects /\ underway \subseteq doc..Last
      BY DEF IInv, TypeOK, Seen, CheckDeletion
    <2>2. doc \notin underway
      BY <2>1, JobIsNoObject
         DEF IInv, Lasting, Deletions, Deleting, MustWait
    <2>3. IF AtEnd THEN underway = {} ELSE underway \subseteq AtNext..Last
      BY <2>1, <2>2, LookedAt
    <2>4. TypeOK'
      BY <2>1, NextIsObject, FirstIsObject
         DEF IInv, TypeOK, CheckDeletion, NextDocument, Steps, rancher, caches,
             downstream
    <2>5. Lasting'
      BY DEF IInv, Lasting, CheckDeletion, NextDocument, Deletions, Deleting,
             downstream
    <2>6. Seen'
      BY <2>3 DEF Seen, CheckDeletion, NextDocument
    <2>7. AtFirst'
      BY DEF AtFirst, CheckDeletion, NextDocument
    <2> QED
      BY <2>4, <2>5, <2>6, <2>7 DEF IInv
  <1> QED
    BY <1>1, <1>2

\* What is created was not there, so nothing of it was being deleted.
LEMMA CreateObjectIInv == IInv /\ CreateObject => IInv'
  <1> SUFFICES ASSUME IInv, CreateObject PROVE IInv'
    OBVIOUS
  <1>1. underway = {} /\ underway' = {}
    BY DEF IInv, Seen, CreateObject, Return, NextDocument
  <1>2. objects' \in [Objects -> {"absent", "old", "new", "deleting"}]
    BY DEF IInv, TypeOK, CreateObject
  <1>3. pc' \in Steps /\ doc' \in Objects /\ caCert' \in {"system", "cacerts"}
    BY NextIsObject, FirstIsObject
       DEF IInv, TypeOK, CreateObject, Return, NextDocument, Steps
  <1>4. TypeOK'
    BY <1>1, <1>2, <1>3 DEF IInv, TypeOK, CreateObject, rancher, caches
  <1>5. Lasting' /\ Seen'
    BY <1>1 DEF Lasting, Seen
  <1>6. AtFirst'
    BY DEF AtFirst, CreateObject, Return, NextDocument
  <1> QED
    BY <1>4, <1>5, <1>6 DEF IInv

LEMMA CreationRefusedIInv == IInv /\ CreationRefused => IInv'
  BY ReturnIInv DEF IInv, TypeOK, CreationRefused, rancher

LEMMA FleetIInv ==
  IInv /\ (RemoveFleetNamespace \/ CheckFleetNamespace \/ MigrateFleet) => IInv'
  <1>1. ASSUME IInv, RemoveFleetNamespace PROVE IInv'
    <2>1. fleet' \in [old : {"absent", "present", "deleting"}, new : BOOLEAN]
      BY <1>1 DEF IInv, TypeOK, RemoveFleetNamespace
    <2>2. TypeOK'
      BY <1>1, <2>1 DEF IInv, TypeOK, RemoveFleetNamespace, Steps, rancher, caches
    <2>3. Lasting' /\ Seen' /\ AtFirst'
      BY <1>1 DEF IInv, Lasting, Seen, AtFirst, RemoveFleetNamespace, Deletions,
                  Deleting
    <2> QED
      BY <2>2, <2>3 DEF IInv
  <1>2. ASSUME IInv, CheckFleetNamespace PROVE IInv'
    <2>1. CASE OldFleetGone
      BY <1>2, <2>1, ProceedIInv DEF IInv, TypeOK, CheckFleetNamespace, Steps, rancher
    <2>2. CASE ~OldFleetGone
      BY <1>2, <2>2, ReturnIInv DEF IInv, TypeOK, CheckFleetNamespace, rancher
    <2> QED
      BY <2>1, <2>2
  <1>3. ASSUME IInv, MigrateFleet PROVE IInv'
    <2>1. cluster' \in Cluster
      BY <1>3 DEF IInv, TypeOK, MigrateFleet, Cluster
    <2> QED
      BY <1>3, <2>1, ReturnIInv DEF IInv, TypeOK, MigrateFleet, rancher
  <1> QED
    BY <1>1, <1>2, <1>3

\* The bound on the environment's steps is a natural number.
LEMMA EnvOps1 == ASSUME TypeOK, NEW op, Env(op) PROVE ops' \in 0..MaxOps
  BY ImportManifestAssumption DEF TypeOK, Env

LEMMA CallFailsIInv == IInv /\ CallFails => IInv'
  <1> SUFFICES ASSUME IInv, CallFails PROVE IInv'
    OBVIOUS
  <1>1. ops' \in 0..MaxOps
    BY EnvOps1 DEF IInv, CallFails
  <1> QED
    BY <1>1, ReturnIInv DEF IInv, TypeOK, CallFails, rancher

LEMMA RestartIInv == IInv /\ Restart => IInv'
  <1> SUFFICES ASSUME IInv, Restart PROVE IInv'
    OBVIOUS
  <1>1. ops' \in 0..MaxOps
    BY EnvOps1 DEF IInv, Restart
  <1>2. TypeOK'
    BY <1>1, FirstIsObject, ImportManifestAssumption
       DEF IInv, TypeOK, Restart, Return, rancher, downstream, Steps
  <1>3. Lasting' /\ Seen' /\ AtFirst'
    BY DEF Restart, Return, Lasting, Seen, AtFirst
  <1> QED
    BY <1>2, <1>3 DEF IInv

\* Steps that end no deletion, and leave the reconciler where it is.
LEMMA BystanderIInv ==
  ASSUME IInv, TypeOK', UNCHANGED local, Deletions \subseteq Deletions'
  PROVE  IInv'
  BY DEF IInv, Lasting, Seen, AtFirst, local

LEMMA RancherIInv ==
  IInv /\ (\/ DeliverSetting \/ DeliverToken \/ DeliverCluster \/ FillToken
           \/ FillSecret \/ AgentReports \/ FleetGone \/ FleetInstalled
           \/ FleetReturns \/ ChangeSettings)
    => IInv'
  <1> SUFFICES ASSUME IInv,
                      \/ DeliverSetting \/ DeliverToken \/ DeliverCluster
                      \/ FillToken \/ FillSecret \/ AgentReports \/ FleetGone
                      \/ FleetInstalled \/ FleetReturns \/ ChangeSettings
               PROVE  IInv'
    OBVIOUS
  <1> USE DEF IInv, TypeOK, rancher, caches, downstream, local
  <1>1. UNCHANGED <<local, objects, job>>
    BY DEF DeliverSetting, DeliverToken, DeliverCluster, FillToken, FillSecret,
       AgentReports, FleetGone, FleetInstalled, FleetReturns, ChangeSettings
  <1>2. Deletions' = Deletions
    BY <1>1 DEF Deletions, Deleting
  <1>3. TypeOK'
    <2>1. CASE DeliverSetting \/ DeliverToken \/ DeliverCluster
      <3>1. CASE DeliverSetting
        <4>1. settings \in [mode : Modes, cacerts : BOOLEAN]
          BY ImportManifestAssumption
        <4>2. QED
          BY <3>1, <4>1 DEF DeliverSetting
      <3>2. QED
        BY <2>1, <3>1 DEF DeliverToken, DeliverCluster
    <2>2. CASE FillToken \/ FillSecret
      BY <2>2 DEF FillToken, FillSecret, Tokens
    <2>3. CASE AgentReports
      BY <2>3 DEF AgentReports, Cluster, AgentComplete
    <2>4. CASE FleetGone \/ FleetInstalled
      BY <2>4 DEF FleetGone, FleetInstalled
    <2>5. CASE FleetReturns
      BY <2>5, EnvOps1 DEF FleetReturns
    <2>6. CASE ChangeSettings
      BY <2>6, EnvOps1 DEF ChangeSettings
    <2> QED
      BY <2>1, <2>2, <2>3, <2>4, <2>5, <2>6
  <1> QED
    BY <1>1, <1>2, <1>3, BystanderIInv

LEMMA BeginDeletionIInv ==
  IInv /\ (StartCleanup \/ \E d \in Objects : DeleteObject(d) \/ UserDeletesObject(d))
    => IInv'
  <1>1. ASSUME IInv, StartCleanup PROVE IInv'
    <2>1. TypeOK'
      BY <1>1, EnvOps1 DEF IInv, TypeOK, StartCleanup, rancher, caches, local
    <2>2. Deletions \subseteq Deletions'
      BY <1>1 DEF StartCleanup, Deletions, Deleting
    <2> QED
      BY <1>1, <2>1, <2>2, BystanderIInv DEF StartCleanup
  <1>2. ASSUME IInv, NEW d \in Objects, DeleteObject(d) \/ UserDeletesObject(d)
        PROVE  IInv'
    <2>1. objects' = [objects EXCEPT ![d] = "deleting"]
          /\ UNCHANGED <<local, job>>
      BY <1>2 DEF DeleteObject, UserDeletesObject
    <2>2. ops' \in 0..MaxOps
      BY <1>2, EnvOps1 DEF IInv, TypeOK, DeleteObject, UserDeletesObject
    <2>3. TypeOK'
      BY <1>2, <2>1, <2>2
         DEF IInv, TypeOK, DeleteObject, UserDeletesObject, rancher, caches, local
    <2>4. Deletions \subseteq Deletions'
      BY <1>2, <2>1 DEF IInv, TypeOK, Deletions, Deleting
    <2> QED
      BY <1>2, <2>1, <2>3, <2>4, BystanderIInv
  <1> QED
    BY <1>1, <1>2

\* The end of a deletion takes it from the history as well.
LEMMA EndDeletionIInv ==
  IInv /\ (FinishCleanup \/ \E d \in Objects : ObjectGone(d)) => IInv'
  <1>1. ASSUME IInv, FinishCleanup PROVE IInv'
    <2>1. TypeOK'
      BY <1>1 DEF IInv, TypeOK, FinishCleanup, rancher, caches
    <2>2. Lasting' /\ Seen' /\ AtFirst'
      BY <1>1 DEF IInv, Lasting, Seen, AtFirst, FinishCleanup, Deletions, Deleting
    <2> QED
      BY <2>1, <2>2 DEF IInv
  <1>2. ASSUME IInv, NEW d \in Objects, ObjectGone(d) PROVE IInv'
    <2>1. TypeOK'
      BY <1>2 DEF IInv, TypeOK, ObjectGone, rancher, caches
    <2>2. Lasting'
      BY <1>2, JobIsNoObject
         DEF IInv, TypeOK, Lasting, ObjectGone, Deletions, Deleting
    <2>3. Seen' /\ AtFirst'
      BY <1>2 DEF IInv, Seen, AtFirst, ObjectGone
    <2> QED
      BY <2>1, <2>2, <2>3 DEF IInv
  <1> QED
    BY <1>1, <1>2

LEMMA NextIInv == IInv /\ [Next]_vars => IInv'
  <1>1. ASSUME IInv, UNCHANGED vars PROVE IInv'
    BY <1>1 DEF IInv, TypeOK, Lasting, Seen, AtFirst, Deletions, Deleting, vars
  <1>2. ASSUME IInv, ReconcileNormal PROVE IInv'
    BY <1>2, StartIInv, GetTokenIInv, ResolveManifestURLIInv, DownloadManifestIInv,
       ListJobsIInv, CheckDeletionIInv, CreateObjectIInv, CreationRefusedIInv,
       FleetIInv
       DEF ReconcileNormal
  <1> QED
    BY <1>1, <1>2, CallFailsIInv, RestartIInv, RancherIInv, BeginDeletionIInv,
       EndDeletionIInv
       DEF Next

\* The inductive invariant.
LEMMA Inductive == Spec => []IInv
  BY InitIInv, NextIInv, PTL DEF Spec

-----------------------------------------------------------------------------
(***************************************************************************)
(* Theorems.                                                               *)
(***************************************************************************)

\* Every variable keeps its type, the place in the manifest included: the reader
\* never passes its end (createImportManifest, validateImportReadiness).
THEOREM TypeCorrect == Spec => []TypeOK
  <1>1. IInv => TypeOK
    BY DEF IInv
  <1> QED
    BY <1>1, Inductive, PTL

\* No object is created while a cleanup goes on that was there when the Reconcile
\* began, however long the manifest and whatever deletes (validateImportReadiness
\* before createImportManifest).
THEOREM CleanupIsRespected == Spec => CleanupRespected
  <1>1. IInv => (CreateObject /\ objects' # objects => underway = {})
    BY DEF IInv, Seen, CreateObject
  <1>2. IInv /\ [Next]_vars
          => [CreateObject /\ objects' # objects => underway = {}]_vars
    BY <1>1
  <1> QED
    BY <1>2, Inductive, PTL DEF Spec, CleanupRespected

-----------------------------------------------------------------------------
(***************************************************************************)
(* The Fleet migration.                                                    *)
(***************************************************************************)

\* The safety part of MigrationEarned.
MigrationEarnedSafely ==
  [][cluster'.migrated /\ ~cluster.migrated
       => fleet.new /\ fleet.old # "deleting"]_vars

\* Once its old namespace was seen gone only this reconciler could have it deleted.
OldSeenGone == pc = "newFleet" => fleet.old # "deleting"

LEMMA OldSeenGoneStep == IInv /\ OldSeenGone /\ [Next]_vars => OldSeenGone'
  <1> SUFFICES ASSUME IInv, OldSeenGone, [Next]_vars, pc' = "newFleet",
                      fleet'.old = "deleting"
               PROVE  FALSE
    BY DEF OldSeenGone
  <1> fleet.old \in {"absent", "present", "deleting"}
    BY DEF IInv, TypeOK
  <1>1. CASE ReconcileNormal
    <2>1. CASE CheckFleetNamespace
      BY <2>1 DEF CheckFleetNamespace, OldFleetGone, Return, downstream
    <2>2. CASE ~CheckFleetNamespace
      BY <1>1, <2>2 DEF ReconcileNormal, Start, GetToken, ResolveManifestURL,
         DownloadManifest, ListJobs, CheckDeletion, CreateObject, CreationRefused,
         RemoveFleetNamespace, MigrateFleet, NextDocument, Return
    <2>3. QED
      BY <2>1, <2>2
  <1>2. CASE CallFails \/ Restart
    BY <1>2 DEF CallFails, Restart, Return
  <1>3. CASE FleetGone \/ FleetInstalled \/ FleetReturns
    BY <1>3 DEF FleetGone, FleetInstalled, FleetReturns, OldSeenGone, IInv, TypeOK,
       local
  <1>4. CASE UNCHANGED <<pc, fleet>>
    BY <1>4 DEF OldSeenGone
  <1>5. QED
    BY <1>1, <1>2, <1>3, <1>4 DEF Next, DeliverSetting, DeliverToken, DeliverCluster,
       FillToken, FillSecret, AgentReports, StartCleanup, FinishCleanup, DeleteObject,
       UserDeletesObject, ObjectGone, ChangeSettings, local, downstream, vars

\* A cluster is annotated only while the new fleet namespace is there and the old
\* one, if an agent that was not told made it again, is not still being deleted
\* (removeFleetNamespace).
THEOREM MigrationSafety == Spec => MigrationEarnedSafely
  <1>1. Init => OldSeenGone
    BY DEF Init, OldSeenGone
  <1>2. ASSUME IInv, OldSeenGone, Next, cluster'.migrated, ~cluster.migrated
        PROVE  fleet.new /\ fleet.old # "deleting"
    <2>1. MigrateFleet
      BY <1>2 DEF Next, ReconcileNormal, Start, GetToken, ResolveManifestURL,
         DownloadManifest, ListJobs, CheckDeletion, CreateObject, CreationRefused,
         RemoveFleetNamespace, CheckFleetNamespace, CallFails, Restart,
         DeliverSetting, DeliverToken, DeliverCluster, FillToken, FillSecret,
         AgentReports, StartCleanup, FinishCleanup, DeleteObject,
         UserDeletesObject, ObjectGone, FleetGone, FleetInstalled, FleetReturns,
         ChangeSettings, IInv, TypeOK, Cluster
    <2>2. cluster'.migrated = (cluster.migrated \/ fleet.new)
      BY <1>2, <2>1 DEF MigrateFleet, IInv, TypeOK, Cluster
    <2>3. QED
      BY <1>2, <2>1, <2>2 DEF OldSeenGone, MigrateFleet
  <1>3. IInv /\ OldSeenGone /\ [Next]_vars
          => [cluster'.migrated /\ ~cluster.migrated
                => fleet.new /\ fleet.old # "deleting"]_vars
    BY <1>2
  <1>4. QED
    BY <1>1, <1>3, OldSeenGoneStep, Inductive, PTL DEF Spec, MigrationEarnedSafely
=============================================================================
