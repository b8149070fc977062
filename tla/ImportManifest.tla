----------------------------- MODULE ImportManifest -----------------------------
(***************************************************************************)
(* How turtles brings Rancher's agent to a cluster that is imported: what  *)
(* reconcileNormal of CAPIImportReconciler does with a Rancher cluster     *)
(* that exists, and the helpers it calls (helpers.go).  ClusterImport has  *)
(* the same steps as one.                                                  *)
(*                                                                         *)
(* Rancher fills in the registration token and serves a manifest; the      *)
(* reconciler creates its objects one by one in the downstream cluster,    *)
(* where the objects of an earlier import may be left and a job of Rancher *)
(* may be deleting them.                                                   *)
(***************************************************************************)
EXTENDS Integers, FiniteSets

CONSTANTS
  Last,          \* the manifest has the objects 1..Last, in this order
  Namespace,     \* the one that is a namespace
  Inside,        \* those that live in it
  AgentTLSMode,  \* the feature gate
  DefaultMode,   \* the default of the setting agent-tls-mode
  InsecureSkipVerify,
  Settings,      \* what the settings agent-tls-mode and cacerts may be
  FleetDisabled, \* the CAPI Cluster opts out of the fleet migration
  EnvOps,        \* what users and faults may do
  MaxOps         \* bound on the number of EnvOps steps in a behaviour

Objects == 1..Last
Modes == {"", "strict", "system-store", "unknown"}

ASSUME ImportManifestAssumption ==
  /\ Last \in Nat \ {0}
  /\ Namespace \in Objects
  /\ Inside \subseteq {d \in Objects : d > Namespace}
  /\ AgentTLSMode \in BOOLEAN /\ InsecureSkipVerify \in BOOLEAN
  /\ FleetDisabled \in BOOLEAN
  /\ DefaultMode \in Modes
  /\ Settings \subseteq [mode : Modes, cacerts : BOOLEAN]
  /\ MaxOps \in Nat

VARIABLES
  settings,   \* agent-tls-mode and cacerts on the API server
  settingsCache, \* the informer's copies of them
  serving,    \* who signed Rancher's certificate
  token,      \* the ClusterRegistrationToken on the API server
  tokenCache, \* the informer's copy of it
  secret,     \* the Secret its status names, by what is in it
  cluster,    \* the Rancher cluster on the API server
  cached,     \* the informer's copy of it
  objects,    \* the manifest's objects in the downstream cluster
  job,        \* whether the cleanup job of an earlier import exists
  fleet,      \* the old and the new namespace of the fleet agent
  pc,         \* what the reconciler does next
  doc,        \* the object it is at
  caCert,     \* what it trusts
  underway,   \* history: the deletions that last since it began
  ops         \* EnvOps steps so far

rancher == <<settings, serving, token, secret>>
caches == <<settingsCache, tokenCache, cached>>
downstream == <<objects, job, fleet>>
local == <<pc, doc, caCert, underway>>
vars == <<settings, settingsCache, serving, token, tokenCache, secret, cluster,
          cached, objects, job, fleet, pc, doc, caCert, underway, ops>>

Job == 0

\* The token by the status Rancher gives it: no URL, a URL with a placeholder,
\* the name of the Secret as well, a URL without placeholder.
Tokens == {"missing", "created", "{token}", "named", "resolved"}

Cluster == [ready : BOOLEAN, migrated : BOOLEAN]
Steps == {"idle", "token", "resolve", "download", "jobs", "verify", "create",
          "removeFleet", "checkFleet", "newFleet"}

TypeOK ==
  /\ settings \in Settings
  /\ settingsCache \in [mode : Modes, cacerts : BOOLEAN]
  /\ serving \in {"public", "private"}
  /\ token \in Tokens /\ tokenCache \in Tokens
  /\ secret \in {"absent", "empty", "filled"}
  /\ cluster \in Cluster /\ cached \in Cluster
  /\ objects \in [Objects -> {"absent", "old", "new", "deleting"}]
  /\ job \in BOOLEAN
  /\ fleet \in [old : {"absent", "present", "deleting"}, new : BOOLEAN]
  /\ pc \in Steps
  /\ doc \in Objects
  /\ caCert \in {"system", "cacerts"}
  /\ underway \subseteq Objects \cup {Job}
  /\ ops \in 0..MaxOps

-----------------------------------------------------------------------------
Env(op) == op \in EnvOps /\ ops < MaxOps /\ ops' = ops + 1

Deleting == {d \in Objects : objects[d] = "deleting"}
Deletions == Deleting \cup (IF job THEN {Job} ELSE {})

\* Results and errors are alike here: events, requeues and the resync period
\* start the reconciler again.
Return == pc' = "idle" /\ doc' = 1 /\ caCert' = "system" /\ underway' = {}

-----------------------------------------------------------------------------
(***************************************************************************)
(* The reconciler.                                                         *)
(***************************************************************************)

\* getTrustedCAcert, for the settings s it reads.
Mode(s) == IF s.mode = "" THEN DefaultMode ELSE s.mode
TrustFails(s) ==
  /\ AgentTLSMode
  /\ \/ Mode(s) \in {"", "unknown"}
     \/ Mode(s) = "strict" /\ ~s.cacerts
Trusted(s) == IF AgentTLSMode /\ Mode(s) = "strict" THEN "cacerts" ELSE "system"

\* A cluster whose agent is ready is left alone once its fleet is migrated.  Both
\* settings come from the cache, where they arrive one by one.
Migrated == cached.migrated \/ FleetDisabled
Start ==
  /\ pc = "idle"
  /\ \/ /\ ~cached.ready /\ ~TrustFails(settingsCache)
        /\ pc' = "token"
        /\ caCert' = Trusted(settingsCache)
     \/ /\ cached.ready /\ ~Migrated
        /\ pc' = "removeFleet"
        /\ UNCHANGED caCert
  /\ underway' = Deletions
  /\ UNCHANGED <<rancher, caches, cluster, downstream, doc, ops>>

\* getClusterRegistrationManifest up to the URL.  The token has the cluster's
\* name: where the cache lags, the second Create fails.
GetToken ==
  /\ pc = "token"
  /\ IF tokenCache \in {"missing", "created"}
     THEN /\ token' = IF token = "missing" THEN "created" ELSE token
          /\ Return
     ELSE pc' = "resolve" /\ UNCHANGED <<token, doc, caCert, underway>>
  /\ UNCHANGED <<settings, serving, secret, caches, cluster, downstream, ops>>

\* resolveManifestURL.  The Secret is read live.
Resolvable ==
  \/ tokenCache = "resolved"
  \/ tokenCache = "named" /\ secret = "filled"
ResolveManifestURL ==
  /\ pc = "resolve"
  /\ IF Resolvable
     THEN pc' = "download" /\ UNCHANGED <<doc, caCert, underway>>
     ELSE Return
  /\ UNCHANGED <<rancher, caches, cluster, downstream, ops>>

\* downloadManifest.  The status of the response is not looked at: an error page
\* passes for a manifest, and fails to parse after the jobs were listed, before
\* anything is created.  It is a failure like any other.
Verified ==
  \/ InsecureSkipVerify
  \/ caCert = "system" /\ serving = "public"
  \/ caCert = "cacerts" /\ serving = "private"
Unreachable ==
  \/ TrustFails(settings)
  \/ ~InsecureSkipVerify /\ (Trusted(settings) = "system") # (serving = "public")
DownloadManifest ==
  /\ pc = "download"
  /\ IF Verified
     THEN pc' = "jobs" /\ UNCHANGED <<doc, caCert, underway>>
     ELSE Return
  /\ UNCHANGED <<rancher, caches, cluster, downstream, ops>>

\* validateImportReadiness: first the cleanup job, by its creator and its name.
ListJobs ==
  /\ pc = "jobs"
  /\ IF job THEN Return
            ELSE pc' = "verify" /\ UNCHANGED <<doc, caCert, underway>>
  /\ UNCHANGED <<rancher, caches, cluster, downstream, ops>>

\* The reader of the manifest, up to its end.
AtNext == doc + 1
AtEndLate == doc > Last
AtEnd == doc = Last
NextDocument(now, then) ==
  /\ pc' = IF AtEnd THEN then ELSE now
  /\ doc' = IF AtEnd THEN 1 ELSE AtNext
  /\ UNCHANGED <<caCert, underway>>

\* Then every object of the manifest (verifyRawManifest, checkDeletion).
NothingToWaitFor == FALSE
WaitForAnything == objects[doc] # "absent"
MustWait == objects[doc] = "deleting"
CheckDeletion ==
  /\ pc = "verify"
  /\ IF MustWait THEN Return ELSE NextDocument("verify", "create")
  /\ UNCHANGED <<rancher, caches, cluster, downstream, ops>>

\* createObject.  An object that exists stays as it is, one that is being deleted
\* included.  Nothing can be created in a namespace that is missing or going; for an
\* object that is still there the API server may answer that it exists, or that its
\* namespace is going.
Exists(d) == objects[d] # "absent"
Admitted(d) == d \in Inside => objects[Namespace] \in {"old", "new"}
CreateObject ==
  /\ pc = "create"
  /\ \/ /\ Exists(doc)
        /\ UNCHANGED objects
     \/ /\ ~Exists(doc) /\ Admitted(doc)
        /\ objects' = [objects EXCEPT ![doc] = "new"]
  /\ IF AtEnd THEN Return ELSE NextDocument("create", "idle")
  /\ UNCHANGED <<rancher, caches, cluster, job, fleet, ops>>
CreationRefused ==
  /\ pc = "create"
  /\ ~Admitted(doc)
  /\ Return
  /\ UNCHANGED <<rancher, caches, cluster, downstream, ops>>

\* removeFleetNamespace: a live Get and Delete, a second Get, a Get of the new
\* namespace, and the annotation, which the deferred patch writes.
RemoveFleetNamespace ==
  /\ pc = "removeFleet"
  /\ fleet' = [fleet EXCEPT !.old = IF @ = "absent" THEN @ ELSE "deleting"]
  /\ pc' = "checkFleet"
  /\ UNCHANGED <<rancher, caches, cluster, objects, job, doc, caCert,
                 underway, ops>>

OldFleetAsked == fleet.old # "present"
OldFleetGone == fleet.old = "absent"
CheckFleetNamespace ==
  /\ pc = "checkFleet"
  /\ IF OldFleetGone
     THEN pc' = "newFleet" /\ UNCHANGED <<doc, caCert, underway>>
     ELSE Return
  /\ UNCHANGED <<rancher, caches, cluster, downstream, ops>>

MigrateFleet ==
  /\ pc = "newFleet"
  /\ cluster' = [cluster EXCEPT !.migrated = @ \/ fleet.new]
  /\ Return
  /\ UNCHANGED <<rancher, caches, downstream, ops>>

\* Any call may fail, and so may the connection to the downstream cluster.
CallFails ==
  /\ pc # "idle"
  /\ Env("apiError")
  /\ Return
  /\ UNCHANGED <<rancher, caches, cluster, downstream>>

ReconcileNormal ==
  Start \/ GetToken \/ ResolveManifestURL \/ DownloadManifest \/ ListJobs
  \/ CheckDeletion \/ CreateObject \/ CreationRefused
  \/ RemoveFleetNamespace \/ CheckFleetNamespace \/ MigrateFleet

-----------------------------------------------------------------------------
(***************************************************************************)
(* Rancher, the agent, the cleanup job and users.                          *)
(***************************************************************************)
DeliverSetting ==
  /\ \/ /\ settingsCache.mode # settings.mode
        /\ settingsCache' = [settingsCache EXCEPT !.mode = settings.mode]
     \/ /\ settingsCache.cacerts # settings.cacerts
        /\ settingsCache' = [settingsCache EXCEPT !.cacerts = settings.cacerts]
  /\ UNCHANGED <<rancher, tokenCache, cluster, cached, downstream, local, ops>>

DeliverToken ==
  /\ tokenCache # token
  /\ tokenCache' = token
  /\ UNCHANGED <<rancher, settingsCache, cluster, cached, downstream, local, ops>>

DeliverCluster ==
  /\ cached # cluster
  /\ cached' = cluster
  /\ UNCHANGED <<rancher, settingsCache, tokenCache, cluster, downstream, local, ops>>

\* Rancher publishes the URL, with the token in it or with a placeholder for what
\* a Secret has; the Secret may come before or after its name.
FillToken ==
  /\ \/ token = "created" /\ token' \in {"{token}", "resolved"}
     \/ token = "{token}" /\ token' = "named"
  /\ UNCHANGED <<settings, serving, secret, caches, cluster, downstream, local, ops>>

FillSecret ==
  /\ token \in {"{token}", "named"}
  /\ \/ secret = "absent" /\ secret' \in {"empty", "filled"}
     \/ secret = "empty" /\ secret' = "filled"
  /\ UNCHANGED <<settings, serving, token, caches, cluster, downstream, local, ops>>

\* The agent runs with the objects of this import and no other.
AgentComplete == \A d \in Objects : objects[d] = "new"
AgentReports ==
  /\ cluster.ready # AgentComplete
  /\ cluster' = [cluster EXCEPT !.ready = AgentComplete]
  /\ UNCHANGED <<rancher, caches, downstream, local, ops>>

\* Rancher starts the job when the cluster of the earlier import is deleted.
StartCleanup ==
  /\ Env("cleanup")
  /\ ~job
  /\ job' = TRUE
  /\ UNCHANGED <<rancher, caches, cluster, objects, fleet, local>>

\* The job deletes what it finds; so does a namespace that goes.
DeleteObject(d) ==
  /\ job \/ (d \in Inside /\ objects[Namespace] = "deleting")
  /\ objects[d] \in {"old", "new"}
  /\ objects' = [objects EXCEPT ![d] = "deleting"]
  /\ UNCHANGED <<rancher, caches, cluster, job, fleet, local, ops>>

UserDeletesObject(d) ==
  /\ Env("deleteObject")
  /\ objects[d] \in {"old", "new"}
  /\ objects' = [objects EXCEPT ![d] = "deleting"]
  /\ UNCHANGED <<rancher, caches, cluster, job, fleet, local>>

ObjectGone(d) ==
  /\ objects[d] = "deleting"
  /\ d = Namespace => \A e \in Inside : objects[e] = "absent"
  /\ objects' = [objects EXCEPT ![d] = "absent"]
  /\ underway' = underway \ {d}
  /\ UNCHANGED <<rancher, caches, cluster, job, fleet, pc, doc, caCert, ops>>

\* It does not wait for the deletions it asked for.
FinishCleanup ==
  /\ job
  /\ \A d \in Objects : objects[d] # "old"
  /\ job' = FALSE
  /\ underway' = underway \ {Job}
  /\ UNCHANGED <<rancher, caches, cluster, objects, fleet, pc, doc, caCert, ops>>

FleetGone ==
  /\ fleet.old = "deleting"
  /\ fleet' = [fleet EXCEPT !.old = "absent"]
  /\ UNCHANGED <<rancher, caches, cluster, objects, job, local, ops>>

FleetInstalled ==
  /\ cluster.ready /\ ~fleet.new
  /\ fleet' = [fleet EXCEPT !.new = TRUE]
  /\ UNCHANGED <<rancher, caches, cluster, objects, job, local, ops>>

\* An agent that was not told yet makes its namespace again.
FleetReturns ==
  /\ Env("fleetReturns")
  /\ fleet.old = "absent"
  /\ fleet' = [fleet EXCEPT !.old = "present"]
  /\ UNCHANGED <<rancher, caches, cluster, objects, job, local>>

ChangeSettings ==
  /\ Env("settings")
  /\ settings' \in Settings \ {settings}
  /\ UNCHANGED <<serving, token, secret, caches, cluster, downstream, local>>

Restart ==
  /\ Env("restart")
  /\ settingsCache' = settings
  /\ tokenCache' = token
  /\ cached' = cluster
  /\ Return
  /\ UNCHANGED <<rancher, cluster, downstream>>

-----------------------------------------------------------------------------
\* The Rancher cluster exists; an adopted one has no annotation yet and runs the
\* old fleet agent.  The downstream cluster is new, or was imported before.
Init ==
  /\ settings \in Settings /\ settingsCache = settings
  /\ serving \in {"public", "private"}
  /\ ~Unreachable
  /\ token = "missing" /\ tokenCache = "missing" /\ secret = "absent"
  /\ \E adopted \in BOOLEAN :
       /\ cluster = [ready |-> FALSE, migrated |-> ~adopted]
       /\ fleet = [old |-> IF adopted THEN "present" ELSE "absent", new |-> FALSE]
  /\ cached = cluster
  /\ objects \in {[d \in Objects |-> s] : s \in {"absent", "old"}}
  /\ job = FALSE
  /\ pc = "idle" /\ doc = 1 /\ caCert = "system" /\ underway = {}
  /\ ops = 0

Next ==
  \/ ReconcileNormal \/ CallFails \/ Restart
  \/ DeliverSetting \/ DeliverToken \/ DeliverCluster
  \/ FillToken \/ FillSecret \/ AgentReports
  \/ StartCleanup \/ FinishCleanup
  \/ \E d \in Objects : DeleteObject(d) \/ UserDeletesObject(d) \/ ObjectGone(d)
  \/ FleetGone \/ FleetInstalled \/ FleetReturns
  \/ ChangeSettings

Spec == Init /\ [][Next]_vars

\* Workers and watches keep running, Rancher and the job do their part.
Fairness ==
  /\ WF_vars(ReconcileNormal)
  /\ WF_vars(DeliverSetting) /\ WF_vars(DeliverToken) /\ WF_vars(DeliverCluster)
  /\ WF_vars(FillToken) /\ WF_vars(FillSecret) /\ WF_vars(AgentReports)
  /\ WF_vars(FinishCleanup)
  /\ \A d \in Objects : WF_vars(DeleteObject(d)) /\ WF_vars(ObjectGone(d))
  /\ WF_vars(FleetGone) /\ WF_vars(FleetInstalled)

FairSpec == Spec /\ Fairness

-----------------------------------------------------------------------------
(***************************************************************************)
(* Properties.                                                             *)
(***************************************************************************)

\* Nothing is created while a cleanup goes on that was there when the Reconcile
\* began: neither while the job runs nor while any object of the manifest, in
\* whatever place, is being deleted (validateImportReadiness).  A cleanup that
\* begins behind its back may still take what is created.
CleanupRespected ==
  [][CreateObject /\ objects' # objects => underway = {}]_vars

\* The agent comes up: after stale tokens, missing secrets, failed calls and
\* cleanups that take half of what was created, the manifest is complete and
\* Rancher hears from the agent.  Exempt are objects of an earlier import that
\* nothing deletes, which the reconciler leaves in place (createObject), and
\* settings that do not fit the server (getTrustedCAcert, downloadManifest).
LeftBehind == ~job /\ \E d \in Objects : objects[d] = "old"
AgentComesUp == []<>(cluster.ready \/ LeftBehind \/ Unreachable)

\* A ready cluster that was imported by an earlier release ends up annotated, and
\* only once its old fleet namespace was seen gone and the new one is there.
MigrationEarned ==
  /\ [][cluster'.migrated /\ ~cluster.migrated
          => fleet.new /\ fleet.old # "deleting"]_vars
  /\ []<>(cluster.migrated \/ FleetDisabled \/ ~cluster.ready)
=============================================================================
