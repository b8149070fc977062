------------------------ MODULE CredentialTranslation ------------------------
(***************************************************************************)
(* The translation of one Rancher cloud credential into a CAPA identity:   *)
(* RancherCredentialReconciler (credentialtranslation_controller.go) with  *)
(* AWSTranslator (aws_translator.go).                                      *)
(*                                                                         *)
(* Secrets and unstructured objects are read from the API server; only the *)
(* CAPIProvider comes from a cache.  The steps of one Reconcile are        *)
(* separated at its API calls.                                             *)
(***************************************************************************)
EXTENDS Integers

CONSTANTS
  EnvOps,    \* what users, the provider and faults may do
  MaxOps,    \* bound on the number of EnvOps steps in a behaviour
  Keys       \* non-empty key pairs a credential may hold

\* 0 stands for missing keys; key pairs are numbered from 1.
ASSUME CredentialTranslationAssumption ==
  MaxOps \in Nat /\ Keys \subseteq Nat \ {0} /\ Keys # {}

VARIABLES
  cred,           \* the Rancher credential in cattle-global-data
  notify,         \* its informer has a version the controller has not seen
  provider,       \* the infrastructure CAPIProvider aws in capa-system
  providerCache,  \* the informer's copy of it
  secret,         \* the Secret of the credential's name in capa-system
  identity,       \* the AWSClusterStaticIdentity of that name
  queue,          \* the credential's request is in the workqueue
  pc,             \* the API call the reconciler makes next
  c,              \* the local variable credential
  ops             \* EnvOps steps so far

targets == <<secret, identity>>
vars == <<cred, notify, provider, providerCache, secret, identity, queue, pc,
          c, ops>>

\* driver: the driver annotation says aws; fin: the finalizer of the AWS
\* translator; ref: the CAPIIdentityRefAnnotation is set.
Credential == [ex : BOOLEAN, uid : Nat \ {0}, del : BOOLEAN, fin : BOOLEAN,
               driver : BOOLEAN, keys : Keys \cup {0}, ref : BOOLEAN]

\* owner: the UID in the ownership annotation, 0 when it is missing.  What is
\* owned was translated, and a translated secret holds a full pair of keys.
Absent == [ex |-> FALSE, owner |-> 0, keys |-> 0]
Foreign == [ex |-> TRUE, owner |-> 0, keys |-> 0]
SecretTarget == {Absent, Foreign}
                  \cup [ex : {TRUE}, owner : Nat \ {0}, keys : Keys]
IdentityTarget == {Absent, Foreign}
                    \cup [ex : {TRUE}, owner : Nat \ {0}, keys : {0}]

Fresh(u, k) == [ex |-> TRUE, uid |-> u, del |-> FALSE, fin |-> FALSE,
                driver |-> TRUE, keys |-> k, ref |-> FALSE]
NoCredential == [Fresh(1, 0) EXCEPT !.ex = FALSE]

Phases == {"absent", "notReady", "Ready"}

Steps == {"idle", "provider", "finalizer", "secret", "identity", "annotate",
          "getIdentity", "deleteIdentity", "getSecret", "deleteSecret",
          "dropFinalizer"}

TypeOK ==
  /\ cred \in Credential
  /\ notify \in BOOLEAN
  /\ provider \in Phases
  /\ providerCache \in Phases
  /\ secret \in SecretTarget
  /\ identity \in IdentityTarget
  /\ queue \in BOOLEAN
  /\ pc \in Steps
  /\ c \in Credential
  /\ ops \in 0..MaxOps

-----------------------------------------------------------------------------
Env(op) == op \in EnvOps /\ ops < MaxOps /\ ops' = ops + 1
Fails(ok) == \/ ~ok /\ UNCHANGED ops
             \/ Env("apiError")

PutCredential(o) == cred' = o /\ notify' = TRUE

Finish(requeue) == /\ pc' = "idle"
                   /\ c' = NoCredential
                   /\ queue' = (queue \/ requeue)

-----------------------------------------------------------------------------
(***************************************************************************)
(* Watches.  secretPredicate reads the driver annotation alone, and a      *)
(* version it would reject makes Reconcile return at once, so the events   *)
(* of a credential may be merged into the last one.                        *)
(***************************************************************************)
SecretPredicateNotDeleted(o) == o.driver /\ ~o.del
SecretPredicate(o) == o.driver

DeliverSecret ==
  /\ notify
  /\ notify' = FALSE
  /\ queue' = (queue \/ SecretPredicate(cred))
  /\ UNCHANGED <<cred, provider, providerCache, targets, pc, c, ops>>

\* capiProviderPredicate lets Create events through; enqueueAllMatchingSecrets
\* lists the credentials.
DeliverProvider ==
  /\ providerCache # provider
  /\ providerCache' = provider
  /\ queue' = (queue \/ (providerCache = "absent" /\ cred.ex /\ cred.driver))
  /\ UNCHANGED <<cred, notify, provider, targets, pc, c, ops>>

\* The cache replays every Secret each syncPeriod.
Resync ==
  /\ cred.ex /\ ~queue /\ SecretPredicate(cred)
  /\ queue' = TRUE
  /\ UNCHANGED <<cred, notify, provider, providerCache, targets, pc, c, ops>>

-----------------------------------------------------------------------------
(***************************************************************************)
(* RancherCredentialReconciler.Reconcile.                                  *)
(***************************************************************************)
\* The live Get.  A failed one keeps the request, which is a stuttering step.
Start ==
  /\ pc = "idle"
  /\ queue
  /\ queue' = FALSE
  /\ IF cred.ex /\ cred.driver THEN pc' = "provider" /\ c' = cred
                              ELSE UNCHANGED <<pc, c>>
  /\ UNCHANGED <<cred, notify, provider, providerCache, targets, ops>>

\* Translate does nothing for missing keys.
TranslateAnyKeys(o) == pc' = "secret" /\ c' = o /\ UNCHANGED queue
TranslateLast(o) == pc' = "annotate" /\ c' = o /\ UNCHANGED queue
Translate(o) == IF o.keys = 0 THEN Finish(FALSE)
                ELSE pc' = "secret" /\ c' = o /\ UNCHANGED queue

NeedsFinalizerNever(o) == FALSE
NeedsFinalizer(o) == ~o.fin

CleanupFromSecret == "getSecret"
CleanupFrom == "getIdentity"

\* Lines 148-174, and the first test of reconcileNormal and reconcileDelete.
CheckProvider ==
  /\ pc = "provider"
  /\ CASE providerCache = "absent"   -> Finish(FALSE)
       [] providerCache = "notReady" -> Finish(TRUE)
       [] providerCache = "Ready" ->
            IF c.del
            THEN IF c.fin THEN pc' = CleanupFrom /\ UNCHANGED <<c, queue>>
                          ELSE Finish(FALSE)
            ELSE IF NeedsFinalizer(c)
                 THEN pc' = "finalizer" /\ UNCHANGED <<c, queue>>
                 ELSE Translate(c)
  /\ UNCHANGED <<cred, notify, provider, providerCache, targets, ops>>

\* The merge patch names no version: it applies to whatever object has the name
\* by then, and its answer replaces the local copy.  The API server refuses a
\* new finalizer on an object that is being deleted.
AddFinalizer ==
  /\ pc = "finalizer"
  /\ LET ok == cred.ex /\ ~cred.del IN
     \/ /\ ok
        /\ PutCredential([cred EXCEPT !.fin = TRUE])
        /\ Translate(cred')
        /\ UNCHANGED ops
     \/ Fails(ok) /\ Finish(TRUE) /\ UNCHANGED <<cred, notify>>
  /\ UNCHANGED <<provider, providerCache, targets>>

\* verifySecretOwnership refuses an existing object of another owner.
MayWriteAny(t, o) == TRUE
MayWrite(t, o) == t.ex => t.owner = o.uid

TranslatedKeysOnce(t, o) == IF t.ex THEN t.keys ELSE o.keys
TranslatedKeys(t, o) == o.keys

\* CreateOrUpdate reads and then writes against that version: a success is as
\* good as one step at the time of the write.
CreateOrUpdateSecret ==
  /\ pc = "secret"
  /\ \/ /\ MayWrite(secret, c)
        /\ secret' = [ex |-> TRUE, owner |-> c.uid,
                      keys |-> TranslatedKeys(secret, c)]
        /\ pc' = "identity"
        /\ UNCHANGED <<c, queue, ops>>
     \/ Fails(MayWrite(secret, c)) /\ Finish(TRUE) /\ UNCHANGED secret
  /\ UNCHANGED <<cred, notify, provider, providerCache, identity>>

\* The identity's spec refers to the secret by name and holds no keys.
CreateOrUpdateIdentity ==
  /\ pc = "identity"
  /\ \/ /\ MayWrite(identity, c)
        /\ identity' = [ex |-> TRUE, owner |-> c.uid, keys |-> 0]
        /\ IF c.ref THEN Finish(FALSE)
                    ELSE pc' = "annotate" /\ UNCHANGED <<c, queue>>
        /\ UNCHANGED ops
     \/ Fails(MayWrite(identity, c)) /\ Finish(TRUE) /\ UNCHANGED identity
  /\ UNCHANGED <<cred, notify, provider, providerCache, secret>>

Annotate ==
  /\ pc = "annotate"
  /\ \/ /\ cred.ex
        /\ PutCredential([cred EXCEPT !.ref = TRUE])
        /\ Finish(FALSE)
        /\ UNCHANGED ops
     \/ Fails(cred.ex) /\ Finish(TRUE) /\ UNCHANGED <<cred, notify>>
  /\ UNCHANGED <<provider, providerCache, targets>>

-----------------------------------------------------------------------------
(***************************************************************************)
(* reconcileDelete and AWSTranslator.Cleanup: identity first, then secret. *)
(***************************************************************************)
OwnedBy(t, o) == t.ex /\ t.owner = o.uid

GetIdentity ==
  /\ pc = "getIdentity"
  /\ \/ /\ pc' = IF OwnedBy(identity, c) THEN "deleteIdentity" ELSE "getSecret"
        /\ UNCHANGED <<c, queue, ops>>
     \/ Env("apiError") /\ Finish(TRUE)
  /\ UNCHANGED <<cred, notify, provider, providerCache, targets>>

\* Delete names neither UID nor version: it deletes what has the name by then.
DeleteIdentity ==
  /\ pc = "deleteIdentity"
  /\ \/ identity' = Absent /\ pc' = "getSecret" /\ UNCHANGED <<c, queue, ops>>
     \/ Env("apiError") /\ Finish(TRUE) /\ UNCHANGED identity
  /\ UNCHANGED <<cred, notify, provider, providerCache, secret>>

GetSecret ==
  /\ pc = "getSecret"
  /\ \/ /\ pc' = IF OwnedBy(secret, c) THEN "deleteSecret" ELSE "dropFinalizer"
        /\ UNCHANGED <<c, queue, ops>>
     \/ Env("apiError") /\ Finish(TRUE)
  /\ UNCHANGED <<cred, notify, provider, providerCache, targets>>

DeleteSecret ==
  /\ pc = "deleteSecret"
  /\ \/ secret' = Absent /\ pc' = "dropFinalizer" /\ UNCHANGED <<c, queue, ops>>
     \/ Env("apiError") /\ Finish(TRUE) /\ UNCHANGED secret
  /\ UNCHANGED <<cred, notify, provider, providerCache, identity>>

DropFinalizer ==
  /\ pc = "dropFinalizer"
  /\ \/ /\ cred.ex
        /\ PutCredential([cred EXCEPT !.fin = FALSE])
        /\ Finish(FALSE)
        /\ UNCHANGED ops
     \/ Fails(cred.ex) /\ Finish(TRUE) /\ UNCHANGED <<cred, notify>>
  /\ UNCHANGED <<provider, providerCache, targets>>

CredentialStep ==
  \/ Start \/ CheckProvider \/ AddFinalizer \/ CreateOrUpdateSecret
  \/ CreateOrUpdateIdentity \/ Annotate \/ GetIdentity \/ DeleteIdentity
  \/ GetSecret \/ DeleteSecret \/ DropFinalizer

-----------------------------------------------------------------------------
(***************************************************************************)
(* Users of Rancher and of the target names, the provider, the manager.    *)
(***************************************************************************)
EditCredential(op, o) ==
  /\ Env(op)
  /\ PutCredential(o)
  /\ UNCHANGED <<provider, providerCache, targets, queue, pc, c>>

DeleteCredential == /\ cred.ex /\ ~cred.del
                    /\ EditCredential("delete", [cred EXCEPT !.del = TRUE])
Rotate == /\ cred.ex
          /\ \E k \in (Keys \cup {0}) \ {cred.keys} :
               EditCredential("rotate", [cred EXCEPT !.keys = k])
ChangeDriver == /\ cred.ex
                /\ EditCredential("driver", [cred EXCEPT !.driver = ~@])
Recreate == /\ ~cred.ex
            /\ \E k \in Keys : EditCredential("recreate", Fresh(cred.uid + 1, k))

\* The last finalizer is gone, and so is the credential.
CredentialGone ==
  /\ cred.ex /\ cred.del /\ ~cred.fin
  /\ PutCredential([cred EXCEPT !.ex = FALSE])
  /\ UNCHANGED <<provider, providerCache, targets, queue, pc, c, ops>>

ProviderUninstalled ==
  /\ provider # "absent" /\ Env("uninstall") /\ provider' = "absent"
  /\ UNCHANGED <<cred, notify, providerCache, targets, queue, pc, c>>

ProviderInstalled ==
  /\ provider = "absent" /\ Env("install") /\ provider' = "notReady"
  /\ UNCHANGED <<cred, notify, providerCache, targets, queue, pc, c>>

ProviderDegraded ==
  /\ provider = "Ready" /\ Env("degrade") /\ provider' = "notReady"
  /\ UNCHANGED <<cred, notify, providerCache, targets, queue, pc, c>>

ProviderReady ==
  /\ provider = "notReady" /\ provider' = "Ready"
  /\ UNCHANGED <<cred, notify, providerCache, targets, queue, pc, c, ops>>

\* Someone takes one of the target names, or removes a target.
CreateForeign ==
  /\ Env("foreign")
  /\ \/ ~secret.ex /\ secret' = Foreign /\ UNCHANGED identity
     \/ ~identity.ex /\ identity' = Foreign /\ UNCHANGED secret
  /\ UNCHANGED <<cred, notify, provider, providerCache, queue, pc, c>>

RemoveTarget ==
  /\ Env("removeTarget")
  /\ \/ secret.ex /\ secret' = Absent /\ UNCHANGED identity
     \/ identity.ex /\ identity' = Absent /\ UNCHANGED secret
  /\ UNCHANGED <<cred, notify, provider, providerCache, queue, pc, c>>

Restart ==
  /\ Env("restart")
  /\ notify' = FALSE
  /\ providerCache' = provider
  /\ queue' = (cred.ex /\ SecretPredicate(cred))
  /\ pc' = "idle"
  /\ c' = NoCredential
  /\ UNCHANGED <<cred, provider, targets>>

-----------------------------------------------------------------------------
Init ==
  /\ \E k \in Keys \cup {0} : cred = Fresh(1, k)
  /\ notify = TRUE
  /\ provider \in Phases
  /\ providerCache = provider
  /\ secret \in {Absent, Foreign}
  /\ identity = Absent
  /\ queue = FALSE
  /\ pc = "idle"
  /\ c = NoCredential
  /\ ops = 0

Next ==
  \/ DeliverSecret \/ DeliverProvider \/ Resync
  \/ CredentialStep
  \/ DeleteCredential \/ Rotate \/ ChangeDriver \/ Recreate \/ CredentialGone
  \/ ProviderUninstalled \/ ProviderInstalled \/ ProviderDegraded \/ ProviderReady
  \/ CreateForeign \/ RemoveTarget \/ Restart

Spec == Init /\ [][Next]_vars

\* The worker, the watches and the resync period keep running, an installed
\* provider becomes Ready, and what nothing holds is collected.
Fairness ==
  /\ WF_vars(DeliverSecret) /\ WF_vars(DeliverProvider) /\ WF_vars(Resync)
  /\ WF_vars(CredentialStep)
  /\ WF_vars(ProviderReady)
  /\ WF_vars(CredentialGone)

FairSpec == Spec /\ Fairness

-----------------------------------------------------------------------------
(***************************************************************************)
(* Properties.                                                             *)
(***************************************************************************)

\* What was translated is owned by a credential that exists and still carries
\* the finalizer: nothing is left behind by deletion, recreation under the same
\* name, failed calls or restarts (reconcileNormal's finalizer comes first,
\* reconcileDelete's removal last).
Tracked(t) == t.ex /\ t.owner # 0 => cred.ex /\ cred.fin /\ t.owner = cred.uid
NoOrphans == Tracked(secret) /\ Tracked(identity)

\* The translation implements CredentialMirror, users leaving the targets
\* alone: secret before identity, identity away before secret, and the finalizer
\* around both (reconcileNormal, Translate, reconcileDelete, Cleanup).
Mirror == INSTANCE CredentialMirror WITH
  holder <- IF cred.ex THEN cred.uid ELSE 0,
  guarded <- cred.fin,
  mirror <- {n \in {"secret", "identity"} :
               IF n = "secret" THEN secret.owner # 0 ELSE identity.owner # 0}
ImplementsMirror == Mirror!Spec

\* No step of the reconciler changes or deletes an object of that name that
\* turtles does not own (verifySecretOwnership, isObjectOwnedBySecret).
ForeignKept ==
  [][CredentialStep => /\ secret = Foreign => secret' = Foreign
                       /\ identity = Foreign => identity' = Foreign]_vars

\* The identity annotation appears on a credential only once the identity and
\* the secret it promises are in place (reconcileNormal).
RefIsBacked ==
  [][cred.ex /\ ~cred.ref /\ cred'.ref =>
       /\ identity.ex /\ identity.owner = cred.uid
       /\ secret.ex /\ secret.owner = cred.uid]_vars

\* Keys that Rancher rotates reach CAPA: the translated secret is brought up to
\* date, however the rotation interleaves with a running Reconcile.
InSync ==
  cred.ex /\ ~cred.del /\ cred.driver /\ cred.keys # 0
    => \/ secret.ex /\ secret.owner = cred.uid /\ secret.keys = cred.keys
       \/ Foreign \in {secret, identity}
KeysFollow == <>[](provider # "absent") => []<>InSync

\* A deleted credential goes away if its provider stays installed.
DeletionCompletes ==
  <>[](provider # "absent") => (cred.ex /\ cred.del ~> ~cred.ex)
=============================================================================
