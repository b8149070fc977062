--------------------- MODULE CredentialTranslationProofs ---------------------
(***************************************************************************)
(* Proofs about CredentialTranslation, for every environment, bound and    *)
(* set of keys: nothing translated is orphaned; and, if nobody removes the *)
(* targets by hand, foreign objects are kept and the translation           *)
(* implements CredentialMirror.                                            *)
(***************************************************************************)
EXTENDS CredentialTranslation, TLAPS

Translating == {"secret", "identity", "annotate"}
Cleaning == {"getIdentity", "deleteIdentity", "getSecret", "deleteSecret",
             "dropFinalizer"}

\* A local copy that carries the finalizer pins the credential it was read
\* from; only such a copy is translated or cleaned up.
Pinned ==
  /\ pc \in {"idle", "finalizer"} => ~c.fin
  /\ c.fin => cred.ex /\ cred.fin /\ cred.uid = c.uid
  /\ pc \in Translating \cup Cleaning => c.fin
  /\ pc \in Translating => c.keys # 0

\* What cleanup has gone through is not there any more.
Cleaned ==
  /\ pc \in {"getSecret", "deleteSecret", "dropFinalizer"} => identity.owner = 0
  /\ pc = "dropFinalizer" => secret.owner = 0

IInv == TypeOK /\ Pinned /\ Cleaned /\ NoOrphans

-----------------------------------------------------------------------------
(***************************************************************************)
(* Type correctness.                                                       *)
(***************************************************************************)

LEMMA EmptyType == NoCredential \in Credential /\ ~NoCredential.fin
  <1> DEFINE f == Fresh(1, 0)
  <1>1. f \in Credential /\ ~f.fin
    BY DEF Fresh, Credential
  <1> HIDE DEF f
  <1>2. NoCredential = [f EXCEPT !.ex = FALSE]
    BY DEF NoCredential, f
  <1>3. QED
    BY <1>1, <1>2 DEF Credential

LEMMA EnvType ==
  ASSUME TypeOK, NEW op, Env(op) PROVE ops' \in 0..MaxOps
  BY CredentialTranslationAssumption DEF TypeOK, Env

LEMMA FailsType ==
  ASSUME TypeOK, NEW ok, Fails(ok) PROVE ops' \in 0..MaxOps
  BY EnvType DEF TypeOK, Fails

LEMMA FinishType ==
  ASSUME TypeOK, NEW b \in BOOLEAN, Finish(b)
  PROVE  pc' \in Steps /\ c' \in Credential /\ queue' \in BOOLEAN
  BY EmptyType DEF TypeOK, Finish, Steps

LEMMA TypeInit == Init => TypeOK
  <1> SUFFICES ASSUME Init PROVE TypeOK
    OBVIOUS
  <1>1. cred \in Credential
    BY DEF Init, Credential, Fresh
  <1>2. secret \in SecretTarget /\ identity \in IdentityTarget
    BY DEF Init, SecretTarget, IdentityTarget
  <1>3. c \in Credential
    BY EmptyType DEF Init
  <1>4. ops \in 0..MaxOps
    BY CredentialTranslationAssumption DEF Init
  <1>5. QED
    BY <1>1, <1>2, <1>3, <1>4 DEF Init, TypeOK, Phases, Steps

\* Watches, and the reads of Reconcile.
LEMMA ReadType ==
  ASSUME TypeOK,
         DeliverSecret \/ DeliverProvider \/ Resync \/ Start \/ CheckProvider
  PROVE  TypeOK'
  <1>1. CASE DeliverSecret \/ DeliverProvider \/ Resync
    BY <1>1 DEF DeliverSecret, DeliverProvider, Resync, TypeOK, targets,
                SecretPredicate, Credential
  <1>2. CASE Start
    BY <1>2 DEF Start, TypeOK, targets, Steps
  <1>3. CASE CheckProvider
    <2>1. pc' \in Steps /\ c' \in Credential /\ queue' \in BOOLEAN
      <3>1. CASE \/ Finish(TRUE) \/ Finish(FALSE)
        BY <3>1, FinishType
      <3>2. CASE pc' \in Steps /\ c' = c /\ queue' = queue
        BY <3>2 DEF TypeOK
      <3>3. QED
        BY <1>3, <3>1, <3>2
           DEF CheckProvider, Translate, Steps, CleanupFrom, TypeOK, Phases
    <2>2. QED
      BY <1>3, <2>1 DEF CheckProvider, TypeOK, targets
  <1>4. QED
    BY <1>1, <1>2, <1>3

\* The writes of Reconcile.
LEMMA WriteType ==
  ASSUME TypeOK, CredentialStep, ~Start, ~CheckProvider,
         pc \in Translating => c.keys # 0
  PROVE  TypeOK'
  <1>1. CASE AddFinalizer
    <2>1. cred' \in Credential /\ notify' \in BOOLEAN
      BY <1>1 DEF AddFinalizer, PutCredential, TypeOK, Credential
    <2>2. pc' \in Steps /\ c' \in Credential /\ queue' \in BOOLEAN
      <3>1. CASE \/ Finish(TRUE) \/ Finish(FALSE)
        BY <3>1, FinishType
      <3>2. CASE pc' = "secret" /\ c' = cred' /\ queue' = queue
        BY <2>1, <3>2 DEF TypeOK, Steps
      <3>3. QED
        BY <1>1, <3>1, <3>2 DEF AddFinalizer, Translate
    <2>3. ops' \in 0..MaxOps
      BY <1>1, FailsType DEF AddFinalizer, TypeOK
    <2>4. QED
      BY <1>1, <2>1, <2>2, <2>3 DEF AddFinalizer, TypeOK, targets
  <1>2. CASE CreateOrUpdateSecret
    <2>1. secret' \in SecretTarget
      <3>1. CASE UNCHANGED secret
        BY <3>1 DEF TypeOK
      <3>2. CASE secret' = [ex |-> TRUE, owner |-> c.uid, keys |-> c.keys]
        <4>1. c.uid \in Nat \ {0} /\ c.keys \in Keys
          BY <1>2 DEF CreateOrUpdateSecret, TypeOK, Credential, Translating
        <4>2. QED
          BY <3>2, <4>1 DEF SecretTarget
      <3>3. QED
        BY <1>2, <3>1, <3>2 DEF CreateOrUpdateSecret, TranslatedKeys
    <2>2. pc' \in Steps /\ c' \in Credential /\ queue' \in BOOLEAN
      <3>1. CASE Finish(TRUE)
        BY <3>1, FinishType
      <3>2. CASE pc' = "identity" /\ UNCHANGED <<c, queue>>
        BY <3>2 DEF TypeOK, Steps
      <3>3. QED
        BY <1>2, <3>1, <3>2 DEF CreateOrUpdateSecret
    <2>3. ops' \in 0..MaxOps
      BY <1>2, FailsType DEF CreateOrUpdateSecret, TypeOK
    <2>4. QED
      BY <1>2, <2>1, <2>2, <2>3 DEF CreateOrUpdateSecret, TypeOK
  <1>3. CASE CreateOrUpdateIdentity
    <2>1. identity' \in IdentityTarget
      <3>1. CASE UNCHANGED identity
        BY <3>1 DEF TypeOK
      <3>2. CASE identity' = [ex |-> TRUE, owner |-> c.uid, keys |-> 0]
        <4>1. c.uid \in Nat \ {0}
          BY DEF TypeOK, Credential
        <4>2. QED
          BY <3>2, <4>1 DEF IdentityTarget
      <3>3. QED
        BY <1>3, <3>1, <3>2 DEF CreateOrUpdateIdentity
    <2>2. pc' \in Steps /\ c' \in Credential /\ queue' \in BOOLEAN
      <3>1. CASE \/ Finish(TRUE) \/ Finish(FALSE)
        BY <3>1, FinishType
      <3>2. CASE pc' = "annotate" /\ UNCHANGED <<c, queue>>
        BY <3>2 DEF TypeOK, Steps
      <3>3. QED
        BY <1>3, <3>1, <3>2 DEF CreateOrUpdateIdentity
    <2>3. ops' \in 0..MaxOps
      BY <1>3, FailsType DEF CreateOrUpdateIdentity, TypeOK
    <2>4. QED
      BY <1>3, <2>1, <2>2, <2>3 DEF CreateOrUpdateIdentity, TypeOK
  <1>4. CASE Annotate \/ DropFinalizer
    <2>1. cred' \in Credential /\ notify' \in BOOLEAN
      BY <1>4 DEF Annotate, DropFinalizer, PutCredential, TypeOK, Credential
    <2>2. pc' \in Steps /\ c' \in Credential /\ queue' \in BOOLEAN
      BY <1>4, FinishType DEF Annotate, DropFinalizer
    <2>3. ops' \in 0..MaxOps
      BY <1>4, FailsType DEF Annotate, DropFinalizer, TypeOK
    <2>4. QED
      BY <1>4, <2>1, <2>2, <2>3 DEF Annotate, DropFinalizer, TypeOK, targets
  <1>5. CASE GetIdentity \/ DeleteIdentity \/ GetSecret \/ DeleteSecret
    <2>1. secret' \in SecretTarget /\ identity' \in IdentityTarget
      BY <1>5 DEF GetIdentity, DeleteIdentity, GetSecret, DeleteSecret,
                  TypeOK, SecretTarget, IdentityTarget, targets
    <2>2. pc' \in Steps /\ c' \in Credential /\ queue' \in BOOLEAN
      <3>1. CASE Finish(TRUE)
        BY <3>1, FinishType
      <3>2. CASE pc' \in Steps /\ UNCHANGED <<c, queue>>
        BY <3>2 DEF TypeOK
      <3>3. QED
        BY <1>5, <3>1, <3>2
           DEF GetIdentity, DeleteIdentity, GetSecret, DeleteSecret, Steps
    <2>3. ops' \in 0..MaxOps
      BY <1>5, EnvType DEF GetIdentity, DeleteIdentity, GetSecret, DeleteSecret,
                           TypeOK
    <2>4. QED
      BY <1>5, <2>1, <2>2, <2>3
         DEF GetIdentity, DeleteIdentity, GetSecret, DeleteSecret, TypeOK
  <1>6. QED
    BY <1>1, <1>2, <1>3, <1>4, <1>5 DEF CredentialStep

EnvironmentStep ==
  \/ DeleteCredential \/ Rotate \/ ChangeDriver \/ Recreate \/ CredentialGone
  \/ ProviderUninstalled \/ ProviderInstalled \/ ProviderDegraded
  \/ ProviderReady \/ CreateForeign \/ RemoveTarget \/ Restart

LEMMA EnvironmentType ==
  ASSUME TypeOK, EnvironmentStep PROVE TypeOK'
  <1>1. ASSUME NEW op, NEW o \in Credential, EditCredential(op, o)
        PROVE  TypeOK'
    BY <1>1, EnvType DEF EditCredential, PutCredential, TypeOK, targets
  <1>2. CASE DeleteCredential \/ Rotate \/ ChangeDriver
    <2>1. PICK op, o : o \in Credential /\ EditCredential(op, o)
      BY <1>2 DEF DeleteCredential, Rotate, ChangeDriver, TypeOK, Credential
    <2>2. QED
      BY <2>1, <1>1
  <1>3. CASE Recreate
    <2>1. PICK k \in Keys : EditCredential("recreate", Fresh(cred.uid + 1, k))
      BY <1>3 DEF Recreate
    <2>2. cred.uid + 1 \in Nat \ {0}
      BY DEF TypeOK, Credential
    <2>3. Fresh(cred.uid + 1, k) \in Credential
      BY <2>2 DEF Fresh, Credential
    <2>4. QED
      BY <2>1, <2>3, <1>1
  <1>4. CASE CredentialGone
    BY <1>4 DEF CredentialGone, PutCredential, TypeOK, Credential, targets
  <1>5. CASE ProviderUninstalled \/ ProviderInstalled \/ ProviderDegraded
    BY <1>5, EnvType DEF ProviderUninstalled, ProviderInstalled,
                         ProviderDegraded, TypeOK, targets, Phases
  <1>6. CASE ProviderReady
    BY <1>6 DEF ProviderReady, TypeOK, targets, Phases
  <1>7. CASE CreateForeign \/ RemoveTarget
    <2>1. secret' \in SecretTarget /\ identity' \in IdentityTarget
      BY <1>7 DEF CreateForeign, RemoveTarget, TypeOK, SecretTarget,
                  IdentityTarget
    <2>2. ops' \in 0..MaxOps
      BY <1>7, EnvType DEF CreateForeign, RemoveTarget
    <2>3. QED
      BY <1>7, <2>1, <2>2 DEF CreateForeign, RemoveTarget, TypeOK
  <1>8. CASE Restart
    <2>1. ops' \in 0..MaxOps
      BY <1>8, EnvType DEF Restart
    <2>2. QED
      BY <1>8, <2>1, EmptyType DEF Restart, TypeOK, targets, Steps,
                                   SecretPredicate, Credential
  <1>9. QED
    BY <1>2, <1>3, <1>4, <1>5, <1>6, <1>7, <1>8 DEF EnvironmentStep

LEMMA TypeStep ==
  ASSUME TypeOK, Pinned, [Next]_vars PROVE TypeOK'
  <1>1. CASE UNCHANGED vars
    BY <1>1 DEF TypeOK, vars
  <1>2. CASE Next
    BY <1>2, ReadType, WriteType, EnvironmentType
       DEF Next, EnvironmentStep, CredentialStep, Pinned
  <1>3. QED
    BY <1>1, <1>2

-----------------------------------------------------------------------------
(***************************************************************************)
(* The inductive invariant.                                                *)
(***************************************************************************)

LEMMA IInvInit == Init => IInv
  <1> SUFFICES ASSUME Init PROVE IInv
    OBVIOUS
  <1>1. Pinned /\ Cleaned
    BY EmptyType DEF Init, Pinned, Cleaned, Translating, Cleaning
  <1>2. NoOrphans
    BY DEF Init, NoOrphans, Tracked, Absent, Foreign
  <1>3. QED
    BY <1>1, <1>2, TypeInit DEF IInv

LEMMA NoOwner ==
  ASSUME NEW t \in SecretTarget \cup IdentityTarget, ~t.ex PROVE t.owner = 0
  <1>1. CASE t \in {Absent, Foreign}
    BY <1>1 DEF Absent, Foreign
  <1>2. CASE t \in [ex : {TRUE}, owner : Nat \ {0}, keys : Keys]
               \cup [ex : {TRUE}, owner : Nat \ {0}, keys : {0}]
    BY <1>2
  <1>3. QED
    BY <1>1, <1>2 DEF SecretTarget, IdentityTarget

\* A step that ends the Reconcile and leaves credential and targets alone.
LEMMA FinishKeeps ==
  ASSUME IInv, NEW b, Finish(b), UNCHANGED <<cred, targets>>
  PROVE  Pinned' /\ Cleaned' /\ NoOrphans'
  BY EmptyType DEF IInv, Finish, Pinned, Cleaned, NoOrphans, Tracked,
                   Translating, Cleaning, targets

\* Someone else's write to the credential keeps its finalizer and its UID as
\* long as the finalizer is there.
CredentialKept == cred.ex /\ cred.fin
                    => cred'.ex /\ cred'.fin /\ cred'.uid = cred.uid

LEMMA OthersKeep ==
  ASSUME IInv, CredentialKept, UNCHANGED <<pc, c>>,
         UNCHANGED secret \/ secret'.owner = 0,
         UNCHANGED identity \/ identity'.owner = 0
  PROVE  Pinned' /\ Cleaned' /\ NoOrphans'
  BY DEF IInv, CredentialKept, Pinned, Cleaned, NoOrphans, Tracked

LEMMA EnvironmentKeeps ==
  ASSUME IInv, EnvironmentStep PROVE Pinned' /\ Cleaned' /\ NoOrphans'
  <1>1. ASSUME NEW op, NEW o, EditCredential(op, o),
               cred.ex /\ cred.fin => o.ex /\ o.fin /\ o.uid = cred.uid
        PROVE  Pinned' /\ Cleaned' /\ NoOrphans'
    BY <1>1, OthersKeep DEF EditCredential, PutCredential, targets,
                            CredentialKept
  <1>2. CASE DeleteCredential \/ Rotate \/ ChangeDriver
    <2>1. CASE DeleteCredential
      <3> DEFINE o == [cred EXCEPT !.del = TRUE]
      <3>1. o.ex = cred.ex /\ o.fin = cred.fin /\ o.uid = cred.uid
        BY DEF IInv, TypeOK, Credential
      <3>2. QED
        BY <2>1, <3>1, <1>1 DEF DeleteCredential
    <2>2. CASE Rotate
      <3>1. PICK k : EditCredential("rotate", [cred EXCEPT !.keys = k])
        BY <2>2 DEF Rotate
      <3> DEFINE o == [cred EXCEPT !.keys = k]
      <3>2. o.ex = cred.ex /\ o.fin = cred.fin /\ o.uid = cred.uid
        BY DEF IInv, TypeOK, Credential
      <3>3. QED
        BY <3>1, <3>2, <1>1
    <2>3. CASE ChangeDriver
      <3> DEFINE o == [cred EXCEPT !.driver = ~@]
      <3>1. o.ex = cred.ex /\ o.fin = cred.fin /\ o.uid = cred.uid
        BY DEF IInv, TypeOK, Credential
      <3>2. QED
        BY <2>3, <3>1, <1>1 DEF ChangeDriver
    <2>4. QED
      BY <1>2, <2>1, <2>2, <2>3
  <1>3. CASE Recreate
    BY <1>3, <1>1 DEF Recreate
  <1>4. CASE CredentialGone
    BY <1>4, OthersKeep DEF CredentialGone, PutCredential, CredentialKept,
                            targets
  <1>5. CASE ProviderUninstalled \/ ProviderInstalled \/ ProviderDegraded
               \/ ProviderReady
    BY <1>5, OthersKeep DEF ProviderUninstalled, ProviderInstalled,
         ProviderDegraded, ProviderReady, CredentialKept, targets
  <1>6. CASE CreateForeign \/ RemoveTarget
    BY <1>6, OthersKeep DEF CreateForeign, RemoveTarget, CredentialKept,
                            Foreign, Absent
  <1>7. CASE Restart
    BY <1>7, EmptyType DEF Restart, IInv, Pinned, Cleaned, NoOrphans, Tracked,
                           Translating, Cleaning, targets
  <1>8. QED
    BY <1>1, <1>2, <1>3, <1>4, <1>5, <1>6, <1>7 DEF EnvironmentStep

LEMMA ReadKeeps ==
  ASSUME IInv,
         DeliverSecret \/ DeliverProvider \/ Resync \/ Start \/ CheckProvider
  PROVE  Pinned' /\ Cleaned' /\ NoOrphans'
  <1>1. CASE DeliverSecret \/ DeliverProvider \/ Resync
    BY <1>1, OthersKeep DEF DeliverSecret, DeliverProvider, Resync, targets,
                            CredentialKept
  <1>2. CASE Start
    BY <1>2 DEF Start, IInv, Pinned, Cleaned, NoOrphans, Tracked, targets,
                Translating, Cleaning
  <1>3. CASE CheckProvider
    <2>1. CASE Finish(TRUE) \/ Finish(FALSE)
      BY <1>3, <2>1, FinishKeeps DEF CheckProvider
    <2>2. CASE pc' = CleanupFrom /\ c.fin /\ UNCHANGED c
      BY <1>3, <2>2 DEF CheckProvider, CleanupFrom, IInv, Pinned, Cleaned,
                        NoOrphans, Tracked, targets, Translating, Cleaning
    <2>3. CASE pc' = "finalizer" /\ ~c.fin /\ UNCHANGED c
      BY <1>3, <2>3 DEF CheckProvider, IInv, Pinned, Cleaned,
                        NoOrphans, Tracked, targets, Translating, Cleaning
    <2>4. CASE pc' = "secret" /\ c.fin /\ c.keys # 0 /\ c' = c
      BY <1>3, <2>4 DEF CheckProvider, IInv, Pinned, Cleaned,
                        NoOrphans, Tracked, targets, Translating, Cleaning
    <2>5. QED
      BY <1>3, <2>1, <2>2, <2>3, <2>4
         DEF CheckProvider, NeedsFinalizer, Translate, IInv, TypeOK, Phases
  <1>4. QED
    BY <1>1, <1>2, <1>3

LEMMA WriteKeeps ==
  ASSUME IInv, CredentialStep, ~Start, ~CheckProvider
  PROVE  Pinned' /\ Cleaned' /\ NoOrphans'
  <1>1. CASE \E b \in BOOLEAN : Finish(b) /\ UNCHANGED <<cred, targets>>
    BY <1>1, FinishKeeps
  <1>2. CASE AddFinalizer /\ ~(Finish(TRUE) /\ UNCHANGED <<cred, targets>>)
    <2>1. /\ cred.ex /\ cred' = [cred EXCEPT !.fin = TRUE]
          /\ Translate(cred') /\ UNCHANGED targets
      BY <1>2 DEF AddFinalizer, PutCredential, targets
    <2>2. cred'.ex /\ cred'.fin /\ cred'.uid = cred.uid
      BY <2>1 DEF IInv, TypeOK, Credential
    <2>3. NoOrphans'
      BY <2>1, <2>2 DEF IInv, NoOrphans, Tracked, targets
    <2>4. CASE Finish(FALSE)
      BY <2>1, <2>3, <2>4, EmptyType
         DEF Finish, IInv, Pinned, Cleaned, Translating, Cleaning, targets
    <2>5. CASE pc' = "secret" /\ c' = cred' /\ cred'.keys # 0
      BY <2>2, <2>3, <2>5 DEF Pinned, Cleaned, Translating, Cleaning
    <2>6. QED
      BY <2>1, <2>4, <2>5 DEF Translate
  <1>3. CASE CreateOrUpdateSecret /\ pc' = "identity"
    <2>1. /\ c.fin /\ c.keys # 0 /\ pc = "secret"
          /\ secret' = [ex |-> TRUE, owner |-> c.uid, keys |-> c.keys]
          /\ UNCHANGED <<c, cred, identity>>
      BY <1>3 DEF CreateOrUpdateSecret, Finish, IInv, Pinned, Translating,
                  TranslatedKeys
    <2>2. QED
      BY <1>3, <2>1 DEF IInv, Pinned, Cleaned, NoOrphans, Tracked, Translating,
                        Cleaning
  <1>4. CASE /\ CreateOrUpdateIdentity /\ ~(Finish(TRUE) /\ UNCHANGED identity)
             /\ identity' = [ex |-> TRUE, owner |-> c.uid, keys |-> 0]
    <2>1. c.fin /\ c.keys # 0 /\ UNCHANGED <<cred, secret>>
      BY <1>4 DEF CreateOrUpdateIdentity, IInv, Pinned, Translating
    <2>2. NoOrphans'
      BY <1>4, <2>1 DEF IInv, Pinned, NoOrphans, Tracked
    <2>3. CASE pc' = "annotate" /\ UNCHANGED c
      BY <2>1, <2>2, <2>3 DEF IInv, Pinned, Cleaned, Translating, Cleaning
    <2>4. CASE pc' = "idle" /\ c' = NoCredential
      BY <2>2, <2>4, EmptyType DEF Pinned, Cleaned, Translating, Cleaning
    <2>5. QED
      BY <1>4, <2>3, <2>4 DEF CreateOrUpdateIdentity, Finish
  <1>5. CASE Annotate /\ ~UNCHANGED cred
    <2>1. /\ cred' = [cred EXCEPT !.ref = TRUE] /\ UNCHANGED targets
          /\ pc' = "idle" /\ c' = NoCredential
      BY <1>5 DEF Annotate, PutCredential, Finish
    <2>2. cred'.ex = cred.ex /\ cred'.fin = cred.fin /\ cred'.uid = cred.uid
      BY <2>1 DEF IInv, TypeOK, Credential
    <2>3. QED
      BY <2>1, <2>2, EmptyType DEF IInv, Pinned, Cleaned, NoOrphans, Tracked,
                                   Translating, Cleaning, targets
  <1>6. CASE GetIdentity /\ pc' # "idle"
    <2>1. /\ c.fin /\ cred.uid = c.uid
          /\ UNCHANGED <<cred, c, secret, identity>>
      BY <1>6 DEF GetIdentity, Finish, targets, IInv, Pinned, Cleaning
    <2>2. ~identity.ex => identity.owner = 0
      BY NoOwner DEF IInv, TypeOK
    <2>3. \/ pc' = "deleteIdentity"
          \/ pc' = "getSecret" /\ ~(identity.ex /\ identity.owner = c.uid)
      BY <1>6 DEF GetIdentity, Finish, OwnedBy
    <2>4. pc' = "getSecret" => identity.owner = 0
      BY <2>1, <2>2, <2>3 DEF IInv, NoOrphans, Tracked
    <2>5. QED
      BY <1>6, <2>1, <2>3, <2>4
         DEF GetIdentity, IInv, Pinned, Cleaned, NoOrphans, Tracked, Translating,
             Cleaning
  <1>7. CASE DeleteIdentity /\ pc' # "idle"
    BY <1>7 DEF DeleteIdentity, Finish, Absent, IInv, Pinned, Cleaned,
                NoOrphans, Tracked, Translating, Cleaning
  <1>8. CASE GetSecret /\ pc' # "idle"
    <2>1. /\ c.fin /\ cred.uid = c.uid
          /\ UNCHANGED <<cred, c, secret, identity>>
      BY <1>8 DEF GetSecret, Finish, targets, IInv, Pinned, Cleaning
    <2>2. ~secret.ex => secret.owner = 0
      BY NoOwner DEF IInv, TypeOK
    <2>3. \/ pc' = "deleteSecret"
          \/ pc' = "dropFinalizer" /\ ~(secret.ex /\ secret.owner = c.uid)
      BY <1>8 DEF GetSecret, Finish, OwnedBy
    <2>4. pc' = "dropFinalizer" => secret.owner = 0
      BY <2>1, <2>2, <2>3 DEF IInv, NoOrphans, Tracked
    <2>5. QED
      BY <1>8, <2>1, <2>3, <2>4
         DEF GetSecret, IInv, Pinned, Cleaned, NoOrphans, Tracked, Translating,
             Cleaning
  <1>9. CASE DeleteSecret /\ pc' # "idle"
    BY <1>9 DEF DeleteSecret, Finish, Absent, IInv, Pinned, Cleaned,
                NoOrphans, Tracked, Translating, Cleaning
  <1>10. CASE DropFinalizer /\ ~UNCHANGED cred
    <2>1. /\ UNCHANGED targets /\ pc' = "idle" /\ c' = NoCredential
          /\ secret.owner = 0 /\ identity.owner = 0
      BY <1>10 DEF DropFinalizer, Finish, IInv, Cleaned
    <2>2. QED
      BY <2>1, EmptyType DEF Pinned, Cleaned, NoOrphans, Tracked, Translating,
                             Cleaning, targets
  <1>11. CASE AddFinalizer
    BY <1>11, <1>1, <1>2 DEF AddFinalizer, PutCredential, targets
  <1>12. CASE CreateOrUpdateSecret
    BY <1>12, <1>1, <1>3 DEF CreateOrUpdateSecret, targets
  <1>13. CASE CreateOrUpdateIdentity
    BY <1>13, <1>1, <1>4 DEF CreateOrUpdateIdentity, targets
  <1>14. CASE Annotate
    <2>1. CASE UNCHANGED cred
      BY <1>14, <1>1, <2>1 DEF Annotate, targets
    <2>2. QED
      BY <1>14, <1>5, <2>1
  <1>15. CASE GetIdentity \/ DeleteIdentity \/ GetSecret \/ DeleteSecret
    BY <1>15, <1>1, <1>6, <1>7, <1>8, <1>9
       DEF GetIdentity, DeleteIdentity, GetSecret, DeleteSecret, targets
  <1>16. CASE DropFinalizer
    <2>1. CASE UNCHANGED cred
      BY <1>16, <1>1, <2>1 DEF DropFinalizer, targets
    <2>2. QED
      BY <1>16, <1>10, <2>1
  <1>17. QED
    BY <1>11, <1>12, <1>13, <1>14, <1>15, <1>16 DEF CredentialStep

LEMMA IInvStep == IInv /\ [Next]_vars => IInv'
  <1> SUFFICES ASSUME IInv, [Next]_vars PROVE IInv'
    OBVIOUS
  <1>1. TypeOK'
    BY TypeStep DEF IInv
  <1>2. Pinned' /\ Cleaned' /\ NoOrphans'
    <2>1. CASE UNCHANGED vars
      BY <2>1, OthersKeep DEF vars, CredentialKept
    <2>2. CASE Next
      BY <2>2, ReadKeeps, WriteKeeps, EnvironmentKeeps
         DEF Next, EnvironmentStep, CredentialStep
    <2>3. QED
      BY <2>1, <2>2
  <1>3. QED
    BY <1>1, <1>2 DEF IInv

\* Every variable keeps its type: in particular, a translated secret always
\* holds a full pair of keys (Translate).
THEOREM TypeCorrect == Spec => []TypeOK
  BY IInvInit, IInvStep, PTL DEF Spec, IInv

\* For every environment: what turtles translated belongs to a credential that
\* exists and carries the finalizer (reconcileNormal, reconcileDelete).
THEOREM NothingOrphaned == Spec => []NoOrphans
  BY IInvInit, IInvStep, PTL DEF Spec, IInv

-----------------------------------------------------------------------------
(***************************************************************************)
(* When nobody removes the targets by hand.                                *)
(***************************************************************************)
Undisturbed == "removeTarget" \notin EnvOps

\* A translated identity has its secret, and what the reconciler is about to
\* rely on or to delete is still what it saw.
Backed ==
  /\ identity.owner # 0 => secret.owner # 0
  /\ pc \in {"identity", "annotate"} => secret.ex /\ secret.owner = c.uid
  /\ pc = "annotate" => identity.ex /\ identity.owner = c.uid
  /\ pc = "deleteIdentity" => identity.owner # 0
  /\ pc = "deleteSecret" => secret.owner # 0

LEMMA BackedInit == Init => Backed
  BY DEF Init, Backed, Absent, Foreign

\* A credential's UID is never 0.
LEMMA UidPositive == ASSUME IInv PROVE c.uid # 0 /\ cred.uid # 0
  BY DEF IInv, TypeOK, Credential

\* An object that exists without being owned is the foreign one.
LEMMA ForeignHasNoOwner == Foreign.owner = 0 /\ Absent.owner = 0
  BY DEF Foreign, Absent

LEMMA ForeignMayNotBeWritten == ASSUME IInv PROVE ~MayWrite(Foreign, c)
  BY UidPositive DEF MayWrite, Foreign

LEMMA BackedStep ==
  ASSUME Undisturbed, IInv, Backed, [Next]_vars PROVE Backed'
  <1>1. CASE \/ UNCHANGED vars \/ DeliverSecret \/ DeliverProvider \/ Resync
             \/ Start \/ CredentialGone \/ Recreate \/ Rotate \/ ChangeDriver
             \/ DeleteCredential \/ ProviderUninstalled \/ ProviderInstalled
             \/ ProviderDegraded \/ ProviderReady \/ Restart
    <2>1. /\ UNCHANGED targets
          /\ UNCHANGED <<pc, c>> \/ pc' \in {"idle", "provider"}
      BY <1>1 DEF vars, DeliverSecret, DeliverProvider, Resync, Start, targets,
           CredentialGone, Recreate, Rotate, ChangeDriver, DeleteCredential,
           EditCredential, ProviderUninstalled, ProviderInstalled,
           ProviderDegraded, ProviderReady, Restart
    <2>2. QED
      BY <2>1 DEF Backed, targets
  <1>2. CASE CheckProvider \/ AddFinalizer
    <2>1. /\ UNCHANGED targets
          /\ pc' \in {"idle", "getIdentity", "finalizer", "secret"}
      BY <1>2 DEF CheckProvider, AddFinalizer, Finish, Translate, CleanupFrom,
                  IInv, TypeOK, Phases
    <2>2. QED
      BY <2>1 DEF Backed, targets
  <1>3. CASE CreateOrUpdateSecret
    BY <1>3, UidPositive DEF CreateOrUpdateSecret, Finish, Backed
  <1>4. CASE CreateOrUpdateIdentity
    BY <1>4, UidPositive DEF CreateOrUpdateIdentity, Finish, Backed
  <1>5. CASE Annotate \/ DropFinalizer
    BY <1>5 DEF Annotate, DropFinalizer, Finish, Backed, targets
  <1>6. CASE GetIdentity \/ GetSecret
    BY <1>6, UidPositive DEF GetIdentity, GetSecret, OwnedBy, Finish, Backed,
                             targets
  <1>7. CASE DeleteIdentity
    BY <1>7, ForeignHasNoOwner DEF DeleteIdentity, Finish, Backed
  <1>8. CASE DeleteSecret
    BY <1>8, ForeignHasNoOwner DEF DeleteSecret, Finish, Backed, IInv, Cleaned
  <1>9. CASE CreateForeign
    <2>1. ~secret.ex => secret.owner = 0
      BY NoOwner DEF IInv, TypeOK
    <2>2. ~identity.ex => identity.owner = 0
      BY NoOwner DEF IInv, TypeOK
    <2>3. QED
      BY <1>9, <2>1, <2>2, UidPositive, ForeignHasNoOwner
         DEF CreateForeign, Backed
  <1>10. ~RemoveTarget
    BY DEF RemoveTarget, Env, Undisturbed
  <1>11. QED
    BY <1>1, <1>2, <1>3, <1>4, <1>5, <1>6, <1>7, <1>8, <1>9, <1>10
       DEF Next, CredentialStep

\* Only a credential that exists carries the finalizer.
HolderExists == cred.fin => cred.ex

LEMMA HolderExistsInit == Init => HolderExists
  BY DEF Init, Fresh, HolderExists

LEMMA HolderExistsStep ==
  ASSUME IInv, HolderExists, [Next]_vars PROVE HolderExists'
  <1>1. cred \in Credential
    BY DEF IInv, TypeOK
  <1>2. CASE UNCHANGED cred
    BY <1>2 DEF HolderExists
  <1>3. CASE AddFinalizer \/ Annotate \/ DropFinalizer
    <2>1. \A b : /\ [cred EXCEPT !.fin = b].ex = cred.ex
                 /\ [cred EXCEPT !.ref = b].ex = cred.ex
      BY <1>1 DEF Credential
    <2>2. QED
      BY <1>3, <2>1 DEF AddFinalizer, Annotate, DropFinalizer, PutCredential,
                        HolderExists
  <1>4. CASE DeleteCredential \/ Rotate \/ ChangeDriver
    <2>1. \A b : /\ [cred EXCEPT !.del = b].ex = cred.ex
                 /\ [cred EXCEPT !.keys = b].ex = cred.ex
                 /\ [cred EXCEPT !.driver = b].ex = cred.ex
      BY <1>1 DEF Credential
    <2>2. QED
      BY <1>4, <2>1 DEF DeleteCredential, Rotate, ChangeDriver, EditCredential,
                        PutCredential, HolderExists
  <1>5. CASE Recreate
    BY <1>5 DEF Recreate, EditCredential, PutCredential, Fresh, HolderExists
  <1>6. CASE CredentialGone
    <2>1. \A b : [cred EXCEPT !.ex = b].fin = cred.fin
      BY <1>1 DEF Credential
    <2>2. QED
      BY <1>6, <2>1 DEF CredentialGone, PutCredential, HolderExists
  <1>7. QED
    BY <1>2, <1>3, <1>4, <1>5, <1>6
       DEF Next, CredentialStep, vars, DeliverSecret, DeliverProvider,
           Resync, Start, CheckProvider, CreateOrUpdateSecret,
           CreateOrUpdateIdentity, GetIdentity, DeleteIdentity, GetSecret,
           DeleteSecret, ProviderUninstalled, ProviderInstalled,
           ProviderDegraded, ProviderReady, CreateForeign, RemoveTarget, Restart

LEMMA BackedAlways ==
  ASSUME Undisturbed PROVE Spec => [](IInv /\ Backed /\ HolderExists)
  <1>1. IInv /\ Backed /\ HolderExists /\ [Next]_vars
          => IInv' /\ Backed' /\ HolderExists'
    BY IInvStep, BackedStep, HolderExistsStep
  <1>2. QED
    BY IInvInit, BackedInit, HolderExistsInit, <1>1, PTL DEF Spec

\* The reconciler neither changes nor deletes an object of the same name that
\* it does not own (verifySecretOwnership, isObjectOwnedBySecret).
THEOREM ForeignSafety == ASSUME Undisturbed PROVE Spec => ForeignKept
  <1>1. ASSUME IInv, Backed, CredentialStep
        PROVE  /\ secret = Foreign => secret' = Foreign
               /\ identity = Foreign => identity' = Foreign
    <2>1. CASE \/ Start \/ CheckProvider \/ AddFinalizer \/ Annotate
               \/ GetIdentity \/ GetSecret \/ DropFinalizer
      BY <2>1 DEF Start, CheckProvider, AddFinalizer, Annotate, GetIdentity,
                  GetSecret, DropFinalizer, targets
    <2>2. CASE CreateOrUpdateSecret
      <3>1. secret = Foreign => ~MayWrite(secret, c)
        BY <1>1, ForeignMayNotBeWritten
      <3>2. QED
        BY <2>2, <3>1 DEF CreateOrUpdateSecret
    <2>3. CASE CreateOrUpdateIdentity
      <3>1. identity = Foreign => ~MayWrite(identity, c)
        BY <1>1, ForeignMayNotBeWritten
      <3>2. QED
        BY <2>3, <3>1 DEF CreateOrUpdateIdentity
    <2>4. CASE DeleteIdentity \/ DeleteSecret
      BY <1>1, <2>4, ForeignHasNoOwner DEF DeleteIdentity, DeleteSecret, Backed
    <2>5. QED
      BY <1>1, <2>1, <2>2, <2>3, <2>4 DEF CredentialStep
  <1>2. IInv /\ Backed /\ [Next]_vars
          => [CredentialStep => /\ secret = Foreign => secret' = Foreign
                                /\ identity = Foreign => identity' = Foreign]_vars
    BY <1>1
  <1>3. QED
    BY BackedAlways, <1>2, PTL DEF Spec, ForeignKept

\* The annotation is written only when both objects are in place
\* (reconcileNormal annotates last).
THEOREM RefSafety == ASSUME Undisturbed PROVE Spec => RefIsBacked
  <1> DEFINE Safe == /\ identity.ex /\ identity.owner = cred.uid
                     /\ secret.ex /\ secret.owner = cred.uid
  <1>1. ASSUME IInv, Backed, [Next]_vars, cred.ex, ~cred.ref, cred'.ref
        PROVE  Safe
    <2>1. CASE Annotate
      BY <1>1, <2>1 DEF Annotate, IInv, Pinned, Translating, Backed
    <2>2. CASE AddFinalizer \/ DropFinalizer
      <3>1. cred \in Credential
        BY <1>1 DEF IInv, TypeOK
      <3>2. \A b : [cred EXCEPT !.fin = b].ref = cred.ref
        BY <3>1 DEF Credential
      <3>3. QED
        BY <1>1, <2>2, <3>2 DEF AddFinalizer, DropFinalizer, PutCredential
    <2>3. CASE DeleteCredential \/ Rotate \/ ChangeDriver \/ CredentialGone
      <3>1. cred \in Credential
        BY <1>1 DEF IInv, TypeOK
      <3>2. \A b : /\ [cred EXCEPT !.del = b].ref = cred.ref
                   /\ [cred EXCEPT !.keys = b].ref = cred.ref
                   /\ [cred EXCEPT !.driver = b].ref = cred.ref
                   /\ [cred EXCEPT !.ex = b].ref = cred.ref
        BY <3>1 DEF Credential
      <3>3. QED
        BY <1>1, <2>3, <3>2
           DEF DeleteCredential, Rotate, ChangeDriver, EditCredential,
               CredentialGone, PutCredential
    <2>4. CASE UNCHANGED cred
      BY <1>1, <2>4
    <2>5. QED
      BY <1>1, <2>1, <2>2, <2>3, <2>4
         DEF Next, CredentialStep, vars, DeliverSecret, DeliverProvider,
             Resync, Start, CheckProvider, CreateOrUpdateSecret,
             CreateOrUpdateIdentity, GetIdentity, DeleteIdentity, GetSecret,
             DeleteSecret, Recreate, ProviderUninstalled, ProviderInstalled,
             ProviderDegraded, ProviderReady, CreateForeign, RemoveTarget,
             Restart
  <1>2. IInv /\ Backed /\ [Next]_vars => [cred.ex /\ ~cred.ref /\ cred'.ref => Safe]_vars
    BY <1>1
  <1>3. QED
    BY BackedAlways, <1>2, PTL DEF Spec, RefIsBacked

-----------------------------------------------------------------------------
(***************************************************************************)
(* The translation implements CredentialMirror.                            *)
(***************************************************************************)
Holder == IF cred.ex THEN cred.uid ELSE 0
Mirrored == {n \in {"secret", "identity"} :
               IF n = "secret" THEN secret.owner # 0 ELSE identity.owner # 0}

\* Which stage of the mirror the two owners stand for.
LEMMA MirrorStages ==
  /\ secret.owner = 0 /\ identity.owner = 0 => Mirrored = {}
  /\ secret.owner # 0 /\ identity.owner = 0 => Mirrored = {"secret"}
  /\ secret.owner # 0 /\ identity.owner # 0 => Mirrored = {"secret", "identity"}
  BY DEF Mirrored

LEMMA Stages ==
  /\ Mirror!Stages[1] = {}
  /\ Mirror!Stages[2] = {"secret"}
  /\ Mirror!Stages[3] = {"secret", "identity"}
  BY DEF Mirror!Stages

\* A step that moves none of what the abstract specification sees.
LEMMA MirrorStutters ==
  ASSUME UNCHANGED <<cred.fin, Holder, secret.owner, identity.owner>>
  PROVE  UNCHANGED Mirror!vars
  <1>1. UNCHANGED Mirrored
    BY DEF Mirrored
  <1>2. QED
    BY <1>1 DEF Mirror!vars, Holder, Mirrored

LEMMA MirrorInit == Init => Mirror!Init
  <1> SUFFICES ASSUME Init PROVE Mirror!Init
    OBVIOUS
  <1>1. cred.ex /\ cred.uid = 1 /\ ~cred.fin /\ cred.fin \in BOOLEAN
    BY DEF Init, Fresh
  <1>2. Mirrored = {}
    BY MirrorStages DEF Init, Absent, Foreign
  <1>3. QED
    BY <1>1, <1>2 DEF Mirror!Init, Mirrored

\* The writes to the targets go from one stage of the mirror to the next.
LEMMA MirrorPublish ==
  ASSUME cred.fin, UNCHANGED <<cred.fin, Holder>>,
         \E i \in 1..2 : Mirrored = Mirror!Stages[i] /\ Mirrored' = Mirror!Stages[i + 1]
  PROVE  Mirror!Next
  BY DEF Mirror!Next, Mirror!Publish, Holder, Mirrored

LEMMA MirrorWithdraw ==
  ASSUME cred.fin, UNCHANGED <<cred.fin, Holder>>,
         \E i \in 1..2 : Mirrored = Mirror!Stages[i + 1] /\ Mirrored' = Mirror!Stages[i]
  PROVE  Mirror!Next
  BY DEF Mirror!Next, Mirror!Withdraw, Holder, Mirrored

LEMMA MirrorTargets ==
  ASSUME Undisturbed, IInv, Backed,
         \/ CreateOrUpdateSecret \/ CreateOrUpdateIdentity
         \/ DeleteIdentity \/ DeleteSecret
  PROVE  [Mirror!Next]_Mirror!vars
  <1>0. cred.fin /\ UNCHANGED <<cred.fin, Holder>>
    BY DEF CreateOrUpdateSecret, CreateOrUpdateIdentity, DeleteIdentity,
           DeleteSecret, IInv, Pinned, Translating, Cleaning, Holder
  <1>1. CASE UNCHANGED <<secret.owner, identity.owner>>
    BY <1>0, <1>1, MirrorStutters
  <1>2. CASE CreateOrUpdateSecret /\ secret'.owner # secret.owner
    <2>1. secret.owner = 0 /\ secret'.owner # 0 /\ UNCHANGED identity
      <3>1. secret' = [ex |-> TRUE, owner |-> c.uid, keys |-> c.keys]
              /\ MayWrite(secret, c) /\ UNCHANGED identity
        BY <1>2 DEF CreateOrUpdateSecret, TranslatedKeys
      <3>2. ~secret.ex => secret.owner = 0
        BY NoOwner DEF IInv, TypeOK
      <3>3. QED
        BY <1>2, <3>1, <3>2, UidPositive DEF MayWrite
    <2>2. identity.owner = 0 /\ identity'.owner = 0
      BY <2>1 DEF Backed
    <2>3. Mirrored = Mirror!Stages[1] /\ Mirrored' = Mirror!Stages[1 + 1]
      BY <2>1, <2>2, Stages DEF Mirrored
    <2>4. QED
      BY <1>0, <2>3, MirrorPublish
  <1>3. CASE CreateOrUpdateIdentity /\ identity'.owner # identity.owner
    <2>1. identity.owner = 0 /\ identity'.owner # 0 /\ UNCHANGED secret
      <3>1. identity' = [ex |-> TRUE, owner |-> c.uid, keys |-> 0]
              /\ MayWrite(identity, c) /\ UNCHANGED secret
        BY <1>3 DEF CreateOrUpdateIdentity
      <3>2. ~identity.ex => identity.owner = 0
        BY NoOwner DEF IInv, TypeOK
      <3>3. QED
        BY <1>3, <3>1, <3>2, UidPositive DEF MayWrite
    <2>2. secret.owner # 0 /\ secret'.owner # 0
      BY <1>3, <2>1, UidPositive DEF CreateOrUpdateIdentity, Backed
    <2>3. Mirrored = Mirror!Stages[2] /\ Mirrored' = Mirror!Stages[2 + 1]
      BY <2>1, <2>2, Stages DEF Mirrored
    <2>4. QED
      BY <1>0, <2>3, MirrorPublish
  <1>4. CASE DeleteIdentity /\ identity'.owner # identity.owner
    <2>1. /\ identity.owner # 0 /\ identity'.owner = 0 /\ UNCHANGED secret
          /\ secret.owner # 0
      BY <1>4, ForeignHasNoOwner DEF DeleteIdentity, Backed
    <2>2. Mirrored = Mirror!Stages[2 + 1] /\ Mirrored' = Mirror!Stages[2]
      BY <2>1, Stages DEF Mirrored
    <2>3. QED
      BY <1>0, <2>2, MirrorWithdraw
  <1>5. CASE DeleteSecret /\ secret'.owner # secret.owner
    <2>1. /\ secret.owner # 0 /\ secret'.owner = 0 /\ UNCHANGED identity
          /\ identity.owner = 0
      BY <1>5, ForeignHasNoOwner DEF DeleteSecret, Backed, IInv, Cleaned
    <2>2. Mirrored = Mirror!Stages[1 + 1] /\ Mirrored' = Mirror!Stages[1]
      BY <2>1, Stages DEF Mirrored
    <2>3. QED
      BY <1>0, <2>2, MirrorWithdraw
  <1>6. QED
    BY <1>1, <1>2, <1>3, <1>4, <1>5
       DEF CreateOrUpdateSecret, CreateOrUpdateIdentity, DeleteIdentity,
           DeleteSecret

\* The writes to the credential.
LEMMA MirrorCredential ==
  ASSUME IInv, HolderExists, UNCHANGED targets,
         \/ AddFinalizer \/ Annotate \/ DropFinalizer \/ DeleteCredential
         \/ Rotate \/ ChangeDriver \/ Recreate \/ CredentialGone
  PROVE  [Mirror!Next]_Mirror!vars
  <1>0. UNCHANGED Mirrored /\ cred \in Credential
    BY DEF Mirrored, targets, IInv, TypeOK
  <1>4. UNCHANGED <<secret.owner, identity.owner>>
    BY DEF targets
  <1>5. CASE UNCHANGED <<cred.fin, Holder>>
    BY <1>4, <1>5, MirrorStutters
  <1>6. CASE Annotate \/ DeleteCredential \/ Rotate \/ ChangeDriver
    <2>1. \/ UNCHANGED cred
          \/ \E b : \/ cred' = [cred EXCEPT !.ref = b]
                    \/ cred' = [cred EXCEPT !.del = b]
                    \/ cred' = [cred EXCEPT !.keys = b]
                    \/ cred' = [cred EXCEPT !.driver = b]
      BY <1>6 DEF Annotate, DeleteCredential, Rotate, ChangeDriver,
                  EditCredential, PutCredential
    <2>2. UNCHANGED <<cred.fin, cred.ex, cred.uid>>
      BY <1>0, <2>1 DEF Credential
    <2>3. QED
      BY <2>2, <1>5 DEF Holder
  <1>7. CASE AddFinalizer /\ cred'.fin # cred.fin
    <2>0. cred' = [cred EXCEPT !.fin = TRUE] /\ cred.ex
      BY <1>7 DEF AddFinalizer, PutCredential
    <2>1. cred'.ex = cred.ex /\ cred'.fin = TRUE /\ cred'.uid = cred.uid
      BY <1>0, <2>0 DEF Credential
    <2>2. cred.fin = FALSE /\ Holder # 0 /\ UNCHANGED Holder
      BY <1>0, <1>7, <2>0, <2>1, UidPositive DEF Holder, Credential
    <2>3. QED
      BY <1>0, <2>1, <2>2 DEF Mirror!Next, Mirror!Guard, Holder, Mirrored
  <1>8. CASE DropFinalizer /\ cred'.fin # cred.fin
    <2>0. cred' = [cred EXCEPT !.fin = FALSE] /\ cred.ex
      BY <1>8 DEF DropFinalizer, PutCredential
    <2>1. cred'.ex = cred.ex /\ cred'.fin = FALSE /\ cred'.uid = cred.uid
      BY <1>0, <2>0 DEF Credential
    <2>2. cred.fin = TRUE /\ UNCHANGED Holder
      BY <1>0, <1>8, <2>0, <2>1 DEF Holder, Credential
    <2>3. Mirrored = {}
      BY <1>8, MirrorStages DEF DropFinalizer, IInv, Cleaned
    <2>4. QED
      BY <1>0, <2>1, <2>2, <2>3
         DEF Mirror!Next, Mirror!Unguard, Holder, Mirrored
  <1>9. CASE CredentialGone
    <2>0. cred' = [cred EXCEPT !.ex = FALSE] /\ cred.ex /\ ~cred.fin
      BY <1>9 DEF CredentialGone, PutCredential
    <2>1. Holder # 0 /\ Holder' = 0 /\ ~cred.fin /\ UNCHANGED cred.fin
      BY <1>0, <2>0, UidPositive DEF Holder, Credential
    <2>2. QED
      BY <1>0, <2>1 DEF Mirror!Next, Mirror!Leave, Holder, Mirrored
  <1>10. CASE Recreate
    <2>1. PICK k \in Keys : cred' = Fresh(cred.uid + 1, k) /\ ~cred.ex
      BY <1>10 DEF Recreate, EditCredential, PutCredential
    <2>2. cred'.ex /\ cred'.uid = cred.uid + 1 /\ cred'.fin = FALSE
      BY <2>1 DEF Fresh
    <2>3. cred.uid + 1 \in Nat \ {0}
      BY <1>0 DEF Credential
    <2>4. Holder = 0 /\ Holder' \in Nat \ {0}
      BY <2>1, <2>2, <2>3 DEF Holder
    <2>5. ~cred.fin
      BY <2>1 DEF HolderExists
    <2>6. QED
      BY <1>0, <2>2, <2>4, <2>5 DEF Mirror!Next, Mirror!Arrive, Holder, Mirrored,
                                    Credential
  <1>11. CASE (AddFinalizer \/ DropFinalizer) /\ cred'.fin = cred.fin
    <2>1. UNCHANGED cred \/ \E b : cred' = [cred EXCEPT !.fin = b]
      BY <1>11 DEF AddFinalizer, DropFinalizer, PutCredential
    <2>2. UNCHANGED <<cred.ex, cred.uid>>
      BY <1>0, <2>1 DEF Credential
    <2>3. QED
      BY <1>5, <1>11, <2>2 DEF Holder
  <1>12. QED
    BY <1>6, <1>7, <1>8, <1>9, <1>10, <1>11

LEMMA MirrorStep ==
  ASSUME Undisturbed, IInv, Backed, HolderExists, [Next]_vars
  PROVE  [Mirror!Next]_Mirror!vars
  <1>1. CASE \/ CreateOrUpdateSecret \/ CreateOrUpdateIdentity
             \/ DeleteIdentity \/ DeleteSecret
    BY <1>1, MirrorTargets
  <1>2. CASE \/ AddFinalizer \/ Annotate \/ DropFinalizer \/ DeleteCredential
             \/ Rotate \/ ChangeDriver \/ Recreate \/ CredentialGone
    <2>1. UNCHANGED targets
      BY <1>2 DEF AddFinalizer, Annotate, DropFinalizer, DeleteCredential,
           Rotate, ChangeDriver, Recreate, CredentialGone, EditCredential
    <2>2. QED
      BY <1>2, <2>1, MirrorCredential
  <1>3. CASE CreateForeign
    <2>1. ~secret.ex => secret.owner = 0
      BY NoOwner DEF IInv, TypeOK
    <2>2. ~identity.ex => identity.owner = 0
      BY NoOwner DEF IInv, TypeOK
    <2>3. UNCHANGED <<cred.fin, Holder, secret.owner, identity.owner>>
      BY <1>3, <2>1, <2>2, ForeignHasNoOwner DEF CreateForeign, Holder
    <2>4. QED
      BY <2>3, MirrorStutters
  <1>4. ~RemoveTarget
    BY DEF RemoveTarget, Env, Undisturbed
  <1>5. CASE UNCHANGED <<cred, secret, identity>>
    <2>1. UNCHANGED <<cred.fin, Holder, secret.owner, identity.owner>>
      BY <1>5 DEF Holder
    <2>2. QED
      BY <2>1, MirrorStutters
  <1>6. QED
    BY <1>1, <1>2, <1>3, <1>4, <1>5
       DEF Next, CredentialStep, vars, targets, DeliverSecret, DeliverProvider,
           Resync, Start, CheckProvider, GetIdentity, GetSecret,
           ProviderUninstalled, ProviderInstalled, ProviderDegraded,
           ProviderReady, Restart

\* For every environment that leaves the targets alone: secret before identity,
\* identity away before secret, and the finalizer around both.
THEOREM MirrorImplemented == ASSUME Undisturbed PROVE Spec => ImplementsMirror
  <1>1. IInv /\ Backed /\ HolderExists /\ [Next]_vars => [Mirror!Next]_Mirror!vars
    BY MirrorStep
  <1>2. QED
    BY MirrorInit, BackedAlways, <1>1, PTL
       DEF Spec, ImplementsMirror, Mirror!Spec

=============================================================================
