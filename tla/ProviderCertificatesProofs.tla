---------------------- MODULE ProviderCertificatesProofs ----------------------
(***************************************************************************)
(* Proofs about ProviderCertificates, for any manifests and any number of  *)
(* objects: the condition is saved only after the cleanup it reports.      *)
(***************************************************************************)
EXTENDS ProviderCertificates, WellFoundedInduction, TLAPS

\* Where the loop over todo is, nothing outside todo is left to clean; behind
\* it, nothing is.
InCertManager == {"listCertificates", "deleteCertificates", "deleteIssuers",
                  "updateResources"}
InWrangler == {"listServices", "updateServices"}

Phases ==
  /\ pc \in InCertManager => gate
  /\ pc \in InWrangler => ~gate
  /\ pc \in InCertManager \cup InWrangler \cup {"restart"} => c = base

CleanedSoFar ==
  /\ pc = "deleteCertificates" => certificates \subseteq todo
  /\ pc = "deleteIssuers" => certificates = {} /\ issuers \subseteq todo
  /\ pc = "updateResources" => certificates = {} /\ issuers = {}
                               /\ inject \subseteq todo
  /\ pc = "updateServices" => Annotated \subseteq todo

Cleaned == IF gate THEN CertManagerGone ELSE WranglerGone
Restarting == pc = "restart" => Cleaned /\ stale \subseteq todo

\* A condition that was changed locally and is not saved yet.
Earned ==
  c # base => /\ pc \in {"install", "patch"}
              /\ c = Outcome
              /\ Cleaned
              /\ stale = {}

IInv == TypeOK /\ Phases /\ CleanedSoFar /\ Restarting /\ Earned

-----------------------------------------------------------------------------
(***************************************************************************)
(* WranglerPatcher.                                                        *)
(***************************************************************************)

\* A set of webhooks that is not empty has a last one.
LEMMA LastExists ==
  ASSUME NEW ws, ws \subseteq Webhooks, ws # {}
  PROVE  Last(ws) \in ws
  <1> DEFINE FromEnd == {LastWebhook - w : w \in ws}
  <1>1. \A w \in ws : w \in Nat /\ LastWebhook - w \in Nat
    BY ProviderCertificatesAssumption DEF Webhooks
  <1>2. FromEnd \in SUBSET Nat /\ FromEnd # {}
    BY <1>1
  <1>3. PICK n \in FromEnd : \A k \in FromEnd : n <= k
    <2>1. PICK n \in FromEnd : \A k \in FromEnd : <<k, n>> \notin OpToRel(<, Nat)
      BY <1>2, NatLessThanWellFounded, WFMin
    <2> HIDE DEF FromEnd
    <2>2. \A k \in FromEnd : ~(k < n)
      BY <1>2, <2>1 DEF OpToRel
    <2> QED
      BY <1>2, <2>2
  <1>4. PICK w \in ws : n = LastWebhook - w
    BY <1>3
  <1>5. \A v \in ws : v <= w
    BY <1>1, <1>3, <1>4, ProviderCertificatesAssumption
  <1> HIDE DEF FromEnd
  <1> QED
    BY <1>5 DEF Last

\* A manifest that can be patched annotates a Service exactly if a webhook that
\* names a Certificate uses it, and with a Secret of such a Certificate.
LEMMA NeedACertServes ==
  ASSUME NEW m \in Manifest, ~PatchFails(m), NEW s \in Services
  PROVE  IF Serving(m, s) = {}
         THEN NeedACert(m)[s] = None
         ELSE \E w \in Serving(m, s) :
                /\ NeedACert(m)[s] = m.secretName[m.inject[w]]
                /\ NeedACert(m)[s] \in Secrets
  <1>1. CASE Serving(m, s) = {}
    BY <1>1 DEF NeedACert
  <1>2. CASE Serving(m, s) # {}
    <2> DEFINE w == Last(Serving(m, s))
    <2>1. w \in Serving(m, s)
      BY <1>2, LastExists DEF Serving
    <2>2. NeedACert(m)[s] = m.secretName[m.inject[w]]
      BY <1>2 DEF NeedACert
    <2>3. w \in Resources /\ m.inject[w] # None
      BY <2>1, ProviderCertificatesAssumption DEF Serving, Webhooks, Resources
    <2>4. m.inject[w] \in Contained(m)
      BY <2>3 DEF PatchFails, UnknownCertificate
    <2>5. m.secretName[m.inject[w]] \in Secrets
      BY <2>4 DEF Contained, PatchFails, UnnamedSecret, Manifest
    <2> HIDE DEF w
    <2> QED
      BY <1>2, <2>1, <2>2, <2>5
  <1> QED
    BY <1>1, <1>2

LEMMA NeedACertType ==
  ASSUME NEW m \in Manifest, ~PatchFails(m)
  PROVE  NeedACert(m) \in [Services -> Secrets \cup {None}]
  <1>1. \A s \in Services : NeedACert(m)[s] \in Secrets \cup {None}
    BY NeedACertServes
  <1> QED
    BY <1>1 DEF NeedACert

-----------------------------------------------------------------------------
(***************************************************************************)
(* Types.                                                                  *)
(***************************************************************************)
LEMMA InitType == Init => TypeOK
  <1> SUFFICES ASSUME Init
               PROVE  TypeOK
    OBVIOUS
  <1> DEFINE Old == Unpatched(manifest)
  <1>1. /\ Old.certificates \subseteq Certificates /\ Old.issuers = Issuers
        /\ Old.inject \subseteq Resources /\ Old.need = NoServices
    BY DEF Unpatched, Contained
  <1>2. NoServices \in [Services -> Secrets \cup {None}]
    BY DEF NoServices
  <1>3. /\ certificates \subseteq Certificates /\ issuers \subseteq Issuers
        /\ inject \subseteq Resources /\ need = NoServices
    <2> DEFINE New == [Old EXCEPT !.certificates = {}, !.issuers = {},
                                  !.inject = {}]
    <2>1. New.certificates = {} /\ New.issuers = {} /\ New.inject = {}
          /\ New.need = NoServices
      BY DEF Unpatched
    <2>2. \E o \in {Old, New} : /\ certificates = o.certificates
                               /\ issuers = o.issuers
                               /\ inject = o.inject
                               /\ need = o.need
      BY DEF Init
    <2> HIDE DEF Old, New
    <2> QED
      BY <1>1, <2>1, <2>2
  <1>4. manifest \in Manifest
    BY ProviderCertificatesAssumption DEF Init
  <1>5. /\ gate \in BOOLEAN /\ queued \in BOOLEAN /\ err \in BOOLEAN
        /\ cond = "Absent" /\ condCache = "Absent" /\ c = "Absent"
        /\ base = "Absent" /\ pc = "idle" /\ todo = {} /\ stale = {}
        /\ ops = 0
    BY DEF Init
  <1> HIDE DEF Old
  <1> QED
    BY <1>2, <1>3, <1>4, <1>5, ProviderCertificatesAssumption
       DEF TypeOK, Statuses, Steps

LEMMA EnvType ==
  ASSUME TypeOK, NEW op, Env(op)
  PROVE  ops' \in 0..MaxOps
  BY ProviderCertificatesAssumption DEF TypeOK, Env

\* A List keeps the types.
LEMMA ListType ==
  ASSUME TypeOK, NEW items \in SUBSET Items, NEW next \in Steps,
         List(items, next)
  PROVE  TypeOK'
  BY EnvType DEF TypeOK, List, Fails, Stop, Steps, objects

LEMMA NextType == TypeOK /\ [Next]_vars => TypeOK'
  <1> SUFFICES ASSUME TypeOK, [Next]_vars
               PROVE  TypeOK'
    OBVIOUS
  <1> USE DEF TypeOK
  <1>1. CASE DeliverProvider \/ Resync
    BY <1>1 DEF DeliverProvider, Resync, objects, local
  <1>2. CASE Start
    BY <1>2 DEF Start, objects, Steps
  <1>3. CASE ListCertificates \/ ListIssuers \/ ListResources
             \/ ListServices \/ ListDeployments
    <2>1. /\ certificates \in SUBSET Items /\ issuers \in SUBSET Items
          /\ inject \in SUBSET Items /\ Annotated \in SUBSET Items
          /\ Deployments \in SUBSET Items
      BY DEF Items, Annotated
    <2> QED
      BY <1>3, <2>1, ListType DEF ListCertificates, ListIssuers, ListResources,
         ListServices, ListDeployments, Steps
  <1>4. ASSUME NEW x \in Certificates, DeleteCertificate(x)
        PROVE  TypeOK'
    BY <1>4, EnvType DEF DeleteCertificate, Turn, Fails, Stop, Steps, objects
  <1>5. ASSUME NEW x \in Certificates, CertificateNotFound(x)
        PROVE  TypeOK'
    BY <1>5 DEF CertificateNotFound, Stop, Steps, objects
  <1>6. ASSUME NEW x \in Issuers, DeleteIssuer(x)
        PROVE  TypeOK'
    BY <1>6, EnvType DEF DeleteIssuer, Turn, Fails, Stop, Steps, objects
  <1>7. ASSUME NEW r \in Resources, UpdateResource(r)
        PROVE  TypeOK'
    BY <1>7, EnvType DEF UpdateResource, Turn, Fails, Stop, Steps, objects
  <1>8. ASSUME NEW s \in Services, UpdateService(s)
        PROVE  TypeOK'
    BY <1>8, EnvType DEF UpdateService, Turn, Fails, Stop, Steps, objects
  <1>9. ASSUME NEW d \in Deployments, RestartDeployment(d)
        PROVE  TypeOK'
    BY <1>9, EnvType DEF RestartDeployment, Turn, Fails, Stop, Steps, objects
  <1>10. CASE SetCondition
    BY <1>10 DEF SetCondition, Outcome, Statuses, Steps, objects
  <1>11. CASE Install
    <2>1. ASSUME gate, ~PatchFails(manifest), Apply(WranglerPatcher(manifest))
          PROVE  /\ certificates' \subseteq Certificates
                 /\ issuers' \subseteq Issuers
                 /\ inject' \subseteq Resources
                 /\ need' \in [Services -> Secrets \cup {None}]
                 /\ stale' \subseteq Deployments
      BY <2>1, NeedACertType DEF Apply, WranglerPatcher
    <2>2. ASSUME ~gate, Apply(Unpatched(manifest))
          PROVE  /\ certificates' \subseteq Certificates
                 /\ issuers' \subseteq Issuers
                 /\ inject' \subseteq Resources
                 /\ need' \in [Services -> Secrets \cup {None}]
                 /\ stale' \subseteq Deployments
      BY <2>2 DEF Apply, Unpatched, Contained, NoServices
    <2>3. /\ certificates' \subseteq Certificates
          /\ issuers' \subseteq Issuers
          /\ inject' \subseteq Resources
          /\ need' \in [Services -> Secrets \cup {None}]
          /\ stale' \subseteq Deployments
      BY <1>11, <2>1, <2>2 DEF Install, objects
    <2>4. pc' = "patch" /\ err' \in BOOLEAN /\ ops' \in 0..MaxOps
      BY <1>11, EnvType DEF Install, Fails, Stop
    <2> QED
      BY <1>11, <2>3, <2>4 DEF Install, Steps
  <1>12. CASE PatchStatus
    BY <1>12, EnvType DEF PatchStatus, Statuses, Steps, objects
  <1>13. CASE Upgrade
    BY <1>13, EnvType, ProviderCertificatesAssumption DEF Upgrade, objects, local
  <1>14. ASSUME NEW x \in Certificates, RemoveCertificate(x)
         PROVE  TypeOK'
    BY <1>14, EnvType DEF RemoveCertificate, local
  <1>15. CASE Restart
    BY <1>15, EnvType DEF Restart, Statuses, Steps, objects
  <1>16. CASE UNCHANGED vars
    BY <1>16 DEF vars
  <1> QED
    BY <1>1, <1>2, <1>3, <1>4, <1>5, <1>6, <1>7, <1>8, <1>9, <1>10, <1>11,
       <1>12, <1>13, <1>14, <1>15, <1>16 DEF Next, ReconcileStep

\* Every variable keeps its type: in particular no Service is annotated with
\* anything but a Secret, whatever the manifest (WranglerPatcher).
THEOREM TypeCorrect == Spec => []TypeOK
  BY InitType, NextType, PTL DEF Spec

-----------------------------------------------------------------------------
(***************************************************************************)
(* The condition.                                                          *)
(***************************************************************************)
Progress == Phases /\ CleanedSoFar /\ Restarting /\ Earned

\* At rest, and at the first call, there is nothing to show.
LEMMA AtRest ==
  ASSUME pc \in {"idle", "install", "patch"}, c = base
  PROVE  Progress
  BY DEF Progress, Phases, CleanedSoFar, Restarting, Earned, InCertManager,
     InWrangler

\* An error ends a cleanup before the condition changes.
LEMMA AfterStop ==
  ASSUME Progress, Stop, UNCHANGED <<c, base>>,
         pc \in InCertManager \cup InWrangler \cup {"restart"}
  PROVE  Progress'
  <1>1. c' = base' /\ pc' = "patch"
    BY DEF Progress, Phases, Stop
  <1> QED
    BY <1>1 DEF Progress, Phases, CleanedSoFar, Restarting, Earned,
       InCertManager, InWrangler

\* Steps that leave the reconciler alone can at most clean up more.
LEMMA Elsewhere ==
  ASSUME Progress,
         UNCHANGED <<gate, issuers, inject, need, stale, pc, c, base, todo>>,
         certificates' \subseteq certificates
  PROVE  Progress'
  BY DEF Progress, Phases, CleanedSoFar, Restarting, Earned, Cleaned,
     CertManagerGone, WranglerGone, Annotated, Outcome

LEMMA ListProgress ==
  ASSUME IInv, \/ ListCertificates \/ ListIssuers \/ ListResources
               \/ ListServices \/ ListDeployments
  PROVE  Progress'
  <1>1. Progress /\ pc \in InCertManager \cup InWrangler \cup {"restart"}
    BY DEF IInv, Progress, ListCertificates, ListIssuers, ListResources,
       ListServices, ListDeployments, InCertManager, InWrangler
  <1>2. CASE Stop
    BY <1>1, <1>2, AfterStop DEF ListCertificates, ListIssuers, ListResources,
       ListServices, ListDeployments, List
  <1> USE DEF IInv, TypeOK, List, Fails, objects, Progress, Phases, CleanedSoFar,
          Restarting, Earned, Cleaned, CertManagerGone, WranglerGone, Annotated,
          InCertManager, InWrangler
  <1>3. CASE ~Stop /\ ListCertificates
    BY <1>3 DEF ListCertificates
  <1>4. CASE ~Stop /\ ListIssuers
    BY <1>4 DEF ListIssuers
  <1>5. CASE ~Stop /\ ListResources
    BY <1>5 DEF ListResources
  <1>6. CASE ~Stop /\ ListServices
    BY <1>6 DEF ListServices
  <1>7. CASE ~Stop /\ ListDeployments
    <2>1. pc' = "restart" /\ todo' = Deployments /\ stale' \subseteq Deployments
      BY <1>7 DEF ListDeployments
    <2>2. CASE pc = "updateResources"
      BY <1>7, <2>1, <2>2 DEF ListDeployments
    <2>3. CASE pc = "updateServices"
      BY <1>7, <2>1, <2>3 DEF ListDeployments
    <2> QED
      BY <1>7, <2>2, <2>3 DEF ListDeployments
  <1> QED
    BY <1>2, <1>3, <1>4, <1>5, <1>6, <1>7

LEMMA TurnProgress ==
  ASSUME IInv,
         \/ \E x \in Certificates : DeleteCertificate(x) \/ CertificateNotFound(x)
         \/ \E x \in Issuers : DeleteIssuer(x)
         \/ \E r \in Resources : UpdateResource(r)
         \/ \E s \in Services : UpdateService(s)
         \/ \E d \in Deployments : RestartDeployment(d)
  PROVE  Progress'
  <1>1. Progress /\ pc \in InCertManager \cup InWrangler \cup {"restart"}
        /\ UNCHANGED <<gate, c, base>>
    BY DEF IInv, Progress, DeleteCertificate, CertificateNotFound, DeleteIssuer,
       UpdateResource, UpdateService, RestartDeployment, Turn, InCertManager,
       InWrangler
  <1>2. CASE Stop
    BY <1>1, <1>2, AfterStop
  <1> USE DEF IInv, TypeOK, Turn, Fails, Progress, Phases, CleanedSoFar,
          Restarting, Earned, InCertManager, InWrangler
  <1>3. ASSUME NEW x \in Certificates, ~Stop, DeleteCertificate(x)
        PROVE  Progress'
    BY <1>3 DEF DeleteCertificate
  <1>4. ASSUME NEW x \in Certificates, CertificateNotFound(x)
        PROVE  Stop
    BY <1>4 DEF CertificateNotFound
  <1>5. ASSUME NEW x \in Issuers, ~Stop, DeleteIssuer(x)
        PROVE  Progress'
    BY <1>5 DEF DeleteIssuer
  <1>6. ASSUME NEW r \in Resources, ~Stop, UpdateResource(r)
        PROVE  Progress'
    BY <1>6 DEF UpdateResource
  <1>7. ASSUME NEW s \in Services, ~Stop, UpdateService(s)
        PROVE  Progress'
    <2>1. Annotated' \subseteq todo'
      BY <1>7 DEF UpdateService, Annotated
    <2> QED
      BY <1>7, <2>1 DEF UpdateService
  <1>8. ASSUME NEW d \in Deployments, ~Stop, RestartDeployment(d)
        PROVE  Progress'
    <2>1. Cleaned'
      BY <1>8 DEF RestartDeployment, Cleaned, CertManagerGone, WranglerGone,
         Annotated
    <2> QED
      BY <1>8, <2>1 DEF RestartDeployment
  <1> QED
    BY <1>2, <1>3, <1>4, <1>5, <1>6, <1>7, <1>8

\* What an installation brings belongs to the same side as the cleanup before it.
LEMMA InstallProgress ==
  ASSUME IInv, Install
  PROVE  Progress'
  <1>1. pc' = "patch" /\ UNCHANGED <<gate, c, base>> /\ stale' = stale
    BY DEF Install, Fails, Stop, Apply, objects
  <1>2. Cleaned => Cleaned'
    <2>1. CASE UNCHANGED objects
      BY <1>1, <2>1 DEF objects, Cleaned, CertManagerGone, WranglerGone, Annotated
    <2>2. CASE gate /\ Apply(WranglerPatcher(manifest))
      BY <1>1, <2>2 DEF Apply, WranglerPatcher, Cleaned, CertManagerGone
    <2>3. CASE ~gate /\ Apply(Unpatched(manifest))
      BY <1>1, <2>3 DEF Apply, Unpatched, NoServices, Cleaned, WranglerGone,
         Annotated
    <2> QED
      BY <2>1, <2>2, <2>3 DEF Install
  <1> QED
    BY <1>1, <1>2 DEF IInv, Progress, Phases, CleanedSoFar, Restarting, Earned,
       Outcome, InCertManager, InWrangler

LEMMA NextProgress == IInv /\ [Next]_vars => Progress'
  <1> SUFFICES ASSUME IInv, [Next]_vars
               PROVE  Progress'
    OBVIOUS
  <1>1. CASE \/ DeliverProvider \/ Resync \/ Upgrade \/ UNCHANGED vars
             \/ \E x \in Certificates : RemoveCertificate(x)
    BY <1>1, Elsewhere DEF IInv, Progress, DeliverProvider, Resync, Upgrade,
       RemoveCertificate, objects, local, vars
  <1>2. CASE Start
    BY <1>2 DEF Start, ManagedByWrangler, NotManagedByWrangler, Progress, Phases,
       CleanedSoFar, Restarting, Earned, InCertManager, InWrangler
  <1>3. CASE SetCondition
    <2>1. Cleaned /\ stale = {}
      BY <1>3 DEF SetCondition, IInv, Restarting
    <2>2. Cleaned' /\ stale' = {} /\ c' = Outcome' /\ pc' = "install"
      BY <1>3, <2>1 DEF SetCondition, objects, Cleaned, CertManagerGone,
         WranglerGone, Annotated, Outcome
    <2> QED
      BY <2>2 DEF Progress, Phases, CleanedSoFar, Restarting, Earned,
         InCertManager, InWrangler
  <1>4. CASE PatchStatus \/ Restart
    BY <1>4 DEF PatchStatus, Restart, Progress, Phases, CleanedSoFar, Restarting,
       Earned, InCertManager, InWrangler
  <1> QED
    BY <1>1, <1>2, <1>3, <1>4, ListProgress, TurnProgress, InstallProgress
       DEF Next, ReconcileStep

LEMMA Inductive == Spec => []IInv
  <1>1. Init => IInv
    BY InitType, AtRest DEF Init, IInv, Progress
  <1>2. IInv /\ [Next]_vars => IInv'
    BY NextType, NextProgress DEF IInv, Progress
  <1> QED
    BY <1>1, <1>2, PTL DEF Spec

\* For any manifests and any number of objects, failures, conflicts and
\* restarts: the saved condition changes only after the cleanup it reports, and
\* after the rollout of every Deployment (CleanupCertManagerResources,
\* CleanupWranglerResources).
THEOREM ConditionSafety == Spec => ConditionIsEarned
  <1>1. ASSUME IInv, [Next]_vars, cond' # cond
        PROVE  stale = {} /\ IF cond' = "True" THEN CertManagerGone
                                               ELSE WranglerGone
    <2>1. PatchStatus /\ c # base /\ cond' = c
      BY <1>1 DEF Next, ReconcileStep, DeliverProvider, Resync, Start,
         ListCertificates, ListIssuers, ListResources, ListServices,
         ListDeployments, List, DeleteCertificate, CertificateNotFound,
         DeleteIssuer, UpdateResource, UpdateService, RestartDeployment, Turn,
         SetCondition, Install, PatchStatus, Upgrade, RemoveCertificate, Restart,
         vars
    <2>2. c = Outcome /\ Cleaned /\ stale = {}
      BY <1>1, <2>1 DEF IInv, Earned
    <2> QED
      BY <2>1, <2>2 DEF Outcome, Cleaned
  <1>2. IInv /\ [Next]_vars =>
          [cond' # cond => /\ stale = {}
                           /\ IF cond' = "True" THEN CertManagerGone
                                                ELSE WranglerGone]_vars
    BY <1>1
  <1> QED
    BY Inductive, <1>2, PTL DEF Spec, ConditionIsEarned

\* For any manifests: whenever the Services change with the feature on, exactly
\* those of the webhooks that relied on cert-manager are annotated, each with a
\* Secret of a Certificate such a webhook named (WranglerPatcher).
THEOREM WebhooksSafety == Spec => WebhooksServed
  <1>1. ASSUME IInv, [Next]_vars, gate, need' # need
        PROVE  /\ ~PatchFails(manifest)
               /\ need' = NeedACert(manifest)
    <2>1. ASSUME NEW s \in Services, UpdateService(s)
          PROVE  FALSE
      BY <1>1, <2>1 DEF IInv, Phases, InWrangler, UpdateService
    <2>2. Install
      BY <1>1, <2>1 DEF Next, ReconcileStep, DeliverProvider, Resync, Start,
         ListCertificates, ListIssuers, ListResources, ListServices,
         ListDeployments, List, DeleteCertificate, CertificateNotFound,
         DeleteIssuer, UpdateResource, RestartDeployment, Turn, SetCondition,
         PatchStatus, Upgrade, RemoveCertificate, Restart, objects, vars
    <2> QED
      BY <1>1, <2>2 DEF Install, Apply, WranglerPatcher, objects
  <1>2. ASSUME IInv, [Next]_vars, gate, need' # need, NEW s \in Services
        PROVE  IF Serving(manifest, s) = {}
               THEN need'[s] = None
               ELSE need'[s] \in ServiceSecrets(s) \cap Secrets
    BY <1>1, <1>2, NeedACertServes DEF IInv, TypeOK, ServiceSecrets
  <1>3. IInv /\ [Next]_vars =>
          [gate /\ need' # need =>
             \A s \in Services : IF Serving(manifest, s) = {}
                                 THEN need'[s] = None
                                 ELSE need'[s] \in ServiceSecrets(s) \cap Secrets]_vars
    BY <1>2
  <1> QED
    BY Inductive, <1>3, PTL DEF Spec, WebhooksServed

-----------------------------------------------------------------------------
(***************************************************************************)
(* The safety half of ConditionFollowsGate and RolloutsEnd: what has been  *)
(* reached is kept.                                                        *)
(***************************************************************************)

\* The saved condition, its cached copy and those of a Reconcile under way say what
\* the feature says, and with the feature the Reconcile is past the cleanup.
Agreed ==
  LET status == IF gate THEN "True" ELSE "Absent" IN
  /\ cond = status /\ condCache = status
  /\ pc # "idle" => c = status /\ base = status
  /\ gate /\ pc # "idle" => pc \in {"install", "patch"}

AgreementLasts ==
  [][Agreed /\ gate' = gate
       => Agreed' /\ (gate => \A d \in Deployments : ~RestartDeployment(d))]_vars

LEMMA AgreedStep == Agreed /\ [Next]_vars /\ gate' = gate => Agreed'
  <1> SUFFICES ASSUME Agreed, [Next]_vars, gate' = gate PROVE Agreed'
    OBVIOUS
  <1>1. CASE Start
    BY <1>1 DEF Start, ManagedByWrangler, Agreed
  <1>2. CASE PatchStatus \/ Restart
    BY <1>2 DEF PatchStatus, Restart, Agreed
  <1>3. CASE SetCondition
    BY <1>3 DEF SetCondition, Outcome, Agreed
  <1>4. CASE Install \/ \E x \in Certificates : CertificateNotFound(x)
    BY <1>4 DEF Install, CertificateNotFound, Stop, Fails, Agreed
  <1>5. CASE \/ ListCertificates \/ ListIssuers \/ ListResources
             \/ ListServices \/ ListDeployments
    BY <1>5 DEF ListCertificates, ListIssuers, ListResources, ListServices,
       ListDeployments, List, Fails, Stop, Agreed
  <1>6. CASE \/ \E x \in Certificates : DeleteCertificate(x)
             \/ \E x \in Issuers : DeleteIssuer(x)
             \/ \E r \in Resources : UpdateResource(r)
             \/ \E s \in Services : UpdateService(s)
             \/ \E d \in Deployments : RestartDeployment(d)
    BY <1>6 DEF DeleteCertificate, DeleteIssuer, UpdateResource, UpdateService,
       RestartDeployment, Turn, Fails, Stop, Agreed
  <1>7. CASE \/ DeliverProvider \/ Resync \/ Upgrade \/ UNCHANGED vars
             \/ \E x \in Certificates : RemoveCertificate(x)
    BY <1>7 DEF DeliverProvider, Resync, Upgrade, RemoveCertificate, Agreed, local, vars
  <1>8. QED
    BY <1>1, <1>2, <1>3, <1>4, <1>5, <1>6, <1>7 DEF Next, ReconcileStep

\* Until the feature is switched, nothing takes back a condition that was saved and
\* delivered, whatever fails, is upgraded or restarted; and with the feature the
\* Deployments are never rolled out again (the guard of
\* CleanupCertManagerResources).
THEOREM AgreementSafety == Spec => AgreementLasts
  <1>1. [Next]_vars
          => [Agreed /\ gate' = gate
                => Agreed' /\ (gate => \A d \in Deployments : ~RestartDeployment(d))]_vars
    <2>1. ASSUME Agreed, gate, NEW d \in Deployments PROVE ~RestartDeployment(d)
      BY <2>1 DEF Agreed, RestartDeployment
    <2>2. QED
      BY <2>1, AgreedStep
  <1>2. QED
    BY <1>1, PTL DEF Spec, AgreementLasts
=============================================================================
