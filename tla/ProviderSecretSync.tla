-------------------------- MODULE ProviderSecretSync --------------------------
(***************************************************************************)
(* The config secret of a CAPIProvider: the setProviderSpec and            *)
(* syncSecrets phases of CAPIProviderReconciler (operator_reconciler.go),  *)
(* SetProviderSpec (internal/provider) and the two synchronizers of        *)
(* internal/sync.  SecretSync writes the variables, SecretMapperSync the   *)
(* keys mapped from a Rancher cloud credential, both with Get, Sync and    *)
(* Apply on their own copy of the same Secret.                             *)
(*                                                                         *)
(* Secrets are read from the API server, the CAPIProvider from a cache.    *)
(* The steps of one Reconcile are separated at its API calls.              *)
(***************************************************************************)
EXTENDS Integers

CONSTANTS
  Providers,    \* CAPIProviders of one namespace that name the same secret
  VariableKeys, \* keys users set in spec.variables
  MappedKeys,   \* keys of knownProviderRequirements for the provider
  UserKeys,     \* keys only users write, into the secret itself
  Values,       \* what a key may hold
  NoKey,        \* the key is absent
  Empty,        \* the key is there and holds the empty string
  Nobody,       \* no controller owner, and no provider being reconciled
  EnvOps,       \* what users and faults may do
  MaxOps        \* bound on the number of EnvOps steps in a behaviour

Keys == VariableKeys \cup MappedKeys \cup UserKeys

ASSUME ProviderSecretSyncAssumption ==
  /\ NoKey \notin Values /\ Empty \notin Values /\ NoKey # Empty
  /\ Nobody \notin Providers
  /\ UserKeys \cap (VariableKeys \cup MappedKeys) = {}
  /\ MaxOps \in Nat

VARIABLES
  provider,       \* the CAPIProviders on the API server
  providerCache,  \* the informer's copies of them
  source,         \* the Rancher cloud credential each of them names
  secret,         \* the config secret
  notify,         \* its informer has a version that was not delivered
  queue,          \* providers in the workqueue
  pc,             \* the API call the reconciler makes next
  me, c,          \* r.Provider: its name and content
  base,           \* the copy of it the patch is computed from
  found,          \* SecretMapperSync.RancherSecret
  d1, d2,         \* Destination of SecretSync and of SecretMapperSync
  err,            \* an error was collected
  ops             \* EnvOps steps so far

local == <<me, c, base, found, d1, d2, err>>
vars == <<provider, providerCache, source, secret, notify, queue, pc, me, c,
          base, found, d1, d2, err, ops>>

\* Users and Rancher write values that are not empty.
Input == [Keys -> Values \cup {NoKey}]
Content == [Keys -> Values \cup {Empty, NoKey}]
NoContent == [k \in Keys |-> NoKey]

Conditions == {"unset", "KeyMissing", "SourceMissing", "CredentialsMapped"}

\* variables: spec.variables; credentials: spec.credentials names a credential
\* of a known provider; status: status.variables; cond: the reason of the
\* RancherCredentialsSecretMapped condition.
CAPIProvider == [variables : Input, credentials : BOOLEAN,
                 status : Input, cond : Conditions]
NoProvider == [variables |-> NoContent, credentials |-> FALSE,
               status |-> NoContent, cond |-> "unset"]

\* data: what converting each mapped key would give, NoKey if a key it is made
\* from is missing.
Source == [ex : BOOLEAN, data : Input]
NoSource == [ex |-> FALSE, data |-> NoContent]

Secret == [ex : BOOLEAN, owner : Providers \cup {Nobody}, data : Content]
NoSecret == [ex |-> FALSE, owner |-> Nobody, data |-> NoContent]

\* A Destination: the version it was read at, its Data and its StringData.
Destination == [version : {"none", "current", "stale"},
                data : Content, stringData : Content]
NoDestination == [version |-> "none", data |-> NoContent,
                  stringData |-> NoContent]

Steps == {"idle", "getVariables", "getSource", "getMapped", "applyVariables",
          "applyMapped", "patch"}

TypeOK ==
  /\ provider \in [Providers -> CAPIProvider]
  /\ providerCache \in [Providers -> CAPIProvider]
  /\ source \in [Providers -> Source]
  /\ secret \in Secret
  /\ notify \in BOOLEAN
  /\ queue \subseteq Providers
  /\ pc \in Steps
  /\ me \in Providers \cup {Nobody}
  /\ pc # "idle" => me \in Providers
  /\ c \in CAPIProvider
  /\ base \in CAPIProvider
  /\ found \in Source
  /\ d1 \in Destination
  /\ d2 \in Destination
  /\ err \in BOOLEAN
  /\ ops \in 0..MaxOps

-----------------------------------------------------------------------------
Env(op) == op \in EnvOps /\ ops < MaxOps /\ ops' = ops + 1

\* What a map holds after another was copied into it.
Overlay(under, over) == [k \in Keys |-> IF over[k] = NoKey THEN under[k]
                                                          ELSE over[k]]

\* Every change of the secret outdates the copies taken before it; a write that
\* changes nothing leaves the resource version alone.
Outdated(d) == IF d.version = "none" THEN d ELSE [d EXCEPT !.version = "stale"]
PutSecret(s) ==
  IF s = secret
  THEN UNCHANGED <<secret, notify, d1, d2>>
  ELSE /\ secret' = s
       /\ notify' = TRUE
       /\ d1' = Outdated(d1)
       /\ d2' = Outdated(d2)

-----------------------------------------------------------------------------
(***************************************************************************)
(* Watches: CAPIProviders, and Secrets through the index on                *)
(* spec.configSecret.  The Rancher credential is not watched.              *)
(***************************************************************************)
DeliverProvider(p) ==
  /\ providerCache[p] # provider[p]
  /\ providerCache' = [providerCache EXCEPT ![p] = provider[p]]
  /\ queue' = queue \cup {p}
  /\ UNCHANGED <<provider, source, secret, notify, pc, local, ops>>

\* newSecretToProviderFuncMapForProviderList.
DeliverSecret ==
  /\ notify
  /\ notify' = FALSE
  /\ queue' = Providers
  /\ UNCHANGED <<provider, providerCache, source, secret, pc, local, ops>>

\* The cache replays every CAPIProvider each syncPeriod.
Resync(p) ==
  /\ p \notin queue
  /\ queue' = queue \cup {p}
  /\ UNCHANGED <<provider, providerCache, source, secret, notify, pc, local,
                 ops>>

-----------------------------------------------------------------------------
(***************************************************************************)
(* One Reconcile: setProviderSpec, syncSecrets and the patch of the        *)
(* CAPIProvider when it returns.                                           *)
(***************************************************************************)

\* setVariables: keys are copied into the status and never leave it.
SetVariablesOnce(o) == [o EXCEPT !.status = Overlay(o.variables, o.status)]
SetVariables(o) == [o EXCEPT !.status = Overlay(o.status, o.variables)]

Start(p) ==
  /\ pc = "idle"
  /\ p \in queue
  /\ queue' = queue \ {p}
  /\ me' = p
  /\ base' = providerCache[p]
  /\ c' = SetVariables(base')
  /\ pc' = "getVariables"
  /\ UNCHANGED <<provider, providerCache, source, secret, notify, found, d1, d2,
                 err, ops>>

\* DefaultSynchronizer.Get; a missing secret leaves the template as it is.
ReadNoData(strings) ==
  [NoDestination EXCEPT !.version = IF secret.ex THEN "current" ELSE "none",
                        !.stringData = strings]
Read(strings) ==
  IF secret.ex
  THEN [version |-> "current", data |-> secret.data, stringData |-> strings]
  ELSE [NoDestination EXCEPT !.stringData = strings]

\* A failed Get is only collected: the other synchronizer still gets its turn.
AfterGet(failed) == IF failed THEN "patch" ELSE "applyVariables"

GetVariables ==
  /\ pc = "getVariables"
  /\ \/ d1' = Read(c.status) /\ UNCHANGED <<err, ops>>
     \/ Env("apiError") /\ d1' = NoDestination /\ err' = TRUE
  /\ pc' = IF c.credentials THEN "getSource" ELSE AfterGet(err')
  /\ UNCHANGED <<provider, providerCache, source, secret, notify, queue, me, c,
                 base, found, d2>>

\* Into: a mapped key without its source is written as the empty string.
Into(s) == [k \in Keys |-> IF k \notin MappedKeys THEN NoKey
                           ELSE IF s.data[k] = NoKey THEN Empty ELSE s.data[k]]
Complete(s) == \A k \in MappedKeys : s.data[k] # NoKey

\* SecretMapperSync.Sync sets the condition last, over whatever Get reported.
ConditionNoReason(s) == IF Complete(s) THEN "" ELSE "KeyMissing"
Condition(s) == IF Complete(s) THEN "CredentialsMapped" ELSE "KeyMissing"

NotFoundIgnored(s) == FALSE
NotFound(s) == ~s.ex

\* SecretMapperSync.Get finds the credential by name and driver, or returns an
\* error of its own that syncSecrets does not ignore; Sync runs all the same.
GetSource ==
  /\ pc = "getSource"
  /\ \/ /\ found' = source[me]
        /\ IF NotFound(source[me])
           THEN /\ err' = TRUE
                /\ c' = [c EXCEPT !.cond = Condition(NoSource)]
                /\ pc' = "patch"
           ELSE pc' = "getMapped" /\ UNCHANGED <<err, c>>
        /\ UNCHANGED ops
     \/ /\ Env("apiError")
        /\ err' = TRUE
        /\ c' = [c EXCEPT !.cond = Condition(NoSource)]
        /\ pc' = "patch"
        /\ UNCHANGED found
  /\ UNCHANGED <<provider, providerCache, source, secret, notify, queue, me,
                 base, d1, d2>>

GetMapped ==
  /\ pc = "getMapped"
  /\ \/ d2' = Read(Into(found)) /\ UNCHANGED <<err, ops>>
     \/ Env("apiError") /\ d2' = NoDestination /\ err' = TRUE
  /\ c' = [c EXCEPT !.cond = Condition(found)]
  /\ pc' = AfterGet(err')
  /\ UNCHANGED <<provider, providerCache, source, secret, notify, queue, me,
                 base, found, d1>>

\* sync.Patch: Update, and Create if there is nothing to update.  The Update
\* names the version that was read; without one it overwrites what is there,
\* and with one it can neither overwrite a newer secret nor create a secret.
AcceptsAny(d) == TRUE
Accepts(d) == d.version # "stale"
Apply(d) == PutSecret([ex |-> TRUE, owner |-> me,
                       data |-> Overlay(d.data, d.stringData)])

\* List.Apply goes on to the next synchronizer after an error.
ApplyVariables ==
  /\ pc = "applyVariables"
  /\ \/ Accepts(d1) /\ Apply(d1) /\ UNCHANGED <<err, ops>>
     \/ /\ \/ ~Accepts(d1) /\ UNCHANGED ops
           \/ Env("apiError")
        /\ err' = TRUE
        /\ UNCHANGED <<secret, notify, d1, d2>>
  /\ pc' = IF c.credentials THEN "applyMapped" ELSE "patch"
  /\ UNCHANGED <<provider, providerCache, source, queue, me, c, base, found>>

ApplyMapped ==
  /\ pc = "applyMapped"
  /\ \/ Accepts(d2) /\ Apply(d2) /\ UNCHANGED <<err, ops>>
     \/ /\ \/ ~Accepts(d2) /\ UNCHANGED ops
           \/ Env("apiError")
        /\ err' = TRUE
        /\ UNCHANGED <<secret, notify, d1, d2>>
  /\ pc' = "patch"
  /\ UNCHANGED <<provider, providerCache, source, queue, me, c, base, found>>

\* The deferred merge patch of the CAPIProvider sends what this Reconcile
\* changed in its copy; the error puts the request back.
PatchStatus ==
  /\ pc = "patch"
  /\ \/ /\ provider' = [provider EXCEPT
             ![me].status = Overlay(@, [k \in Keys |->
                IF c.status[k] = base.status[k]
                THEN NoKey ELSE c.status[k]]),
             ![me].cond = IF c.cond = base.cond THEN @ ELSE c.cond]
        /\ queue' = IF err THEN queue \cup {me} ELSE queue
        /\ UNCHANGED ops
     \/ Env("apiError") /\ queue' = queue \cup {me} /\ UNCHANGED provider
  /\ pc' = "idle"
  /\ me' = Nobody /\ c' = NoProvider /\ base' = NoProvider /\ found' = NoSource
  /\ d1' = NoDestination /\ d2' = NoDestination /\ err' = FALSE
  /\ UNCHANGED <<providerCache, source, secret, notify>>

SyncStep ==
  \/ \E p \in Providers : Start(p)
  \/ GetVariables \/ GetSource \/ GetMapped \/ ApplyVariables \/ ApplyMapped
  \/ PatchStatus

-----------------------------------------------------------------------------
(***************************************************************************)
(* Users, Rancher and the restart of the manager.                          *)
(***************************************************************************)
EditProvider(op, p, o) ==
  /\ Env(op)
  /\ provider' = [provider EXCEPT ![p] = o]
  /\ UNCHANGED <<providerCache, source, secret, notify, queue, pc, local>>

SetVariable(p) ==
  \E k \in VariableKeys : \E v \in (Values \cup {NoKey})
                                      \ {provider[p].variables[k]} :
    EditProvider("variables", p, [provider[p] EXCEPT !.variables[k] = v])
SetCredentials(p) ==
  EditProvider("credentials", p, [provider[p] EXCEPT !.credentials = ~@])

EditSource(op, p, s) ==
  /\ Env(op)
  /\ source' = [source EXCEPT ![p] = s]
  /\ UNCHANGED <<provider, providerCache, secret, notify, queue, pc, local>>

RotateSource(p) ==
  /\ source[p].ex
  /\ \E k \in MappedKeys : \E v \in (Values \cup {NoKey}) \ {source[p].data[k]} :
       EditSource("rotate", p, [source[p] EXCEPT !.data[k] = v])
LoseSource(p) == source[p].ex /\ EditSource("lose", p, NoSource)
FindSource(p) ==
  /\ ~source[p].ex
  /\ \E v \in Values : EditSource("find", p, [ex |-> TRUE, data |->
       [k \in Keys |-> IF k \in MappedKeys THEN v ELSE NoKey]])

EditSecret(op, s) ==
  /\ Env(op)
  /\ PutSecret(s)
  /\ UNCHANGED <<provider, providerCache, source, queue, pc, me, c, base, found,
                 err>>

SetUserKey ==
  /\ secret.ex
  /\ \E k \in UserKeys : \E v \in (Values \cup {NoKey}) \ {secret.data[k]} :
       EditSecret("userKey", [secret EXCEPT !.data[k] = v])
UserSecret(v) == [ex |-> TRUE, owner |-> Nobody, data |->
                  [k \in Keys |-> IF k \in UserKeys THEN v ELSE NoKey]]
CreateSecret == ~secret.ex /\ \E v \in Values :
                                 EditSecret("create", UserSecret(v))
DeleteSecret == secret.ex /\ EditSecret("delete", NoSecret)

Restart ==
  /\ Env("restart")
  /\ providerCache' = provider
  /\ notify' = FALSE
  /\ queue' = Providers
  /\ pc' = "idle"
  /\ me' = Nobody /\ c' = NoProvider /\ base' = NoProvider /\ found' = NoSource
  /\ d1' = NoDestination /\ d2' = NoDestination /\ err' = FALSE
  /\ UNCHANGED <<provider, source, secret>>

-----------------------------------------------------------------------------
Init ==
  /\ \E v \in Values \cup {NoKey} : \E n \in BOOLEAN : provider =
       [p \in Providers |-> [NoProvider EXCEPT !.credentials = n, !.variables =
          [k \in Keys |-> IF k \in VariableKeys THEN v ELSE NoKey]]]
  /\ providerCache = provider
  /\ \E v \in Values : source \in [Providers -> {NoSource,
       [ex |-> TRUE, data |-> [k \in Keys |-> IF k \in MappedKeys THEN v
                                                               ELSE NoKey]]}]
  /\ \/ secret = NoSecret
     \/ \E v \in Values : secret = UserSecret(v)
  /\ notify = FALSE
  /\ queue = Providers
  /\ pc = "idle"
  /\ me = Nobody /\ c = NoProvider /\ base = NoProvider /\ found = NoSource
  /\ d1 = NoDestination /\ d2 = NoDestination /\ err = FALSE
  /\ ops = 0

Next ==
  \/ \E p \in Providers :
       \/ DeliverProvider(p) \/ Resync(p)
       \/ SetVariable(p) \/ SetCredentials(p)
       \/ RotateSource(p) \/ LoseSource(p) \/ FindSource(p)
  \/ DeliverSecret
  \/ SyncStep
  \/ SetUserKey \/ CreateSecret \/ DeleteSecret \/ Restart

Spec == Init /\ [][Next]_vars

\* The watches, the resync period and the worker keep running, and the workqueue
\* is served in order.
Fairness ==
  /\ WF_vars(DeliverSecret)
  /\ WF_vars(SyncStep)
  /\ \A p \in Providers : /\ WF_vars(DeliverProvider(p)) /\ WF_vars(Resync(p))
                           /\ SF_vars(Start(p))

FairSpec == Spec /\ Fairness

-----------------------------------------------------------------------------
(***************************************************************************)
(* Properties.                                                             *)
(***************************************************************************)

\* A reconcile that read the secret never loses what users wrote into it
\* meanwhile: the other keys survive both writes (sync.Patch keeps the version
\* and the Data of the Get).
Applying(step, d) == step /\ d.version # "none"
UserKeysKept ==
  [][Applying(ApplyVariables, d1) \/ Applying(ApplyMapped, d2)
       => \A k \in UserKeys : secret'.data[k] = secret.data[k]]_vars

\* A credential that is gone does not blank the keys mapped from it before: a
\* reconcile empties a key only after it found the credential without the key
\* (the error of SecretMapperSync.Get stops syncSecrets before the writes).
SourceLossKeepsKeys ==
  [][\A k \in MappedKeys : secret'.data[k] = Empty /\ secret.data[k] # Empty
       => found.ex /\ found.data[k] = NoKey]_vars

\* What users set ends up in the secret: the variables of every provider, and
\* the keys of a credential that exists, however edits, deletions of the secret
\* and failed calls interleave with the writes.
InSync(p) ==
  /\ secret.ex
  /\ \A k \in VariableKeys : provider[p].variables[k] # NoKey
                               => secret.data[k] = provider[p].variables[k]
  /\ provider[p].credentials
       => \A k \in MappedKeys : secret.data[k] = Into(source[p])[k]
Blocked(p) == provider[p].credentials /\ ~source[p].ex
Converges == \A p \in Providers : []<>(InSync(p) \/ Blocked(p))

\* Left alone, the secret comes to rest: the two writers do not undo each other
\* for ever (syncSecrets; the operator test waits for a stable version).
Settles == <>[][FALSE]_secret
=============================================================================
