----------------------- MODULE ProviderSecretSyncProofs -----------------------
(***************************************************************************)
(* Proofs about ProviderSecretSync, for any number of providers and keys   *)
(* and every environment: what users write into the secret survives, a     *)
(* lost credential empties no key, and a secret that says what it should   *)
(* stays as it is.                                                         *)
(***************************************************************************)
EXTENDS ProviderSecretSync, TLAPS

\* A Destination read at the current version holds the Data of the secret; one
\* that was not found holds none.
Faithful(d) ==
  /\ d.version = "current" => d.data = secret.data
  /\ d.version = "none" => d.data = NoContent
Snapshots == Faithful(d1) /\ Faithful(d2)

\* Users keep their own keys out of the provider's variables.
Separate(o) == \A k \in UserKeys : o.variables[k] = NoKey /\ o.status[k] = NoKey
Separated ==
  /\ \A p \in Providers : Separate(provider[p]) /\ Separate(providerCache[p])
  /\ Separate(c) /\ Separate(base)

\* What the two synchronizers are about to write.
Strings ==
  /\ d1.stringData \in Input
  /\ \A k \in UserKeys : d1.stringData[k] = NoKey
  /\ pc = "getMapped" => found.ex
  /\ pc = "applyMapped" \/ (pc = "applyVariables" /\ c.credentials)
       => found.ex /\ d2.stringData = Into(found)

IInv == TypeOK /\ Snapshots /\ Separated /\ Strings

-----------------------------------------------------------------------------
(***************************************************************************)
(* Operators.                                                              *)
(***************************************************************************)

LEMMA EmptyTypes ==
  /\ NoContent \in Input /\ NoContent \in Content
  /\ NoProvider \in CAPIProvider /\ NoSource \in Source
  /\ NoSecret \in Secret /\ NoDestination \in Destination
  /\ NoProvider.credentials = FALSE /\ NoSource.ex = FALSE
  /\ NoDestination.version = "none" /\ NoDestination.data = NoContent
  /\ NoDestination.stringData = NoContent
  /\ Separate(NoProvider)
  <1>1. NoContent \in Input /\ NoContent \in Content
    BY DEF NoContent, Input, Content
  <1>2. \A k \in UserKeys : k \in Keys /\ NoContent[k] = NoKey
    BY DEF NoContent, Keys
  <1> QED
    BY <1>1, <1>2 DEF NoProvider, CAPIProvider, NoSource, Source, NoSecret, Secret,
       NoDestination, Destination, Conditions, Separate

LEMMA InputIsContent == Input \subseteq Content
  BY DEF Input, Content

LEMMA OverlayInput ==
  ASSUME NEW a \in Input, NEW b \in Input
  PROVE  Overlay(a, b) \in Input
  BY DEF Overlay, Input

LEMMA OverlayContent ==
  ASSUME NEW a \in Content, NEW b \in Content
  PROVE  Overlay(a, b) \in Content
  BY DEF Overlay, Content

\* Into writes mapped keys only, and empties a key exactly when its source is
\* missing.
LEMMA IntoContent ==
  ASSUME NEW s \in Source
  PROVE  /\ Into(s) \in Content
         /\ \A k \in UserKeys : Into(s)[k] = NoKey
         /\ \A k \in MappedKeys : /\ Into(s)[k] # NoKey
                                  /\ Into(s)[k] = Empty => s.data[k] = NoKey
  <1>1. s.data \in Input
    BY DEF Source
  <1> HIDE DEF Source
  <1>2. \A k \in Keys : s.data[k] \in Values \cup {NoKey}
    BY <1>1 DEF Input
  <1>3. Into(s) \in Content
    BY <1>2 DEF Into, Content
  <1>4. \A k \in UserKeys : Into(s)[k] = NoKey
    BY ProviderSecretSyncAssumption DEF Into, Keys
  <1>5. \A k \in MappedKeys : k \in Keys
    BY DEF Keys
  <1>6. QED
    BY <1>2, <1>3, <1>4, <1>5, ProviderSecretSyncAssumption DEF Into

LEMMA VariablesSet ==
  ASSUME NEW o \in CAPIProvider
  PROVE  /\ SetVariables(o) \in CAPIProvider
         /\ SetVariables(o).credentials = o.credentials
         /\ Separate(o) => Separate(SetVariables(o))
  <1>1. o.status \in Input /\ o.variables \in Input
    BY DEF CAPIProvider
  <1>2. Overlay(o.status, o.variables) \in Input
    BY <1>1, OverlayInput
  <1>3. /\ SetVariables(o) \in CAPIProvider
        /\ SetVariables(o).credentials = o.credentials
        /\ SetVariables(o).variables = o.variables
        /\ SetVariables(o).status = Overlay(o.status, o.variables)
    BY <1>2 DEF SetVariables, CAPIProvider
  <1>4. Separate(o) => \A k \in UserKeys : Overlay(o.status, o.variables)[k] = NoKey
    BY DEF Separate, Overlay, Keys
  <1>5. QED
    BY <1>3, <1>4 DEF Separate

LEMMA ConditionType == ASSUME NEW s PROVE Condition(s) \in Conditions
  BY DEF Condition, Conditions

LEMMA OutdatedKeeps ==
  ASSUME NEW d \in Destination
  PROVE  /\ Outdated(d) \in Destination
         /\ Outdated(d).version # "current"
         /\ Outdated(d).version = "none" => d.version = "none"
         /\ Outdated(d).data = d.data /\ Outdated(d).stringData = d.stringData
  BY DEF Outdated, Destination

\* A write to the secret keeps the copies of it as they must be.
LEMMA PutKeeps ==
  ASSUME TypeOK, Snapshots, NEW s \in Secret, PutSecret(s)
  PROVE  /\ secret' \in Secret /\ notify' \in BOOLEAN
         /\ d1' \in Destination /\ d2' \in Destination
         /\ Snapshots'
         /\ d1'.stringData = d1.stringData /\ d2'.stringData = d2.stringData
         /\ secret' = s
  <1>1. CASE s = secret
    BY <1>1 DEF PutSecret, TypeOK, Snapshots, Faithful
  <1>2. CASE s # secret
    BY <1>2, OutdatedKeeps DEF PutSecret, TypeOK, Snapshots, Faithful
  <1>3. QED
    BY <1>1, <1>2

LEMMA EnvType ==
  ASSUME TypeOK, NEW op, Env(op) PROVE ops' \in 0..MaxOps
  BY ProviderSecretSyncAssumption DEF TypeOK, Env

LEMMA ReadKeeps ==
  ASSUME TypeOK, NEW t \in Content
  PROVE  /\ Read(t) \in Destination
         /\ Faithful(Read(t))
         /\ Read(t).stringData = t
  <1>1. secret.data \in Content
    BY DEF TypeOK, Secret
  <1>2. QED
    BY <1>1, EmptyTypes DEF Read, Destination, NoDestination, Faithful

-----------------------------------------------------------------------------
(***************************************************************************)
(* The invariant.                                                          *)
(***************************************************************************)

LEMMA IInvInit == Init => IInv
  <1> SUFFICES ASSUME Init PROVE IInv
    OBVIOUS
  <1> USE EmptyTypes
  <1>1. PICK v \in Values \cup {NoKey}, n \in BOOLEAN : provider =
          [p \in Providers |-> [NoProvider EXCEPT !.credentials = n, !.variables =
             [k \in Keys |-> IF k \in VariableKeys THEN v ELSE NoKey]]]
    BY DEF Init
  <1>2. [k \in Keys |-> IF k \in VariableKeys THEN v ELSE NoKey] \in Input
    BY DEF Input
  <1>3. \A k \in UserKeys :
          [j \in Keys |-> IF j \in VariableKeys THEN v ELSE NoKey][k] = NoKey
    BY ProviderSecretSyncAssumption DEF Keys
  <1>4. \A p \in Providers :
          /\ provider[p].variables \in Input /\ provider[p].status = NoContent
          /\ provider[p] \in CAPIProvider /\ Separate(provider[p])
    <2>1. \A k \in UserKeys : NoContent[k] = NoKey
      BY DEF NoContent, Keys
    <2>2. QED
      BY <1>1, <1>2, <1>3, <2>1 DEF NoProvider, CAPIProvider, Conditions, Separate
  <1>5. provider \in [Providers -> CAPIProvider]
    BY <1>1, <1>4
  <1>6. source \in [Providers -> Source]
    <2>1. \A w \in Values :
            [k \in Keys |-> IF k \in MappedKeys THEN w ELSE NoKey] \in Input
      BY DEF Input
    <2>2. \A w \in Values : [ex |-> TRUE, data |->
            [k \in Keys |-> IF k \in MappedKeys THEN w ELSE NoKey]] \in Source
      BY <2>1 DEF Source
    <2>3. QED
      BY <2>2 DEF Init
  <1>7. secret \in Secret
    <2>1. \A w \in Values : UserSecret(w) \in Secret
      BY DEF UserSecret, Secret, Content
    <2>2. QED
      BY <2>1 DEF Init
  <1>8. TypeOK
    <2>1. /\ providerCache = provider /\ notify = FALSE /\ queue = Providers
          /\ pc = "idle" /\ me = Nobody /\ err = FALSE /\ ops = 0
          /\ c = NoProvider /\ base = NoProvider /\ found = NoSource
          /\ d1 = NoDestination /\ d2 = NoDestination
      BY DEF Init
    <2>2. ops \in 0..MaxOps
      BY <2>1, ProviderSecretSyncAssumption
    <2>3. QED
      BY <2>1, <2>2, <1>5, <1>6, <1>7 DEF TypeOK, Steps
  <1>9. Snapshots /\ Separated
    BY <1>4 DEF Init, Snapshots, Faithful, Separated
  <1>10. Strings
    <2>1. \A k \in UserKeys : NoContent[k] = NoKey
      BY DEF NoContent, Keys
    <2>2. QED
      BY <2>1 DEF Init, Strings
  <1>11. QED
    BY <1>8, <1>9, <1>10 DEF IInv

\* Watches, the resync and edits of the objects a reconcile only reads.
LEMMA WatchKeeps ==
  ASSUME IInv, NEW p \in Providers,
         DeliverProvider(p) \/ Resync(p) \/ DeliverSecret
  PROVE  IInv'
  <1>1. CASE DeliverProvider(p)
    <2>1. TypeOK'
      BY <1>1 DEF IInv, TypeOK, DeliverProvider, local
    <2>2. Snapshots' /\ Strings'
      BY <1>1 DEF IInv, Snapshots, Faithful, Strings, DeliverProvider, local
    <2>3. Separated'
      BY <1>1 DEF IInv, TypeOK, Separated, DeliverProvider, local, Separate
    <2>4. QED
      BY <2>1, <2>2, <2>3 DEF IInv
  <1>2. CASE Resync(p) \/ DeliverSecret
    <2>1. TypeOK'
      BY <1>2 DEF IInv, TypeOK, Resync, DeliverSecret, local
    <2>2. Snapshots' /\ Strings' /\ Separated'
      BY <1>2 DEF IInv, Snapshots, Faithful, Strings, Separated, Resync,
         DeliverSecret, local, Separate
    <2>3. QED
      BY <2>1, <2>2 DEF IInv
  <1>3. QED
    BY <1>1, <1>2

LEMMA EditProviderKeeps ==
  ASSUME IInv, NEW p \in Providers, NEW op, NEW o \in CAPIProvider, Separate(o),
         EditProvider(op, p, o)
  PROVE  IInv'
  <1>1. TypeOK'
    BY EnvType DEF IInv, TypeOK, EditProvider, local
  <1>2. Snapshots' /\ Strings'
    BY DEF IInv, Snapshots, Faithful, Strings, EditProvider, local
  <1>3. Separated'
    BY DEF IInv, TypeOK, Separated, EditProvider, local, Separate
  <1>4. QED
    BY <1>1, <1>2, <1>3 DEF IInv

LEMMA EditSourceKeeps ==
  ASSUME IInv, NEW p \in Providers, NEW op, NEW s \in Source,
         EditSource(op, p, s)
  PROVE  IInv'
  <1>1. TypeOK'
    BY EnvType DEF IInv, TypeOK, EditSource, local
  <1>2. Snapshots' /\ Strings' /\ Separated'
    BY DEF IInv, Snapshots, Faithful, Strings, Separated, EditSource, local, Separate
  <1>3. QED
    BY <1>1, <1>2 DEF IInv

LEMMA EditSecretKeeps ==
  ASSUME IInv, NEW op, NEW s \in Secret, EditSecret(op, s)
  PROVE  IInv'
  <1>1. PutSecret(s)
    BY DEF EditSecret
  <1> USE <1>1, PutKeeps
  <1>2. TypeOK'
    BY EnvType DEF IInv, TypeOK, EditSecret
  <1>3. Snapshots'
    BY DEF IInv
  <1>4. Strings' /\ Separated'
    BY DEF IInv, Strings, Separated, EditSecret, Separate
  <1>5. QED
    BY <1>2, <1>3, <1>4 DEF IInv

LEMMA UsersKeep ==
  ASSUME IInv, NEW p \in Providers,
         \/ SetVariable(p) \/ SetCredentials(p)
         \/ RotateSource(p) \/ LoseSource(p) \/ FindSource(p)
  PROVE  IInv'
  <1>1. /\ provider[p] \in CAPIProvider /\ Separate(provider[p])
        /\ source[p] \in Source /\ secret \in Secret
    BY DEF IInv, TypeOK, Separated
  <1>2. CASE SetVariable(p)
    <2>1. PICK k \in VariableKeys, v \in Values \cup {NoKey} :
            EditProvider("variables", p, [provider[p] EXCEPT !.variables[k] = v])
      BY <1>2 DEF SetVariable
    <2>2. [provider[p].variables EXCEPT ![k] = v] \in Input
      BY <1>1 DEF CAPIProvider, Input
    <2>3. k \notin UserKeys
      BY ProviderSecretSyncAssumption
    <2> DEFINE o == [provider[p] EXCEPT !.variables[k] = v]
    <2>4. o \in CAPIProvider
      BY <1>1, <2>2 DEF CAPIProvider
    <2>5. Separate(o)
      <3>1. o.variables = [provider[p].variables EXCEPT ![k] = v]
                /\ o.status = provider[p].status
        BY <1>1 DEF CAPIProvider
      <3> HIDE DEF o
      <3>2. \A j \in UserKeys : j # k
        BY <2>3
      <3>3. \A j \in UserKeys : j \in Keys /\ provider[p].variables \in Input
        BY <1>1 DEF CAPIProvider, Keys
      <3>4. QED
        BY <1>1, <3>1, <3>2, <3>3 DEF Separate, Input
    <2>6. QED
      BY <2>1, <2>4, <2>5, EditProviderKeeps
  <1>3. CASE SetCredentials(p)
    <2> DEFINE o == [provider[p] EXCEPT !.credentials = ~@]
    <2>1. o \in CAPIProvider /\ Separate(o)
      BY <1>1 DEF CAPIProvider, Separate
    <2>2. QED
      BY <1>3, <2>1, EditProviderKeeps DEF SetCredentials
  <1>4. CASE RotateSource(p)
    <2>1. PICK k \in MappedKeys, v \in Values \cup {NoKey} :
            EditSource("rotate", p, [source[p] EXCEPT !.data[k] = v])
      BY <1>4 DEF RotateSource
    <2>2. [source[p].data EXCEPT ![k] = v] \in Input
      BY <1>1 DEF Source, Input
    <2>3. [source[p] EXCEPT !.data[k] = v] \in Source
      BY <1>1, <2>2 DEF Source
    <2>4. QED
      BY <2>1, <2>3, EditSourceKeeps
  <1>5. CASE LoseSource(p)
    BY <1>5, EmptyTypes, EditSourceKeeps DEF LoseSource
  <1>6. CASE FindSource(p)
    <2>1. PICK v \in Values : EditSource("find", p, [ex |-> TRUE, data |->
            [k \in Keys |-> IF k \in MappedKeys THEN v ELSE NoKey]])
      BY <1>6 DEF FindSource
    <2>2. [k \in Keys |-> IF k \in MappedKeys THEN v ELSE NoKey] \in Input
      BY DEF Input
    <2>3. [ex |-> TRUE, data |->
             [k \in Keys |-> IF k \in MappedKeys THEN v ELSE NoKey]] \in Source
      BY <2>2 DEF Source
    <2>4. QED
      BY <2>1, <2>3, EditSourceKeeps
  <1>7. QED
    BY <1>2, <1>3, <1>4, <1>5, <1>6

LEMMA SecretUsersKeep ==
  ASSUME IInv, SetUserKey \/ CreateSecret \/ DeleteSecret
  PROVE  IInv'
  <1>1. secret \in Secret
    BY DEF IInv, TypeOK
  <1>2. CASE SetUserKey
    <2>1. PICK k \in UserKeys, v \in Values \cup {NoKey} :
            EditSecret("userKey", [secret EXCEPT !.data[k] = v])
      BY <1>2 DEF SetUserKey
    <2>2. [secret.data EXCEPT ![k] = v] \in Content
      BY <1>1 DEF Secret, Content
    <2>3. [secret EXCEPT !.data[k] = v] \in Secret
      BY <1>1, <2>2 DEF Secret
    <2>4. QED
      BY <2>1, <2>3, EditSecretKeeps
  <1>3. CASE CreateSecret
    <2>1. \A w \in Values : UserSecret(w) \in Secret
      BY DEF UserSecret, Secret, Content
    <2>2. QED
      BY <1>3, <2>1, EditSecretKeeps DEF CreateSecret
  <1>4. CASE DeleteSecret
    BY <1>4, EmptyTypes, EditSecretKeeps DEF DeleteSecret
  <1>5. QED
    BY <1>2, <1>3, <1>4

LEMMA RestartKeeps == ASSUME IInv, Restart PROVE IInv'
  <1> USE EmptyTypes
  <1>1. TypeOK'
    BY EnvType DEF IInv, TypeOK, Restart, Steps
  <1>2. Snapshots' /\ Separated'
    BY DEF IInv, Snapshots, Faithful, Separated, Restart, Separate
  <1>3. \A k \in UserKeys : NoContent[k] = NoKey
    BY DEF NoContent, Keys
  <1>4. Strings'
    BY <1>3 DEF Strings, Restart
  <1>5. QED
    BY <1>1, <1>2, <1>4 DEF IInv

LEMMA StartKeeps ==
  ASSUME IInv, NEW p \in Providers, Start(p) PROVE IInv'
  <1>1. /\ providerCache[p] \in CAPIProvider /\ Separate(providerCache[p])
        /\ base' = providerCache[p] /\ c' = SetVariables(providerCache[p])
    BY DEF IInv, TypeOK, Separated, Start
  <1>2. c' \in CAPIProvider /\ Separate(c')
    BY <1>1, VariablesSet
  <1>3. TypeOK'
    BY <1>1, <1>2 DEF IInv, TypeOK, Start, Steps
  <1>4. Snapshots' /\ Strings'
    BY DEF IInv, Snapshots, Faithful, Strings, Start
  <1>5. Separated'
    BY <1>1, <1>2 DEF IInv, Separated, Start, Separate
  <1>6. QED
    BY <1>3, <1>4, <1>5 DEF IInv

LEMMA GetVariablesKeeps == ASSUME IInv, GetVariables PROVE IInv'
  <1> USE EmptyTypes
  <1>1. c.status \in Input /\ c.status \in Content
    BY InputIsContent DEF IInv, TypeOK, CAPIProvider
  <1>2. \A k \in UserKeys : c.status[k] = NoKey /\ NoContent[k] = NoKey
    BY DEF IInv, Separated, Separate, NoContent, Keys
  <1>3. /\ d1' \in Destination /\ Faithful(d1)'
        /\ d1'.stringData \in Input
        /\ \A k \in UserKeys : d1'.stringData[k] = NoKey
    <2>1. CASE d1' = Read(c.status)
      <3>1. d1' \in Destination /\ Faithful(Read(c.status)) /\ d1'.stringData = c.status
        BY <2>1, <1>1, ReadKeeps DEF IInv
      <3>2. secret' = secret
        BY DEF GetVariables
      <3>3. QED
        BY <3>1, <3>2, <2>1, <1>1, <1>2 DEF Faithful
    <2>2. CASE d1' = NoDestination
      BY <2>2, <1>2 DEF Faithful
    <2>3. QED
      BY <2>1, <2>2 DEF GetVariables
  <1>4. TypeOK'
    BY <1>3, EnvType DEF IInv, TypeOK, GetVariables, Steps, AfterGet
  <1>5. Snapshots' /\ Separated'
    BY <1>3 DEF IInv, Snapshots, Faithful, Separated, GetVariables, Separate
  <1>6. Strings'
    BY <1>3 DEF Strings, GetVariables, AfterGet
  <1>7. QED
    BY <1>4, <1>5, <1>6 DEF IInv

LEMMA GetSourceKeeps == ASSUME IInv, GetSource PROVE IInv'
  <1>1. me \in Providers /\ source[me] \in Source
    BY DEF IInv, TypeOK, GetSource
  <1>2. c' \in CAPIProvider /\ Separate(c')
    <2>1. Condition(NoSource) \in Conditions
      BY ConditionType
    <2>2. CASE c' = c
      BY <2>2 DEF IInv, TypeOK, Separated, Separate
    <2>3. CASE c' = [c EXCEPT !.cond = Condition(NoSource)]
      BY <2>1, <2>3 DEF IInv, TypeOK, CAPIProvider, Separated, Separate
    <2>4. QED
      BY <2>2, <2>3 DEF GetSource
  <1>3. TypeOK'
    BY <1>1, <1>2, EnvType DEF IInv, TypeOK, GetSource, Steps
  <1>4. Snapshots' /\ Separated'
    BY <1>2 DEF IInv, Snapshots, Faithful, Separated, GetSource, Separate
  <1>5. Strings'
    BY DEF IInv, Strings, GetSource, NotFound
  <1>6. QED
    BY <1>3, <1>4, <1>5 DEF IInv

LEMMA GetMappedKeeps == ASSUME IInv, GetMapped PROVE IInv'
  <1> USE EmptyTypes
  <1>1. Into(found) \in Content /\ found.ex
    BY IntoContent DEF IInv, TypeOK, Strings, GetMapped
  <1>2. /\ d2' \in Destination /\ Faithful(d2)'
        /\ ~err' => d2'.stringData = Into(found)
    <2>1. CASE d2' = Read(Into(found))
      <3>1. /\ d2' \in Destination /\ Faithful(Read(Into(found)))
            /\ d2'.stringData = Into(found)
        BY <2>1, <1>1, ReadKeeps DEF IInv
      <3>2. secret' = secret
        BY DEF GetMapped
      <3>3. QED
        BY <3>1, <3>2, <2>1 DEF Faithful
    <2>2. CASE d2' = NoDestination /\ err' = TRUE
      BY <2>2 DEF Faithful
    <2>3. QED
      BY <2>1, <2>2 DEF GetMapped
  <1>3. c' \in CAPIProvider /\ Separate(c')
    <2>1. Condition(found) \in Conditions
      BY ConditionType
    <2>2. c' = [c EXCEPT !.cond = Condition(found)]
      BY DEF GetMapped
    <2>3. QED
      BY <2>1, <2>2 DEF IInv, TypeOK, CAPIProvider, Separated, Separate
  <1>4. TypeOK'
    BY <1>2, <1>3, EnvType DEF IInv, TypeOK, GetMapped, Steps, AfterGet
  <1>5. Snapshots' /\ Separated'
    BY <1>2, <1>3 DEF IInv, Snapshots, Faithful, Separated, GetMapped, Separate
  <1>6. Strings'
    <2>1. found' = found /\ d1' = d1 /\ pc' \in {"patch", "applyVariables"}
      BY DEF GetMapped, AfterGet
    <2>2. pc' = "applyVariables" => ~err'
      BY DEF GetMapped, AfterGet
    <2>3. Into(found)' = Into(found)
      BY <2>1 DEF Into
    <2>4. QED
      BY <1>1, <1>2, <2>1, <2>2, <2>3 DEF IInv, Strings
  <1>7. QED
    BY <1>4, <1>5, <1>6 DEF IInv

\* What either synchronizer writes is a secret.
LEMMA ApplyType ==
  ASSUME IInv, NEW d \in Destination, me \in Providers
  PROVE  [ex |-> TRUE, owner |-> me, data |-> Overlay(d.data, d.stringData)]
           \in Secret
  <1>1. d.data \in Content /\ d.stringData \in Content
    BY DEF Destination
  <1>2. Overlay(d.data, d.stringData) \in Content
    BY <1>1, OverlayContent
  <1>3. QED
    BY <1>2 DEF Secret

LEMMA ApplyKeeps ==
  ASSUME IInv, ApplyVariables \/ ApplyMapped PROVE IInv'
  <1>1. me \in Providers /\ d1 \in Destination /\ d2 \in Destination
    BY DEF IInv, TypeOK, ApplyVariables, ApplyMapped
  <1>4. /\ secret' \in Secret /\ notify' \in BOOLEAN
        /\ d1' \in Destination /\ d2' \in Destination
        /\ Snapshots'
        /\ d1'.stringData = d1.stringData /\ d2'.stringData = d2.stringData
    <2>1. CASE Apply(d1) \/ Apply(d2)
      <3>1. PICK s \in Secret : PutSecret(s)
        BY <1>1, <2>1, ApplyType DEF Apply
      <3>2. QED
        BY <3>1, PutKeeps DEF IInv
    <2>2. CASE UNCHANGED <<secret, notify, d1, d2>>
      BY <1>1, <2>2 DEF IInv, TypeOK, Snapshots, Faithful
    <2>3. QED
      BY <2>1, <2>2 DEF ApplyVariables, ApplyMapped
  <1>5. TypeOK'
    BY <1>4, EnvType DEF IInv, TypeOK, ApplyVariables, ApplyMapped, Steps
  <1>6. Separated'
    BY DEF IInv, Separated, ApplyVariables, ApplyMapped, Separate
  <1>7. Strings'
    <2>1. found' = found /\ c' = c
      BY DEF ApplyVariables, ApplyMapped
    <2>2. Into(found)' = Into(found)
      BY <2>1 DEF Into
    <2>3. QED
      BY <1>4, <2>1, <2>2 DEF IInv, Strings, ApplyVariables, ApplyMapped
  <1>8. QED
    BY <1>4, <1>5, <1>6, <1>7 DEF IInv

LEMMA PatchStatusKeeps == ASSUME IInv, PatchStatus PROVE IInv'
  <1> USE EmptyTypes
  <1> DEFINE diff == [k \in Keys |-> IF c.status[k] = base.status[k]
                                      THEN NoKey ELSE c.status[k]]
             new == Overlay(provider[me].status, diff)
  <1>1. /\ me \in Providers /\ provider[me] \in CAPIProvider
        /\ c.status \in Input /\ provider[me].status \in Input
        /\ c.cond \in Conditions
    BY DEF IInv, TypeOK, PatchStatus, CAPIProvider
  <1>2. diff \in Input
    BY <1>1 DEF Input
  <1>3. new \in Input
    BY <1>1, <1>2, OverlayInput
  <1>4. \A k \in UserKeys : new[k] = NoKey
    <2>1. \A k \in UserKeys : /\ c.status[k] = NoKey /\ k \in Keys
                             /\ provider[me].status[k] = NoKey
      BY <1>1 DEF IInv, Separated, Separate, Keys
    <2>2. \A k \in UserKeys : diff[k] = NoKey
      BY <2>1
    <2>3. QED
      BY <2>1, <2>2 DEF Overlay
  <1>5. ASSUME NEW p \in Providers
        PROVE  provider'[p] \in CAPIProvider /\ Separate(provider'[p])
    <2>1. CASE provider'[p] = provider[p]
      BY <2>1 DEF IInv, TypeOK, Separated, Separate
    <2>2. CASE p = me /\ provider' = [provider EXCEPT ![me].status = new,
                 ![me].cond = IF c.cond = base.cond THEN @ ELSE c.cond]
      <3> DEFINE o == provider[me]
      <3>1. provider \in [Providers -> CAPIProvider]
        BY DEF IInv, TypeOK
      <3>2. provider'[p] = [o EXCEPT !.status = new,
                             !.cond = IF c.cond = base.cond THEN @ ELSE c.cond]
        BY <1>1, <2>2, <3>1
      <3>3. \A k \in UserKeys : o.variables[k] = NoKey
        BY <1>1 DEF IInv, Separated, Separate
      <3> HIDE DEF new
      <3>4. QED
        BY <1>1, <1>3, <1>4, <3>2, <3>3 DEF CAPIProvider, Separate
    <2>3. QED
      BY <1>1, <2>1, <2>2 DEF PatchStatus, IInv, TypeOK
  <1>6. provider' \in [Providers -> CAPIProvider]
    <2>1. DOMAIN provider' = Providers
              /\ provider' = [p \in Providers |-> provider'[p]]
      BY DEF PatchStatus, IInv, TypeOK
    <2>2. QED
      BY <1>5, <2>1
  <1>7. TypeOK'
    BY <1>1, <1>6, EnvType DEF IInv, TypeOK, PatchStatus, Steps
  <1>8. Snapshots' /\ Separated'
    BY <1>5 DEF IInv, Snapshots, Faithful, Separated, PatchStatus, Separate
  <1>9. Strings'
    <2>1. \A k \in UserKeys : NoContent[k] = NoKey
      BY DEF NoContent, Keys
    <2>2. QED
      BY <2>1 DEF Strings, PatchStatus
  <1>10. QED
    BY <1>7, <1>8, <1>9 DEF IInv

LEMMA IInvStep == IInv /\ [Next]_vars => IInv'
  <1> SUFFICES ASSUME IInv, [Next]_vars PROVE IInv'
    OBVIOUS
  <1>1. CASE SyncStep
    BY <1>1, StartKeeps, GetVariablesKeeps, GetSourceKeeps, GetMappedKeeps,
       ApplyKeeps, PatchStatusKeeps DEF SyncStep
  <1>2. CASE Restart
    BY <1>2, RestartKeeps
  <1>3. CASE UNCHANGED vars
    <2>1. TypeOK'
      BY <1>3 DEF IInv, TypeOK, vars
    <2>2. QED
      BY <1>3, <2>1 DEF IInv, Snapshots, Faithful, Separated, Strings, vars, Separate,
         Into
  <1>4. CASE \E p \in Providers :
               \/ DeliverProvider(p) \/ Resync(p) \/ SetVariable(p)
               \/ SetCredentials(p) \/ RotateSource(p) \/ LoseSource(p)
               \/ FindSource(p)
    BY <1>4, WatchKeeps, UsersKeep
  <1>5. CASE DeliverSecret
    BY <1>5 DEF IInv, TypeOK, Snapshots, Faithful, Separated, Strings, DeliverSecret,
       local, Separate
  <1>6. CASE SetUserKey \/ CreateSecret \/ DeleteSecret
    BY <1>6, SecretUsersKeep
  <1>7. QED
    BY <1>1, <1>2, <1>3, <1>4, <1>5, <1>6 DEF Next

-----------------------------------------------------------------------------
(***************************************************************************)
(* Theorems.                                                               *)
(***************************************************************************)

\* Every variable keeps its type, and a reconcile always has a provider.
THEOREM TypeCorrect == Spec => []TypeOK
  <1>1. IInv => TypeOK
    BY DEF IInv
  <1>2. QED
    BY IInvInit, IInvStep, <1>1, PTL DEF Spec

\* Neither synchronizer undoes a user's edit of the secret it read: the version
\* it read is the one it replaces, and it writes no key of the users.
THEOREM UserKeysSafety == Spec => UserKeysKept
  <1>1. ASSUME IInv, NEW k \in UserKeys, NEW d \in Destination,
               d \in {d1, d2}, d.version # "none", Accepts(d), Apply(d),
               d.stringData[k] = NoKey
        PROVE  secret'.data[k] = secret.data[k]
    <2>1. d.version = "current"
      BY <1>1 DEF Accepts, Destination
    <2>2. d.data = secret.data
      BY <1>1, <2>1 DEF IInv, Snapshots, Faithful
    <2>3. me \in Providers \cup {Nobody} /\ k \in Keys
      BY <1>1 DEF IInv, TypeOK, Keys
    <2>4. secret' = [ex |-> TRUE, owner |-> me, data |-> Overlay(d.data, d.stringData)]
      BY <1>1 DEF Apply, PutSecret
    <2>5. Overlay(d.data, d.stringData)[k] = d.data[k]
      BY <1>1, <2>3 DEF Overlay
    <2>6. QED
      BY <2>2, <2>4, <2>5
  <1>2. ASSUME IInv, [Next]_vars,
               Applying(ApplyVariables, d1) \/ Applying(ApplyMapped, d2),
               NEW k \in UserKeys
        PROVE  secret'.data[k] = secret.data[k]
    <2>1. CASE Applying(ApplyVariables, d1)
      <3>1. d1 \in Destination /\ d1.stringData[k] = NoKey
        BY <1>2 DEF IInv, TypeOK, Strings
      <3>2. secret' = secret \/ (Accepts(d1) /\ Apply(d1))
        BY <2>1 DEF Applying, ApplyVariables
      <3>3. QED
        BY <1>1, <1>2, <2>1, <3>1, <3>2 DEF Applying
    <2>2. CASE Applying(ApplyMapped, d2)
      <3>1. d2 \in Destination /\ d2.stringData = Into(found) /\ found \in Source
        BY <1>2, <2>2 DEF IInv, TypeOK, Strings, Applying, ApplyMapped
      <3>2. d2.stringData[k] = NoKey
        BY <3>1, IntoContent
      <3>3. secret' = secret \/ (Accepts(d2) /\ Apply(d2))
        BY <2>2 DEF Applying, ApplyMapped
      <3>4. QED
        BY <1>1, <1>2, <2>2, <3>1, <3>2, <3>3 DEF Applying
    <2>3. QED
      BY <1>2, <2>1, <2>2
  <1>3. IInv /\ [Next]_vars =>
          [Applying(ApplyVariables, d1) \/ Applying(ApplyMapped, d2)
             => \A k \in UserKeys : secret'.data[k] = secret.data[k]]_vars
    BY <1>2
  <1>4. QED
    BY IInvInit, IInvStep, <1>3, PTL DEF Spec, UserKeysKept

\* A reconcile empties a mapped key only after it found the credential without
\* what the key is made from.
THEOREM SourceLossSafety == Spec => SourceLossKeepsKeys
  <1> DEFINE Emptied(k) == secret'.data[k] = Empty /\ secret.data[k] # Empty
  <1>1. ASSUME IInv, NEW k \in MappedKeys, Emptied(k), ApplyVariables
        PROVE  FALSE
    <2>1. Accepts(d1) /\ Apply(d1)
      BY <1>1 DEF ApplyVariables
    <2>2. secret'.data = Overlay(d1.data, d1.stringData) \/ secret' = secret
      BY <2>1 DEF Apply, PutSecret
    <2>3. k \in Keys /\ d1.stringData[k] # Empty
      BY <1>1, ProviderSecretSyncAssumption DEF IInv, Strings, Input, Keys
    <2>4. d1.data[k] = Empty
      BY <1>1, <2>2, <2>3 DEF Overlay
    <2>5. d1.version \in {"none", "current"}
      BY <1>1, <2>1 DEF Accepts, IInv, TypeOK, Destination
    <2>6. NoContent[k] # Empty
      BY <2>3, ProviderSecretSyncAssumption DEF NoContent
    <2>7. QED
      BY <1>1, <2>4, <2>5, <2>6 DEF IInv, Snapshots, Faithful
  <1>2. ASSUME IInv, NEW k \in MappedKeys, Emptied(k), ApplyMapped
        PROVE  found.ex /\ found.data[k] = NoKey
    <2>1. /\ found \in Source /\ found.ex
          /\ d2.stringData = Into(found) /\ k \in Keys
      BY <1>2 DEF IInv, TypeOK, Strings, ApplyMapped, Keys
    <2>2. secret'.data = Overlay(d2.data, Into(found))
      BY <1>2, <2>1 DEF ApplyMapped, Apply, PutSecret
    <2>3. Into(found)[k] # NoKey
      BY <2>1, IntoContent
    <2>4. Into(found)[k] = Empty
      BY <1>2, <2>1, <2>2, <2>3 DEF Overlay
    <2>5. QED
      BY <2>1, <2>4, IntoContent
  <1>3. ASSUME IInv, NEW k \in MappedKeys, Emptied(k),
               NEW op, NEW s \in Secret, EditSecret(op, s)
        PROVE  s.data[k] = Empty
    BY <1>3 DEF EditSecret, PutSecret
  <1>4. ASSUME IInv, NEW k \in MappedKeys, Emptied(k),
               SetUserKey \/ CreateSecret \/ DeleteSecret
        PROVE  FALSE
    <2>1. k \in Keys /\ k \notin UserKeys /\ secret \in Secret
      BY <1>4, ProviderSecretSyncAssumption DEF IInv, TypeOK, Keys
    <2>2. CASE SetUserKey
      <3>1. PICK j \in UserKeys, v \in Values \cup {NoKey} :
              EditSecret("userKey", [secret EXCEPT !.data[j] = v])
        BY <2>2 DEF SetUserKey
      <3>2. [secret EXCEPT !.data[j] = v].data[k] = secret.data[k]
        BY <2>1 DEF Secret, Content
      <3>3. secret' = [secret EXCEPT !.data[j] = v] \/ secret' = secret
        BY <3>1 DEF EditSecret, PutSecret
      <3>4. QED
        BY <1>4, <3>2, <3>3
    <2>3. CASE CreateSecret
      <3>1. PICK v \in Values : EditSecret("create", UserSecret(v))
        BY <2>3 DEF CreateSecret
      <3>2. UserSecret(v) \in Secret /\ UserSecret(v).data[k] = NoKey
        BY <2>1 DEF UserSecret, Secret, Content
      <3>3. QED
        BY <1>3, <1>4, <3>1, <3>2, ProviderSecretSyncAssumption
    <2>4. CASE DeleteSecret
      <3>1. NoSecret.data[k] = NoKey
        BY <2>1 DEF NoSecret, NoContent
      <3>2. QED
        BY <1>3, <1>4, <2>4, <3>1, EmptyTypes, ProviderSecretSyncAssumption
           DEF DeleteSecret
    <2>5. QED
      BY <1>4, <2>2, <2>3, <2>4
  <1>5. ASSUME IInv, [Next]_vars, NEW k \in MappedKeys, Emptied(k)
        PROVE  found.ex /\ found.data[k] = NoKey
    <2>1. \/ ApplyVariables \/ ApplyMapped
          \/ SetUserKey \/ CreateSecret \/ DeleteSecret
          \/ secret' = secret
      BY <1>5 DEF Next, SyncStep, Start, GetVariables, GetSource, GetMapped,
         PatchStatus, DeliverProvider, DeliverSecret, Resync, SetVariable,
         SetCredentials, EditProvider, RotateSource, LoseSource, FindSource,
         EditSource, Restart, vars
    <2>2. QED
      BY <1>1, <1>2, <1>4, <1>5, <2>1
  <1>6. IInv /\ [Next]_vars =>
          [\A k \in MappedKeys : secret'.data[k] = Empty /\ secret.data[k] # Empty
             => found.ex /\ found.data[k] = NoKey]_vars
    BY <1>5
  <1>7. QED
    BY IInvInit, IInvStep, <1>6, PTL DEF Spec, SourceLossKeepsKeys

-----------------------------------------------------------------------------
(***************************************************************************)
(* Rest: a secret that holds what it should is not written any more.       *)
(***************************************************************************)
\* All of a CAPIProvider but the condition.
Same(o, other) ==
  /\ o.variables = other.variables
  /\ o.credentials = other.credentials
  /\ o.status = other.status

\* The secret holds what provider p would have written into it.
Written(p) ==
  /\ secret.ex /\ secret.owner = p
  /\ Overlay(provider[p].status, provider[p].variables) = provider[p].status
  /\ \A k \in Keys : provider[p].status[k] # NoKey
                       => secret.data[k] = provider[p].status[k]
  /\ provider[p].credentials /\ source[p].ex
       => \A k \in MappedKeys : secret.data[k] = Into(source[p])[k]

\* A Reconcile that is on its way has read what is there now.
Underway ==
  /\ Same(c, provider[me]) /\ Same(base, provider[me])
  /\ pc \in {"getMapped", "applyVariables", "applyMapped"} /\ c.credentials
       => found = source[me]
  /\ pc \in {"getSource", "getMapped", "applyVariables"} /\ ~err
       => d1.version # "none" /\ d1.stringData = c.status
  /\ pc = "applyVariables" => ~err
  /\ pc \in {"applyVariables", "applyMapped"} /\ c.credentials
       => d2.version # "none"
  /\ pc = "applyMapped" => c.credentials

AllWritten == \A p \in Providers : Same(providerCache[p], provider[p]) /\ Written(p)
Resting == AllWritten /\ (pc # "idle" => Underway)

NobodyEdits ==
  /\ UNCHANGED source
  /\ \A p \in Providers : ~SetVariable(p) /\ ~SetCredentials(p)
  /\ ~SetUserKey /\ ~CreateSecret /\ ~DeleteSecret

RestLasts == [][Resting /\ NobodyEdits => Resting' /\ UNCHANGED secret]_vars

\* A change of the condition alone, and the delivery of it, take nothing back.
LEMMA AllWrittenLasts ==
  ASSUME AllWritten, UNCHANGED <<secret, source>>,
         \A p \in Providers : /\ Same(provider'[p], provider[p])
                              /\ \/ providerCache'[p] = providerCache[p]
                                 \/ Same(providerCache'[p], provider[p])
  PROVE  AllWritten'
  <1> SUFFICES ASSUME NEW p \in Providers
               PROVE  (Same(providerCache[p], provider[p]) /\ Written(p))'
    BY DEF AllWritten
  <1>1. Same(providerCache'[p], provider'[p])
    BY DEF AllWritten, Same
  <1>2. Written(p)'
    BY DEF AllWritten, Written, Same, Into, Overlay
  <1>3. QED
    BY <1>1, <1>2 DEF Same

\* Writing over a secret what it says already writes nothing.
LEMMA Idempotent ==
  ASSUME TypeOK, secret.ex, secret.owner = me,
         NEW d \in Destination, Faithful(d), d.version # "none", Accepts(d), Apply(d),
         \A k \in Keys : d.stringData[k] # NoKey => secret.data[k] = d.stringData[k]
  PROVE  UNCHANGED <<secret, notify, d1, d2>>
  <1>1. secret \in Secret /\ d.data = secret.data
    BY DEF TypeOK, Faithful, Accepts, Destination
  <1>2. secret.data = [k \in Keys |-> secret.data[k]]
    BY <1>1 DEF Secret, Content
  <1>3. Overlay(d.data, d.stringData) = secret.data
    BY <1>1, <1>2 DEF Overlay
  <1>4. [ex |-> TRUE, owner |-> me, data |-> Overlay(d.data, d.stringData)] = secret
    BY <1>1, <1>3 DEF Secret
  <1>5. QED
    BY <1>4 DEF Apply, PutSecret

LEMMA StartRests == IInv /\ Resting /\ (\E p \in Providers : Start(p)) => Resting'
  <1> SUFFICES ASSUME IInv, Resting, NEW p \in Providers, Start(p) PROVE Resting'
    OBVIOUS
  <1>1. /\ UNCHANGED <<provider, providerCache, source, secret>>
        /\ me' = p /\ base' = providerCache[p] /\ c' = SetVariables(providerCache[p])
        /\ pc' = "getVariables"
    BY DEF Start
  <1>2. AllWritten'
    BY <1>1, AllWrittenLasts DEF Resting, Same
  <1>3. /\ Same(providerCache[p], provider[p])
        /\ Overlay(provider[p].status, provider[p].variables) = provider[p].status
        /\ providerCache[p] \in CAPIProvider
    BY DEF Resting, AllWritten, Written, IInv, TypeOK
  <1>4. Same(c', provider[p]) /\ Same(base', provider[p])
    BY <1>1, <1>3 DEF SetVariables, Same, CAPIProvider
  <1>5. Underway'
    BY <1>1, <1>4 DEF Underway, Same
  <1>6. QED
    BY <1>2, <1>5 DEF Resting

LEMMA GetsRest ==
  IInv /\ Resting /\ (GetVariables \/ GetSource \/ GetMapped) => Resting'
  <1> SUFFICES ASSUME IInv, Resting, GetVariables \/ GetSource \/ GetMapped
               PROVE  Resting'
    OBVIOUS
  <1>1. UNCHANGED <<provider, providerCache, source, secret, me, base>>
    BY DEF GetVariables, GetSource, GetMapped
  <1>2. AllWritten'
    BY <1>1, AllWrittenLasts DEF Resting, Same
  <1>3. me \in Providers /\ c \in CAPIProvider /\ secret.ex /\ Underway
    BY DEF IInv, TypeOK, Resting, AllWritten, Written, GetVariables, GetSource, GetMapped
  <1>4. Same(c', provider'[me']) /\ Same(base', provider'[me']) /\ c'.credentials = c.credentials
        /\ c'.status = c.status
    BY <1>1, <1>3 DEF Underway, Same, CAPIProvider, GetVariables, GetSource, GetMapped
  <1>5. \A t : Read(t).version # "none" /\ Read(t).stringData = t
    BY <1>3 DEF Read
  <1>6. CASE GetVariables
    <2>1. \/ d1' = Read(c.status) /\ UNCHANGED err
          \/ err' = TRUE
      BY <1>6 DEF GetVariables
    <2>2. /\ pc' = IF c.credentials THEN "getSource"
                   ELSE IF err' THEN "patch" ELSE "applyVariables"
          /\ UNCHANGED c
      BY <1>6 DEF GetVariables, AfterGet
    <2>3. QED
      BY <1>2, <1>4, <1>5, <2>1, <2>2 DEF Underway, Resting
  <1>7. CASE GetSource
    <2>1. /\ pc' \in {"getMapped", "patch"} /\ UNCHANGED d1
          /\ pc' = "getMapped" => found' = source[me] /\ UNCHANGED <<err, c>>
      BY <1>7 DEF GetSource
    <2>2. pc = "getSource"
      BY <1>7 DEF GetSource
    <2>3. QED
      BY <1>1, <1>2, <1>3, <1>4, <2>1, <2>2 DEF Underway, Resting
  <1>8. CASE GetMapped
    <2>1. /\ pc = "getMapped" /\ pc' = AfterGet(err') /\ UNCHANGED <<found, d1>>
          /\ \/ d2' = Read(Into(found)) /\ UNCHANGED err
             \/ err' = TRUE
      BY <1>8 DEF GetMapped
    <2>2. /\ pc' \in {"patch", "applyVariables"}
          /\ pc' = "applyVariables" => ~err' /\ UNCHANGED err /\ d2' = Read(Into(found))
      BY <2>1 DEF AfterGet
    <2>3. QED
      BY <1>1, <1>2, <1>3, <1>4, <1>5, <2>1, <2>2 DEF Underway, Resting
  <1>9. QED
    BY <1>6, <1>7, <1>8

LEMMA AppliesRest ==
  IInv /\ Resting /\ (ApplyVariables \/ ApplyMapped) => Resting' /\ UNCHANGED secret
  <1> SUFFICES ASSUME IInv, Resting, ApplyVariables \/ ApplyMapped
               PROVE  Resting' /\ UNCHANGED secret
    OBVIOUS
  <1>1. UNCHANGED <<provider, providerCache, source, me, base, c, found>>
    BY DEF ApplyVariables, ApplyMapped
  <1>2. /\ me \in Providers /\ Underway /\ Written(me)
        /\ TypeOK /\ d1 \in Destination /\ d2 \in Destination
        /\ Faithful(d1) /\ Faithful(d2)
    BY DEF IInv, TypeOK, Snapshots, Resting, AllWritten, ApplyVariables, ApplyMapped
  <1>3. CASE ApplyVariables
    <2>1. /\ d1.version # "none"
          /\ \A k \in Keys : d1.stringData[k] # NoKey
                               => secret.data[k] = d1.stringData[k]
      BY <1>2, <1>3 DEF ApplyVariables, Underway, Written, Same
    <2>2. UNCHANGED <<secret, d1, d2>>
      BY <1>2, <1>3, <2>1, Idempotent DEF ApplyVariables, Written
    <2>3. pc = "applyVariables" /\ pc' = IF c.credentials THEN "applyMapped" ELSE "patch"
      BY <1>3 DEF ApplyVariables
    <2>4. AllWritten'
      BY <1>1, <2>2, AllWrittenLasts DEF Resting, Same
    <2>5. Underway'
      BY <1>1, <1>2, <2>2, <2>3 DEF Underway, Same
    <2>6. QED
      BY <2>2, <2>4, <2>5 DEF Resting
  <1>4. CASE ApplyMapped
    <2>1. pc = "applyMapped" /\ pc' = "patch"
      BY <1>4 DEF ApplyMapped
    <2>2. /\ found.ex /\ d2.stringData = Into(found)
      BY <2>1 DEF IInv, Strings
    <2>3. found = source[me] /\ d2.version # "none" /\ provider[me].credentials
      BY <1>2, <2>1 DEF Underway, Same
    <2>4. \A k \in MappedKeys : secret.data[k] = Into(found)[k]
      BY <1>2, <2>2, <2>3 DEF Written
    <2>5. \A k \in Keys : Into(found)[k] # NoKey => k \in MappedKeys
      BY DEF Into
    <2>6. UNCHANGED <<secret, d1, d2>>
      BY <1>2, <1>4, <2>2, <2>3, <2>4, <2>5, Idempotent DEF ApplyMapped, Written
    <2>7. AllWritten'
      BY <1>1, <2>6, AllWrittenLasts DEF Resting, Same
    <2>8. Underway'
      BY <1>1, <1>2, <2>1 DEF Underway, Same
    <2>9. QED
      BY <2>6, <2>7, <2>8 DEF Resting
  <1>5. QED
    BY <1>3, <1>4

LEMMA PatchRests == IInv /\ Resting /\ PatchStatus => Resting'
  <1> SUFFICES ASSUME IInv, Resting, PatchStatus PROVE Resting'
    OBVIOUS
  <1> DEFINE diff == [k \in Keys |-> IF c.status[k] = base.status[k]
                                      THEN NoKey ELSE c.status[k]]
  <1>1. /\ me \in Providers /\ provider \in [Providers -> CAPIProvider]
        /\ c.status = base.status
    BY DEF IInv, TypeOK, Resting, Underway, Same, PatchStatus
  <1>2. Overlay(provider[me].status, diff) = provider[me].status
    <2>1. provider[me].status \in Input
      BY <1>1 DEF CAPIProvider
    <2>2. QED
      BY <1>1, <2>1 DEF Overlay, Input
  <1>3. ASSUME NEW p \in Providers PROVE Same(provider'[p], provider[p])
    <2>1. CASE UNCHANGED provider
      BY <2>1 DEF Same
    <2>2. CASE p # me
      BY <1>1, <2>2 DEF PatchStatus, Same
    <2>3. CASE p = me /\ ~UNCHANGED provider
      <3>1. provider'[p] = [provider[p] EXCEPT
                    !.status = Overlay(@, diff),
                    !.cond = IF c.cond = base.cond THEN @ ELSE c.cond]
        BY <1>1, <2>3 DEF PatchStatus
      <3> HIDE DEF diff
      <3>2. QED
        BY <1>1, <1>2, <2>3, <3>1 DEF Same, CAPIProvider
    <2>4. QED
      BY <2>1, <2>2, <2>3
  <1>4. AllWritten'
    BY <1>3, AllWrittenLasts DEF PatchStatus, Resting
  <1>5. QED
    BY <1>4 DEF PatchStatus, Resting

LEMMA WatchRests ==
  /\ IInv /\ Resting
  /\ \/ \E p \in Providers : DeliverProvider(p) \/ Resync(p)
     \/ DeliverSecret \/ UNCHANGED vars
  => Resting'
  <1> SUFFICES ASSUME IInv, Resting,
                      \/ \E p \in Providers : DeliverProvider(p) \/ Resync(p)
                      \/ DeliverSecret \/ UNCHANGED vars
               PROVE  Resting'
    OBVIOUS
  <1>1. UNCHANGED <<provider, source, secret, pc, me, c, base, found, d1, d2, err>>
    BY DEF DeliverProvider, Resync, DeliverSecret, local, vars
  <1>2. \A p \in Providers : \/ providerCache'[p] = providerCache[p]
                             \/ providerCache'[p] = provider[p]
    BY DEF IInv, TypeOK, DeliverProvider, Resync, DeliverSecret, vars
  <1>3. AllWritten'
    BY <1>1, <1>2, AllWrittenLasts DEF Resting, Same
  <1>4. QED
    BY <1>1, <1>3 DEF Resting, Underway, Same

LEMMA RestartRests == Resting /\ Restart => Resting'
  <1> SUFFICES ASSUME Resting, Restart PROVE Resting'
    OBVIOUS
  <1>1. AllWritten'
    BY AllWrittenLasts DEF Restart, Resting, Same
  <1>2. QED
    BY <1>1 DEF Restart, Resting

\* What Settles waits for is rest: once the secret holds the variables and, where
\* the credential exists, the mapped keys, no Reconcile, failed call or restart
\* writes it again, until someone edits something.  The two synchronizers write
\* one after the other over Data the other one wrote (syncSecrets).
THEOREM RestSafety == Spec => RestLasts
  <1>1. ASSUME IInv, [Next]_vars, Resting, NobodyEdits
        PROVE  Resting' /\ UNCHANGED secret
    <2>1. CASE SyncStep
      <3>1. CASE ApplyVariables \/ ApplyMapped
        BY <1>1, <3>1, AppliesRest
      <3>2. CASE ~(ApplyVariables \/ ApplyMapped)
        <4>1. UNCHANGED secret
          BY <2>1, <3>2 DEF SyncStep, Start, GetVariables, GetSource, GetMapped,
             PatchStatus
        <4>2. Resting'
          BY <1>1, <2>1, <3>2, StartRests, GetsRest, PatchRests DEF SyncStep
        <4>3. QED
          BY <4>1, <4>2
      <3>3. QED
        BY <3>1, <3>2
    <2>2. CASE \/ \E p \in Providers : DeliverProvider(p) \/ Resync(p)
               \/ DeliverSecret \/ UNCHANGED vars
      BY <1>1, <2>2, WatchRests DEF DeliverProvider, Resync, DeliverSecret, vars
    <2>3. CASE Restart
      BY <1>1, <2>3, RestartRests DEF Restart
    <2>4. ASSUME NEW p \in Providers, RotateSource(p) \/ LoseSource(p) \/ FindSource(p)
          PROVE  FALSE
      <3>1. source \in [Providers -> Source] /\ source' = source
        BY <1>1 DEF IInv, TypeOK, NobodyEdits
      <3>2. CASE RotateSource(p)
        <4>1. PICK k \in MappedKeys, v \in Values \cup {NoKey} :
                /\ v # source[p].data[k]
                /\ source' = [source EXCEPT ![p] = [source[p] EXCEPT !.data[k] = v]]
          BY <3>2 DEF RotateSource, EditSource
        <4>2. k \in Keys /\ source[p].data \in Input
          BY <3>1 DEF Source, Keys
        <4>3. source'[p].data[k] = v
          BY <3>1, <4>1, <4>2 DEF Source, Input
        <4>4. QED
          BY <3>1, <4>1, <4>3
      <3>3. CASE LoseSource(p)
        BY <3>1, <3>3, EmptyTypes DEF LoseSource, EditSource
      <3>4. CASE FindSource(p)
        <4>1. PICK new : new.ex /\ source' = [source EXCEPT ![p] = new]
          BY <3>4 DEF FindSource, EditSource
        <4>2. QED
          BY <3>1, <3>4, <4>1 DEF FindSource
      <3>5. QED
        BY <2>4, <3>2, <3>3, <3>4
    <2>5. QED
      BY <1>1, <2>1, <2>2, <2>3, <2>4 DEF Next, NobodyEdits
  <1>2. IInv /\ [Next]_vars
          => [Resting /\ NobodyEdits => Resting' /\ UNCHANGED secret]_vars
    BY <1>1
  <1>3. QED
    BY IInvInit, IInvStep, <1>2, PTL DEF Spec, RestLasts
=============================================================================
