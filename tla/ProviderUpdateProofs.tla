-------------------------- MODULE ProviderUpdateProofs --------------------------
(***************************************************************************)
(* Proofs about ProviderUpdate, for any releases, configurations, users    *)
(* and versions: no provider is installed from the configuration of        *)
(* another release, no pinned version is raised, the overrides win, the    *)
(* types hold, and what has come to rest stays at rest.                    *)
(***************************************************************************)
EXTENDS ProviderUpdate, WellFoundedInduction, TLAPS

Inputs ==
  /\ release \in Releases
  /\ user \in Users \cup {None}
  /\ setting \in Settings
  /\ settingCache \in Settings

\* What may be installed: the release's own, or what a user wrote.
Clean(content) == OfRelease(content) \/ content = Edited

\* The configuration to be applied is the release's own.  Where the file is clean
\* so is the ConfigMap, and the file stays clean; it was clean when the
\* comparison said so, and until the installation.
Sources ==
  /\ computed # None => OfRelease(computed)
  /\ Clean(file) => configMap = None \/ Clean(configMap)
  /\ pc = "wait" /\ Clean(mounted) => Clean(file)
  /\ pc \in {"setSpec", "install"} => Clean(file)

\* The copy differs from what was read by the latest version alone.
Lowers(new, old) ==
  \/ new.version = old.version
  \/ new.version = Latest
  \/ old.version \in Semver /\ new.version <= old.version
Copies ==
  /\ pc \in {"readFile", "wait", "setSpec"} => p = base
  /\ pc \in {"install", "patch"} /\ ~base.auto => Lowers(p, base)

\* All three have the fields of a provider.
Shaped(o) ==
  /\ o = [ex |-> o.ex, del |-> o.del, fin |-> o.fin, key |-> o.key,
          version |-> o.version, auto |-> o.auto, check |-> o.check]
  /\ o.auto \in BOOLEAN
Shapes == Shaped(provider) /\ Shaped(p) /\ Shaped(base)

IInv == Inputs /\ Sources /\ Copies /\ Shapes

-----------------------------------------------------------------------------
(***************************************************************************)
(* Operators.                                                              *)
(***************************************************************************)
LEMMA ConfigIsOwn == Inputs /\ ~Fails => OfRelease(Config)
  <1> SUFFICES ASSUME Inputs, ~Fails PROVE OfRelease(Config)
    OBVIOUS
  <1> DEFINE x == <<release, user, settingCache>>
  <1>1. x \in Releases \X (Users \cup {None}) \X Settings
    BY DEF Inputs
  <1>2. x[1] = release /\ x[3] = settingCache
    OBVIOUS
  <1>3. x \in Computable
    BY <1>1, <1>2 DEF Computable, Fails
  <1>4. \E c \in Computations : c.from = x
    <2> DEFINE c == [from |-> x, config |-> ClusterConfig(x[1], x[2], x[3])]
    <2>1. c \in Computations
      <3> HIDE DEF x
      <3> QED
        BY <1>3 DEF Computations
    <2>2. c.from = x
      OBVIOUS
    <2> QED
      BY <2>1, <2>2
  <1> DEFINE chosen == CHOOSE c \in Computations : c.from = x
  <1>5. chosen \in Computations /\ chosen.from = x
    BY <1>4
  <1>6. Config = chosen.config
    BY DEF Config, ConfigOf
  <1> QED
    BY <1>2, <1>5, <1>6 DEF OfRelease

LEMMA RestShaped ==
  ASSUME NEW k
  PROVE  Shaped(NoProvider(k))
  BY DEF Shaped, NoProvider

\* SetLatestVersion leaves the version or takes the configured one, which without
\* automatic updates is at most the version asked for, or the word latest.
LEMMA SetLatestVersionLowers ==
  ASSUME NEW o, Shaped(o), NEW version, NEW known \in BOOLEAN
  PROVE  /\ Shaped(SetLatestVersion(o, version, known))
         /\ o.auto = FALSE => Lowers(SetLatestVersion(o, version, known), o)
  <1> DEFINE latest == IsLatestVersion(version, o.version)
  <1>1. latest \in BOOLEAN
    BY DEF IsLatestVersion
  <1>2. latest => version = Latest \/ (o.version \in Semver /\ version <= o.version)
    BY DEF IsLatestVersion
  <1>3. CASE ~known
    BY <1>3 DEF SetLatestVersion, Shaped, Lowers
  <1>4. CASE known /\ latest
    BY <1>2, <1>4 DEF SetLatestVersion, Shaped, Lowers
  <1>5. CASE known /\ ~latest /\ ~o.auto
    BY <1>5 DEF SetLatestVersion, Shaped, Lowers
  <1>6. CASE known /\ ~latest /\ o.auto
    BY <1>6 DEF SetLatestVersion, Shaped
  <1> QED
    BY <1>1, <1>3, <1>4, <1>5, <1>6 DEF Shaped

-----------------------------------------------------------------------------
(***************************************************************************)
(* Initial states and steps.                                               *)
(***************************************************************************)
LEMMA InitIInv == Init => IInv
  <1> SUFFICES ASSUME Init PROVE IInv
    OBVIOUS
  <1>1. Inputs
    BY DEF Init, Inputs, Settings
  <1>2. Sources
    BY DEF Init, Sources
  <1>3. Shaped(provider)
    <2>1. PICK a \in Asked :
            provider = [NoProvider(a.key) EXCEPT !.ex = TRUE, !.version = a.version,
                                                 !.auto = a.auto]
      BY DEF Init
    <2>2. a.auto \in BOOLEAN
      BY ProviderUpdateAssumption
    <2> QED
      BY <2>1, <2>2 DEF NoProvider, Shaped
  <1>4. Shapes /\ Copies
    BY <1>3, RestShaped DEF Init, Shapes, Rest, Copies
  <1> QED
    BY <1>1, <1>2, <1>4 DEF IInv

\* A reconcile that ends leaves nothing to prove about its copies.
LEMMA ReturnKeeps ==
  ASSUME Return, Shaped(provider')
  PROVE  Shapes' /\ Copies' /\ pc' = "idle"
  BY RestShaped DEF Return, Rest, Shapes, Copies

\* Steps that touch neither the configuration nor the file's contents.
LEMMA SourcesKept ==
  ASSUME Sources, UNCHANGED <<inputs, configMap, file, computed>>,
         \/ UNCHANGED <<pc, mounted>>
         \/ pc' \notin {"wait", "setSpec", "install"}
         \/ pc' = "install" /\ pc = "setSpec"
  PROVE  Sources'
  BY DEF Sources, Clean, OfRelease, inputs

\* The syncer and kubelet.
LEMMA SyncerIInv ==
  IInv /\ (Resync \/ DeliverSetting \/ Compute \/ Apply \/ Mount) => IInv'
  <1>1. ASSUME IInv, Resync \/ DeliverSetting \/ Compute \/ Apply \/ Mount
        PROVE  /\ Inputs' /\ Shapes' /\ Copies'
               /\ UNCHANGED <<release, user, setting, pc, mounted>>
    BY <1>1 DEF IInv, Inputs, Shapes, Shaped, Copies, Lowers, Resync, DeliverSetting,
       Compute, Apply, Mount, inputs, local
  <1>2. ASSUME IInv, Resync PROVE IInv'
    BY <1>1, <1>2, SourcesKept DEF IInv, Resync, local
  <1>3. ASSUME IInv, DeliverSetting PROVE IInv'
    <2>1. Sources'
      BY <1>3 DEF IInv, Sources, Clean, OfRelease, DeliverSetting, syncer, local
    <2> QED
      BY <1>1, <1>3, <2>1 DEF IInv
  <1>4. ASSUME IInv, Compute PROVE IInv'
    <2>1. OfRelease(computed')
      BY <1>4, ConfigIsOwn DEF IInv, Compute
    <2>2. Sources'
      BY <1>4, <2>1 DEF IInv, Sources, Clean, OfRelease, Compute, inputs, local
    <2> QED
      BY <1>1, <1>4, <2>2 DEF IInv
  <1>5. ASSUME IInv, Apply PROVE IInv'
    <2>1. configMap' = configMap \/ OfRelease(configMap')
      BY <1>5 DEF IInv, Sources, Apply, Applied
    <2>2. Sources'
      BY <1>5, <2>1 DEF IInv, Sources, Clean, OfRelease, Apply, inputs, local
    <2> QED
      BY <1>1, <1>5, <2>2 DEF IInv
  \* kubelet mounts a ConfigMap that is as clean as the file was.
  <1>6. ASSUME IInv, Mount PROVE IInv'
    <2>1. Clean(file) => Clean(file')
      BY <1>6 DEF IInv, Sources, Mount
    <2>2. Sources'
      BY <1>6, <2>1 DEF IInv, Sources, Clean, OfRelease, Mount, inputs, syncer, local
    <2> QED
      BY <1>1, <1>6, <2>2 DEF IInv
  <1> QED
    BY <1>2, <1>3, <1>4, <1>5, <1>6

LEMMA AddFinalizerIInv == IInv /\ AddFinalizer => IInv'
  <1> SUFFICES ASSUME IInv, AddFinalizer PROVE IInv'
    OBVIOUS
  <1>1. Shapes' /\ Copies' /\ Inputs'
    BY DEF IInv, AddFinalizer, Shapes, Shaped, Copies, Lowers, Inputs, inputs, local
  <1> QED
    BY <1>1, SourcesKept DEF IInv, AddFinalizer, syncer, local

LEMMA StartIInv == IInv /\ Start => IInv'
  <1> SUFFICES ASSUME IInv, Start PROVE IInv'
    OBVIOUS
  <1>1. Shapes' /\ Copies' /\ Inputs'
    BY DEF IInv, Start, Shapes, Shaped, Copies, Inputs, inputs
  <1> QED
    BY <1>1, SourcesKept DEF IInv, Start, syncer

\* What was mounted is the file.
LEMMA ReadFileIInv == IInv /\ ReadFile => IInv'
  <1> SUFFICES ASSUME IInv, ReadFile PROVE IInv'
    OBVIOUS
  <1>1. CASE file = NoData
    <2>1. Return /\ UNCHANGED <<inputs, configMap, file, syncer, provider>>
      BY <1>1 DEF ReadFile
    <2>2. Inputs' /\ Shaped(provider')
      BY <2>1 DEF IInv, Inputs, Shapes, Shaped, inputs
    <2>3. Shapes' /\ Copies' /\ Sources'
      BY <2>1, <2>2, ReturnKeeps, SourcesKept DEF IInv, syncer
    <2> QED
      BY <2>2, <2>3 DEF IInv
  <1>2. CASE file # NoData
    <2>1. Shapes' /\ Copies' /\ Inputs'
      BY <1>2 DEF IInv, ReadFile, Shapes, Shaped, Copies, Inputs, inputs
    <2>2. Sources'
      BY <1>2 DEF IInv, ReadFile, Sources, Clean, OfRelease, inputs, syncer
    <2> QED
      BY <2>1, <2>2 DEF IInv
  <1> QED
    BY <1>1, <1>2

\* The comparison finds the release's own configuration in what was mounted, so
\* that the file is clean.
LEMMA WaitIInv == IInv /\ Wait => IInv'
  <1> SUFFICES ASSUME IInv, Wait PROVE IInv'
    OBVIOUS
  <1>1. CASE Return
    BY <1>1, ReturnKeeps, SourcesKept
       DEF IInv, Wait, Shapes, Shaped, Inputs, inputs, syncer
  <1>2. CASE ~Return
    <2>1. /\ Synced
          /\ pc = "wait" /\ pc' \in {"delete", "setSpec"}
          /\ UNCHANGED <<inputs, configMap, file, syncer, provider, p, base, mounted>>
      BY <1>2 DEF Wait
    <2>2. Clean(file)
      BY <2>1, ConfigIsOwn DEF IInv, Sources, Clean, Synced
    <2>3. Sources'
      BY <2>1, <2>2 DEF IInv, Sources, Clean, OfRelease, inputs, syncer
    <2>4. Shapes' /\ Copies' /\ Inputs'
      BY <2>1 DEF IInv, Shapes, Shaped, Copies, Inputs, inputs
    <2> QED
      BY <2>3, <2>4 DEF IInv
  <1> QED
    BY <1>1, <1>2

LEMMA SetProviderSpecIInv == IInv /\ SetProviderSpec => IInv'
  <1> SUFFICES ASSUME IInv, SetProviderSpec PROVE IInv'
    OBVIOUS
  <1>1. CASE Return
    BY <1>1, ReturnKeeps, SourcesKept
       DEF IInv, SetProviderSpec, Shapes, Shaped, Inputs, inputs, syncer
  <1>2. CASE ~Return
    <2>1. /\ pc = "setSpec" /\ pc' = "install"
          /\ p' = SetLatestVersion(p, Offered, IsKnown(Config, p.key))
          /\ UNCHANGED <<inputs, configMap, file, syncer, provider, base, mounted>>
      BY <1>2 DEF SetProviderSpec
    <2>2. p = base /\ Shaped(p)
      BY <2>1 DEF IInv, Copies, Shapes
    <2>3. Shaped(p') /\ (p.auto = FALSE => Lowers(p', p))
      BY <2>1, <2>2, SetLatestVersionLowers DEF IsKnown
    <2>4. Shapes' /\ Copies' /\ Inputs'
      BY <2>1, <2>2, <2>3
         DEF IInv, Shapes, Shaped, Copies, Lowers, Inputs, inputs
    <2> QED
      BY <2>1, <2>4, SourcesKept DEF IInv, syncer
  <1> QED
    BY <1>1, <1>2

LEMMA InstallIInv == IInv /\ Install => IInv'
  <1> SUFFICES ASSUME IInv, Install PROVE IInv'
    OBVIOUS
  <1>1. Shapes' /\ Copies' /\ Inputs'
    BY DEF IInv, Install, Shapes, Shaped, Copies, Lowers, Inputs, inputs
  <1> QED
    BY <1>1, SourcesKept DEF IInv, Install, syncer

LEMMA EndIInv == IInv /\ (Patch \/ Delete) => IInv'
  <1> SUFFICES ASSUME IInv, Patch \/ Delete PROVE IInv'
    OBVIOUS
  <1>1. Return /\ UNCHANGED <<inputs, configMap, file, syncer>>
    BY DEF Patch, Delete
  <1>2. Shaped(provider')
    BY RestShaped DEF IInv, Shapes, Patch, Delete, Rest, Shaped
  <1> QED
    BY <1>1, <1>2, ReturnKeeps, SourcesKept DEF IInv, Inputs, inputs, syncer

\* Users.
LEMMA UserIInv ==
  IInv /\ (Configure \/ SetRegistry \/ EditConfigMap \/ EditProvider \/ DeleteProvider)
    => IInv'
  <1> SUFFICES ASSUME IInv, \/ Configure \/ SetRegistry \/ EditConfigMap
                            \/ EditProvider \/ DeleteProvider
               PROVE  IInv'
    OBVIOUS
  <1>1. UNCHANGED <<release, settingCache, file, computed, local>>
    BY DEF Configure, SetRegistry, EditConfigMap, EditProvider, DeleteProvider,
       inputs, syncer
  <1>2. Inputs'
    BY DEF IInv, Inputs, Configure, SetRegistry, EditConfigMap, EditProvider,
       DeleteProvider, inputs
  <1>3. configMap' = configMap \/ configMap' \in {Edited, None}
    BY DEF Configure, SetRegistry, EditConfigMap, EditProvider, DeleteProvider
  <1>4. Sources'
    BY <1>1, <1>3 DEF IInv, Sources, Clean, OfRelease, local
  <1>5. Shaped(provider')
    BY RestShaped DEF IInv, Shapes, Shaped, Configure, SetRegistry, EditConfigMap,
       EditProvider, DeleteProvider, Rest
  <1>6. Shapes' /\ Copies'
    BY <1>1, <1>5 DEF IInv, Shapes, Shaped, Copies, Lowers, local
  <1> QED
    BY <1>2, <1>4, <1>6 DEF IInv

\* The container of another release starts with no reconcile under way, and with
\* what is in the ConfigMap.
LEMMA RestartIInv == IInv /\ (Restart \/ Upgrade) => IInv'
  <1> SUFFICES ASSUME IInv, Restart \/ Upgrade PROVE IInv'
    OBVIOUS
  <1>1. Return /\ computed' = None /\ Inputs' /\ UNCHANGED provider
    BY DEF IInv, Inputs, Restart, Upgrade, StartManager
  <1>2. Shapes' /\ Copies' /\ pc' = "idle"
    BY <1>1, ReturnKeeps DEF IInv, Shapes, Shaped
  <1>3. Sources'
    <2>1. CASE Restart
      BY <1>1, <1>2, <2>1 DEF IInv, Sources, Clean, OfRelease, Restart
    <2>2. CASE Upgrade
      BY <1>1, <1>2, <2>2 DEF Sources, Upgrade
    <2> QED
      BY <2>1, <2>2
  <1> QED
    BY <1>1, <1>2, <1>3 DEF IInv

LEMMA NextIInv == IInv /\ [Next]_vars => IInv'
  <1>1. ASSUME IInv, UNCHANGED vars PROVE IInv'
    <2>1. UNCHANGED <<inputs, configMap, file, computed, pc, mounted, provider, p,
                      base>>
      BY <1>1 DEF vars, inputs
    <2>2. Sources'
      BY <1>1, <2>1, SourcesKept DEF IInv
    <2>3. Inputs' /\ Shapes' /\ Copies'
      BY <1>1, <2>1 DEF IInv, Inputs, Shapes, Shaped, Copies, Lowers, inputs
    <2> QED
      BY <2>2, <2>3 DEF IInv
  <1>2. ASSUME IInv, ProviderStep PROVE IInv'
    BY <1>2, AddFinalizerIInv, StartIInv, ReadFileIInv, WaitIInv,
       SetProviderSpecIInv, InstallIInv, EndIInv
       DEF ProviderStep
  <1> QED
    BY <1>1, <1>2, SyncerIInv, UserIInv, RestartIInv DEF Next

LEMMA Inductive == Spec => []IInv
  BY InitIInv, NextIInv, PTL DEF Spec

-----------------------------------------------------------------------------
(***************************************************************************)
(* Theorems.                                                               *)
(***************************************************************************)

\* Whatever the releases embed and users override, and however an upgrade falls
\* between a manager's write, kubelet's mount and a reconcile: components are
\* installed from the configuration of the release that runs, or from what a user
\* wrote into the ConfigMap (WaitForClusterctlConfigUpdate).
THEOREM ReleaseSafety == Spec => InstallsOwnRelease
  <1>1. IInv /\ Next /\ installed' # installed /\ installed' # None
          => OfRelease(installed') \/ installed' = Edited
    <2> SUFFICES ASSUME IInv, Next, installed' # installed, installed' # None
                 PROVE  OfRelease(installed') \/ installed' = Edited
      OBVIOUS
    <2>1. Install
      BY DEF Next, Resync, DeliverSetting, Compute, Apply, Mount, ProviderStep,
         AddFinalizer, Start, ReadFile, Wait, SetProviderSpec, Patch, Delete,
         Configure, SetRegistry, EditConfigMap, EditProvider, DeleteProvider,
         Restart, Upgrade
    <2> QED
      BY <2>1 DEF IInv, Sources, Clean, Install
  <1>2. IInv /\ [Next]_vars
          => [installed' # installed /\ installed' # None
                => OfRelease(installed') \/ installed' = Edited]_vars
    BY <1>1
  <1> QED
    BY <1>2, Inductive, PTL DEF Spec, InstallsOwnRelease

\* Without automatic updates the patch of a reconcile never raises the version,
\* whatever was configured and edited meanwhile (setLatestVersion).
THEOREM PinSafety == Spec => PinKept
  <1>1. ASSUME IInv, Patch, ~base.auto, provider'.version # provider.version
        PROVE  \/ provider'.version = Latest
               \/ base.version \in Semver /\ provider'.version <= base.version
    <2>1. Lowers(p, base) /\ Shaped(provider)
      BY <1>1 DEF IInv, Copies, Shapes, Patch
    <2>2. provider'.version = p.version /\ p.version # base.version
      BY <1>1, <2>1 DEF Patch, Shaped
    <2> QED
      BY <2>1, <2>2 DEF Lowers
  <1>2. IInv /\ [Next]_vars
          => [Patch /\ ~base.auto /\ provider'.version # provider.version
                => \/ provider'.version = Latest
                   \/ base.version \in Semver
                      /\ provider'.version <= base.version]_vars
    BY <1>1
  <1> QED
    BY <1>2, Inductive, PTL DEF Spec, PinKept

-----------------------------------------------------------------------------
(***************************************************************************)
(* What ClusterConfig computes.  Induction over the lists is by the least  *)
(* counterexample.                                                         *)
(***************************************************************************)
LEMMA Least ==
  ASSUME NEW T, T \subseteq Nat, T # {}
  PROVE  \E i \in T : \A j \in T : i <= j
  <1> DEFINE R == OpToRel(<, Nat)
  <1>1. \A x, y \in Nat : y < x => <<y, x>> \in R
    BY DEF OpToRel
  <1>2. IsWellFoundedOn(R, Nat)
    BY NatLessThanWellFounded
  <1> HIDE DEF R
  <1>3. PICK i \in T : \A j \in T : ~(<<j, i>> \in R)
    BY <1>2, WFMin
  <1>4. ASSUME NEW j \in T PROVE i <= j
    <2>1. i \in Nat /\ j \in Nat /\ ~(j < i)
      BY <1>1, <1>3
    <2>2. QED
      BY <2>1
  <1>5. QED
    BY <1>4

LEMMA Greatest ==
  ASSUME NEW n \in Nat, NEW T, T \subseteq 1..n, T # {}
  PROVE  \E i \in T : \A j \in T : j <= i
  <1> DEFINE U == {d \in Nat : n - d \in T}
  <1>1. \A j \in T : j \in Int /\ n - j \in U
    BY DEF U
  <1>2. \A d \in U : d \in Nat /\ n - d \in T
    OBVIOUS
  <1> HIDE DEF U
  <1>3. PICK d \in U : \A e \in U : d <= e
    BY <1>1, <1>2, Least
  <1>4. \A j \in T : j <= n - d
    BY <1>1, <1>2, <1>3
  <1>5. QED
    BY <1>2, <1>4

Entries == [key : Keys, version : Versions]

LEMMA FirstListed ==
  ASSUME NEW ps \in Seq(Entries), NEW k, Listed(ps, k) # {}
  PROVE  /\ First(Listed(ps, k)) \in Listed(ps, k)
         /\ \A j \in Listed(ps, k) : First(Listed(ps, k)) <= j
  <1>1. Listed(ps, k) \subseteq Nat
    BY DEF Listed
  <1>2. QED
    BY <1>1, Least DEF First

LEMMA LastListed ==
  ASSUME NEW ps \in Seq(Entries), NEW k, Listed(ps, k) # {}
  PROVE  /\ Last(Listed(ps, k)) \in Listed(ps, k)
         /\ \A j \in Listed(ps, k) : j <= Last(Listed(ps, k))
  <1>1. Listed(ps, k) \subseteq 1..Len(ps) /\ Len(ps) \in Nat
    BY DEF Listed
  <1>2. QED
    BY <1>1, Greatest DEF Last

\* There is one first element.
LEMMA FirstIs ==
  ASSUME NEW T, T \subseteq Nat, NEW i \in T, \A j \in T : i <= j
  PROVE  First(T) = i
  <1>1. First(T) \in T /\ First(T) <= i
    BY DEF First
  <1>2. i \in Nat /\ First(T) \in Nat /\ i <= First(T)
    BY <1>1
  <1>3. QED
    BY <1>1, <1>2

\* The function Appended is the last value of.
Appending(ps, os, f, m) ==
  f = [n \in 0..m |->
         IF n = 0 THEN <<>>
         ELSE IF Listed(ps, os[n].key) # {} THEN f[n - 1]
         ELSE Append(f[n - 1], os[n])]

LEMMA AppendingExists ==
  ASSUME NEW ps, NEW os, NEW m \in Nat
  PROVE  \E f : Appending(ps, os, f, m)
  <1> DEFINE Bad == {n \in Nat : ~ \E f : Appending(ps, os, f, n)}
  <1>1. SUFFICES ASSUME Bad # {} PROVE FALSE
    OBVIOUS
  <1>2. PICK n \in Bad : \A j \in Bad : n <= j
    BY <1>1, Least
  <1>3. n # 0
    <2> DEFINE g == [i \in 0..0 |-> <<>>]
    <2>1. Appending(ps, os, g, 0)
      BY DEF Appending
    <2>2. QED
      BY <2>1
  <1>4. n - 1 \in Nat /\ n - 1 \notin Bad
    BY <1>2, <1>3
  <1>5. PICK f : Appending(ps, os, f, n - 1)
    BY <1>4
  <1> DEFINE Value(h, i) == IF i = 0 THEN <<>>
                            ELSE IF Listed(ps, os[i].key) # {} THEN h[i - 1]
                            ELSE Append(h[i - 1], os[i])
             g == [i \in 0..n |-> IF i = n THEN Value(f, n) ELSE f[i]]
  <1>6. \A i \in 0..(n - 1) : f[i] = Value(f, i)
    <2> DEFINE values == [i \in 0..(n - 1) |-> Value(f, i)]
    <2>1. f = values
      BY <1>5 DEF Appending
    <2>2. \A i \in 0..(n - 1) : values[i] = Value(f, i)
      OBVIOUS
    <2> HIDE DEF values, Value
    <2>3. QED
      BY <2>1, <2>2
  <1>7. /\ g[n] = Value(f, n)
        /\ \A i \in 0..(n - 1) : g[i] = f[i]
        /\ \A i \in 0..n : i = n \/ i \in 0..(n - 1)
        /\ \A i \in 0..n : i # 0 => i - 1 \in 0..(n - 1)
        /\ g = [i \in 0..n |-> g[i]]
    <2> HIDE DEF Value
    <2>1. n \in Nat /\ n # 0
      BY <1>3
    <2>2. QED
      BY <2>1
  <1>8. \A i \in 0..n : g[i] = Value(g, i)
    <2> HIDE DEF g
    <2>1. \A i \in 0..n : Value(g, i) = Value(f, i)
      BY <1>7
    <2> HIDE DEF Value
    <2>2. QED
      BY <1>6, <1>7, <2>1
  <1>9. Appending(ps, os, g, n)
    <2> HIDE DEF g
    <2>1. QED
      BY <1>7, <1>8 DEF Appending
  <1>10. QED
    BY <1>2, <1>9

LEMMA AppendedIs ==
  ASSUME NEW ps, NEW os, Len(os) \in Nat
  PROVE  \E f : Appending(ps, os, f, Len(os)) /\ Appended(ps, os) = f[Len(os)]
  <1> DEFINE f == CHOOSE g : Appending(ps, os, g, Len(os))
  <1>1. Appending(ps, os, f, Len(os))
    BY AppendingExists
  <1>2. Appended(ps, os) = f[Len(os)]
    BY DEF Appended, Appending
  <1>3. QED
    BY <1>1, <1>2

\* What the first n overrides leave in s: entries of providers that are not embedded,
\* and of every such provider the first override comes first.
Kept(ps, os, s, n) ==
  /\ s \in Seq(Entries)
  /\ \A i \in DOMAIN s :
       \E j \in 1..n : s[i] = os[j] /\ Listed(ps, os[j].key) = {}
  /\ \A j \in 1..n :
       /\ Listed(ps, os[j].key) = {}
       /\ \A l \in 1..(j - 1) : os[l].key # os[j].key
       => \E i \in DOMAIN s : /\ s[i] = os[j]
                              /\ \A l \in DOMAIN s : s[l].key = os[j].key => i <= l

LEMMA KeptSkips ==
  ASSUME NEW ps, NEW os \in Seq(Entries), NEW s, NEW n \in 1..Len(os),
         Kept(ps, os, s, n - 1), Listed(ps, os[n].key) # {}
  PROVE  Kept(ps, os, s, n)
  <1>1. 1..n = (1..(n - 1)) \cup {n}
    OBVIOUS
  <1>2. QED
    BY <1>1 DEF Kept

LEMMA KeptAppends ==
  ASSUME NEW ps, NEW os \in Seq(Entries), NEW s, NEW n \in 1..Len(os),
         Kept(ps, os, s, n - 1), Listed(ps, os[n].key) = {}
  PROVE  Kept(ps, os, Append(s, os[n]), n)
  <1> DEFINE t == Append(s, os[n])
             m == Len(s) + 1
  <1>1. s \in Seq(Entries) /\ os[n] \in Entries
    BY DEF Kept
  <1>2. /\ t \in Seq(Entries) /\ m \in Nat /\ m >= 1 /\ DOMAIN t = 1..m
        /\ DOMAIN s = 1..(m - 1) /\ t[m] = os[n]
        /\ \A i \in DOMAIN s : t[i] = s[i]
    BY <1>1
  <1> HIDE DEF t, m
  <1>3. /\ \A j \in 1..n : j = n \/ j \in 1..(n - 1)
        /\ \A i \in 1..m : i = m \/ i \in 1..(m - 1)
        /\ \A j \in 1..(n - 1) : j \in 1..n
        /\ \A i \in 1..(m - 1) : i <= m /\ i \in 1..m
        /\ n \in 1..n /\ m <= m
    BY <1>2
  <1>4. ASSUME NEW i \in DOMAIN t
        PROVE  \E j \in 1..n : t[i] = os[j] /\ Listed(ps, os[j].key) = {}
    <2>1. CASE i = m
      BY <1>2, <1>3, <2>1
    <2>2. CASE i \in DOMAIN s
      BY <1>2, <1>3, <2>2 DEF Kept
    <2>3. QED
      BY <1>2, <1>3, <2>1, <2>2
  <1>5. ASSUME NEW j \in 1..n, Listed(ps, os[j].key) = {},
               \A l \in 1..(j - 1) : os[l].key # os[j].key
        PROVE  \E i \in DOMAIN t : /\ t[i] = os[j]
                                   /\ \A l \in DOMAIN t : t[l].key = os[j].key => i <= l
    <2>1. CASE j \in 1..(n - 1)
      <3>1. PICK i \in DOMAIN s :
              s[i] = os[j] /\ \A l \in DOMAIN s : s[l].key = os[j].key => i <= l
        BY <1>5, <2>1 DEF Kept
      <3>2. i \in DOMAIN t /\ t[i] = os[j] /\ i <= m
        BY <1>2, <1>3, <3>1
      <3>3. \A l \in DOMAIN t : t[l].key = os[j].key => i <= l
        BY <1>2, <1>3, <3>1, <3>2
      <3>4. QED
        BY <3>2, <3>3
    <2>2. CASE j = n
      <3>1. \A l \in DOMAIN s : s[l].key # os[n].key
        BY <1>5, <2>2 DEF Kept
      <3>2. \A l \in DOMAIN t : t[l].key = os[n].key => l = m
        BY <1>2, <1>3, <3>1
      <3>3. m \in DOMAIN t /\ t[m] = os[j] /\ m <= m
        BY <1>2, <2>2
      <3>4. \A l \in DOMAIN t : t[l].key = os[j].key => m <= l
        BY <2>2, <3>2, <3>3
      <3>5. QED
        BY <3>3, <3>4
    <2>3. QED
      BY <1>3, <2>1, <2>2
  <1>6. Kept(ps, os, t, n)
    BY <1>2, <1>4, <1>5 DEF Kept
  <1>7. QED
    BY <1>6 DEF t

LEMMA AppendedKept ==
  ASSUME NEW ps, NEW os \in Seq(Entries)
  PROVE  Kept(ps, os, Appended(ps, os), Len(os))
  <1>1. PICK f : Appending(ps, os, f, Len(os)) /\ Appended(ps, os) = f[Len(os)]
    BY AppendedIs
  <1> DEFINE Value(i) == IF i = 0 THEN <<>>
                         ELSE IF Listed(ps, os[i].key) # {} THEN f[i - 1]
                         ELSE Append(f[i - 1], os[i])
             values == [i \in 0..Len(os) |-> Value(i)]
  <1>2. \A i \in 0..Len(os) : f[i] = Value(i)
    <2>1. f = values
      BY <1>1 DEF Appending
    <2>2. \A i \in 0..Len(os) : values[i] = Value(i)
      OBVIOUS
    <2> HIDE DEF values, Value
    <2>3. QED
      BY <2>1, <2>2
  <1> HIDE DEF values
  <1> DEFINE Bad == {n \in 0..Len(os) : ~Kept(ps, os, f[n], n)}
  <1>3. SUFFICES ASSUME Bad # {} PROVE FALSE
    BY <1>1
  <1>4. PICK n \in Bad : \A j \in Bad : n <= j
    <2>1. Bad \subseteq Nat
      OBVIOUS
    <2> HIDE DEF Bad
    <2>2. QED
      BY <1>3, <2>1, Least
  <1>5. n # 0
    <2>1. f[0] = <<>>
      BY <1>2
    <2>2. Kept(ps, os, <<>>, 0)
      BY DEF Kept
    <2>3. QED
      BY <1>4, <2>1, <2>2
  <1>6. n \in 1..Len(os) /\ n - 1 \in 0..Len(os) /\ n - 1 \notin Bad
    BY <1>4, <1>5
  <1>7. Kept(ps, os, f[n - 1], n - 1)
    BY <1>6
  <1>8. f[n] = Value(n) /\ n # 0
    BY <1>2, <1>5, <1>6
  <1>9. Kept(ps, os, f[n], n)
    <2>1. CASE Listed(ps, os[n].key) = {}
      BY <1>6, <1>7, <1>8, <2>1, KeptAppends
    <2>2. CASE Listed(ps, os[n].key) # {}
      BY <1>6, <1>7, <1>8, <2>2, KeptSkips
    <2>3. QED
      BY <2>1, <2>2
  <1>10. QED
    BY <1>4, <1>9

\* The embedded entries after the loop.
Replacement(ps, os, i) ==
  LET theirs == Listed(os, ps[i].key)
  IN  IF theirs # {} /\ i = Last(Listed(ps, ps[i].key))
      THEN os[Last(theirs)]
      ELSE ps[i]
Replaced(ps, os) == [i \in DOMAIN ps |-> Replacement(ps, os, i)]

LEMMA ReplacedIs ==
  ASSUME NEW ps \in Seq(Entries), NEW os \in Seq(Entries)
  PROVE  /\ Replaced(ps, os) \in Seq(Entries)
         /\ Len(Replaced(ps, os)) = Len(ps)
         /\ \A i \in 1..Len(ps) : /\ Replaced(ps, os)[i] = Replacement(ps, os, i)
                                  /\ Replaced(ps, os)[i].key = ps[i].key
  <1>0. DOMAIN ps = 1..Len(ps) /\ Len(ps) \in Nat
    OBVIOUS
  <1>1. ASSUME NEW i \in 1..Len(ps)
        PROVE  Replacement(ps, os, i) \in Entries /\ Replacement(ps, os, i).key = ps[i].key
    <2> DEFINE theirs == Listed(os, ps[i].key)
    <2>1. CASE theirs # {} /\ i = Last(Listed(ps, ps[i].key))
      <3>1. Last(theirs) \in theirs
        BY <2>1, LastListed
      <3>2. os[Last(theirs)] \in Entries /\ os[Last(theirs)].key = ps[i].key
        BY <3>1 DEF Listed
      <3>3. QED
        BY <2>1, <3>2 DEF Replacement
    <2>2. CASE ~(theirs # {} /\ i = Last(Listed(ps, ps[i].key)))
      <3>1. Replacement(ps, os, i) = ps[i]
        BY <2>2 DEF Replacement
      <3>2. ps[i] \in Entries
        OBVIOUS
      <3>3. QED
        BY <3>1, <3>2
    <2>3. QED
      BY <2>1, <2>2
  <1>2. Replaced(ps, os) = [i \in 1..Len(ps) |-> Replacement(ps, os, i)]
    BY <1>0 DEF Replaced
  <1>3. /\ Replaced(ps, os) \in [1..Len(ps) -> Entries]
        /\ \A i \in 1..Len(ps) : Replaced(ps, os)[i] = Replacement(ps, os, i)
    BY <1>1, <1>2
  <1>4. Replaced(ps, os) \in Seq(Entries) /\ Len(Replaced(ps, os)) = Len(ps)
    BY <1>0, <1>3
  <1>5. QED
    BY <1>1, <1>3, <1>4

LEMMA MergedIs ==
  ASSUME NEW ps \in Seq(Entries), NEW os \in Seq(Entries)
  PROVE  LET merged == MergeProviders(ps, os)
             new == Appended(ps, os)
         IN  /\ merged \in Seq(Entries)
             /\ Len(merged) = Len(ps) + Len(new)
             /\ \A i \in 1..Len(ps) : merged[i] = Replaced(ps, os)[i]
             /\ \A i \in 1..Len(new) : merged[Len(ps) + i] = new[i]
  <1>1. Appended(ps, os) \in Seq(Entries)
    BY AppendedKept DEF Kept
  <1>2. MergeProviders(ps, os) = Replaced(ps, os) \o Appended(ps, os)
    BY DEF MergeProviders, Replaced, Replacement
  <1> DEFINE r == Replaced(ps, os)
             new == Appended(ps, os)
  <1>3. r \in Seq(Entries) /\ Len(r) = Len(ps) /\ new \in Seq(Entries)
    BY <1>1, ReplacedIs
  <1> HIDE DEF r, new
  <1>4. /\ r \o new \in Seq(Entries)
        /\ Len(r \o new) = Len(ps) + Len(new)
        /\ \A i \in 1..Len(ps) : (r \o new)[i] = r[i]
        /\ \A i \in 1..Len(new) : (r \o new)[Len(ps) + i] = new[i]
    <2>1. /\ r \o new \in Seq(Entries)
          /\ Len(r \o new) = Len(r) + Len(new)
          /\ \A i \in 1..Len(r) : (r \o new)[i] = r[i]
          /\ \A i \in 1..Len(new) : (r \o new)[Len(r) + i] = new[i]
      <3>1. ASSUME NEW s \in Seq(Entries), NEW t \in Seq(Entries)
            PROVE  /\ s \o t \in Seq(Entries)
                   /\ Len(s \o t) = Len(s) + Len(t)
                   /\ \A i \in 1..Len(s) : (s \o t)[i] = s[i]
                   /\ \A i \in 1..Len(t) : (s \o t)[Len(s) + i] = t[i]
        OBVIOUS
      <3>2. QED
        BY <1>3, <3>1, Zenon
    <2>2. QED
      BY <1>3, <2>1
  <1>5. QED
    BY <1>2, <1>4 DEF r, new

\* A list that names every provider at most once, as the embedded lists do
\* (config-community.yaml, config-prime.yaml).
Once(ps) == \A i, j \in DOMAIN ps : ps[i].key = ps[j].key => i = j

\* The version in force: the last override of a provider that is embedded, the
\* first of one that is not.
VersionInForce(ps, os, k) ==
  LET ours == Listed(ps, k)
      theirs == Listed(os, k)
  IN  CASE theirs # {} /\ ours # {} -> Version(os, Last(theirs))
        [] theirs # {} /\ ours = {} -> Version(os, First(theirs))
        [] theirs = {} /\ ours # {} -> Version(ps, First(ours))
        [] OTHER -> Latest

LEMMA MergedVersion ==
  ASSUME NEW ps \in Seq(Entries), NEW os \in Seq(Entries), Once(ps), NEW k,
         NEW config, config.providers = MergeProviders(ps, os)
  PROVE  ProviderVersion(config, k) = VersionInForce(ps, os, k)
  <1> DEFINE merged == MergeProviders(ps, os)
             new == Appended(ps, os)
             ours == Listed(ps, k)
             theirs == Listed(os, k)
             all == Listed(merged, k)
  <1>1. /\ merged \in Seq(Entries) /\ new \in Seq(Entries)
        /\ Len(merged) = Len(ps) + Len(new)
        /\ \A i \in 1..Len(ps) : /\ merged[i] = Replacement(ps, os, i)
                                 /\ merged[i].key = ps[i].key
        /\ \A i \in 1..Len(new) : merged[Len(ps) + i] = new[i]
    BY MergedIs, ReplacedIs, AppendedKept DEF Kept
  <1>2. /\ Kept(ps, os, new, Len(os))
        /\ DOMAIN new = 1..Len(new) /\ Len(new) \in Nat
        /\ DOMAIN merged = 1..Len(merged) /\ Len(merged) \in Nat
        /\ DOMAIN ps = 1..Len(ps) /\ Len(ps) \in Nat
        /\ DOMAIN os = 1..Len(os) /\ Len(os) \in Nat
    BY <1>1, AppendedKept
  <1> HIDE DEF merged, new
  <1>3. all \subseteq Nat
    BY <1>2 DEF Listed
  \* Where the first entry of the provider is.
  <1>4. ASSUME NEW i \in all, \A j \in all : i <= j
        PROVE  ProviderVersion(config, k) = merged[i].version
    <2>1. First(all) = i
      BY <1>3, <1>4, FirstIs
    <2>2. QED
      BY <1>4, <2>1 DEF ProviderVersion, IsKnown, merged
  <1>5. CASE ours # {}
    <2>1. PICK i \in 1..Len(ps) : ps[i].key = k
      BY <1>2, <1>5 DEF Listed
    <2>2. ours = {i}
      BY <1>2, <2>1 DEF Listed, Once
    <2>3. First(ours) = i /\ Last(ours) = i
      BY <2>2 DEF First, Last
    <2>4. i \in all
      BY <1>1, <1>2, <2>1 DEF Listed
    <2>5. \A j \in all : i <= j
      <3>1. ASSUME NEW j \in all, j < i PROVE FALSE
        <4>1. j \in 1..Len(ps) /\ ps[j].key = k
          BY <1>1, <1>2, <2>1, <3>1 DEF Listed
        <4>2. QED
          BY <2>1, <3>1, <4>1, <1>2 DEF Once
      <3>2. QED
        BY <1>2, <1>3, <2>1, <3>1
    <2>6. merged[i] = IF theirs # {} THEN os[Last(theirs)] ELSE ps[i]
      BY <1>1, <1>2, <2>1, <2>3 DEF Replacement
    <2>7. ProviderVersion(config, k) = merged[i].version
      BY <1>4, <2>4, <2>5
    <2>8. QED
      BY <1>5, <2>3, <2>6, <2>7 DEF VersionInForce, Version
  <1>6. CASE ours = {} /\ theirs # {}
    <2> DEFINE f == First(theirs)
    <2>1. f \in theirs /\ \A j \in theirs : f <= j
      BY <1>6, FirstListed
    <2>2. f \in 1..Len(os) /\ os[f].key = k
      BY <1>2, <2>1 DEF Listed
    <2>3. \A l \in 1..(f - 1) : os[l].key # os[f].key
      <3>1. ASSUME NEW l \in 1..(f - 1), os[l].key = k PROVE FALSE
        <4>1. l \in theirs /\ l < f /\ l \in Int /\ f \in Int
          BY <1>2, <2>2, <3>1 DEF Listed
        <4>2. QED
          BY <2>1, <4>1
      <3>2. QED
        BY <2>2, <3>1
    <2> HIDE DEF f
    <2>4. PICK i \in DOMAIN new :
            new[i] = os[f] /\ \A l \in DOMAIN new : new[l].key = os[f].key => i <= l
      BY <1>2, <1>6, <2>2, <2>3 DEF Kept
    <2>5. \A j \in all : j - Len(ps) \in DOMAIN new /\ new[j - Len(ps)].key = k
      <3>1. ASSUME NEW j \in all
            PROVE  j - Len(ps) \in DOMAIN new /\ new[j - Len(ps)].key = k
        <4>1. j \in 1..Len(merged) /\ merged[j].key = k
          BY <1>2 DEF Listed
        <4>2. j \notin 1..Len(ps)
          BY <1>1, <1>2, <1>6, <4>1 DEF Listed
        <4>3. j - Len(ps) \in 1..Len(new) /\ Len(ps) + (j - Len(ps)) = j
          BY <1>1, <1>2, <4>1, <4>2
        <4>4. QED
          BY <1>1, <1>2, <4>1, <4>3
      <3>2. QED
        BY <3>1
    <2> DEFINE m == Len(ps) + i
    <2>6. m \in 1..Len(merged) /\ merged[m] = os[f]
      BY <1>1, <1>2, <2>4
    <2>7. m \in all /\ \A j \in all : m <= j
      <3>1. m \in all
        BY <1>2, <2>2, <2>6 DEF Listed
      <3>2. ASSUME NEW j \in all PROVE m <= j
        <4>1. i <= j - Len(ps)
          BY <2>2, <2>4, <2>5
        <4>2. i \in Int /\ j \in Int
          BY <1>2, <1>3
        <4>3. QED
          BY <1>2, <4>1, <4>2
      <3>3. QED
        BY <3>1, <3>2
    <2>8. ProviderVersion(config, k) = os[f].version
      BY <1>4, <2>6, <2>7
    <2>9. QED
      BY <1>6, <2>8 DEF VersionInForce, Version, f
  <1>7. CASE ours = {} /\ theirs = {}
    <2>1. ASSUME NEW j \in all PROVE FALSE
      <3>1. j \in 1..Len(merged) /\ merged[j].key = k
        BY <1>2 DEF Listed
      <3>2. j \notin 1..Len(ps)
        BY <1>1, <1>2, <1>7, <3>1 DEF Listed
      <3>3. j - Len(ps) \in 1..Len(new) /\ Len(ps) + (j - Len(ps)) = j
        BY <1>1, <1>2, <3>1, <3>2
      <3>4. PICK l \in 1..Len(os) : new[j - Len(ps)] = os[l]
        BY <1>2, <3>3 DEF Kept
      <3>5. os[l].key = k
        BY <1>1, <3>1, <3>3, <3>4
      <3>6. QED
        BY <1>2, <1>7, <3>5 DEF Listed
    <2>2. ProviderVersion(config, k) = Latest
      BY <2>1 DEF ProviderVersion, IsKnown, merged
    <2>3. QED
      BY <1>7, <2>2 DEF VersionInForce
  <1>8. QED
    BY <1>5, <1>6, <1>7

\* ClusterConfig in a state: of the release, the user and the setting in force.
LEMMA ConfigIs ==
  Inputs /\ ~Fails => Config = ClusterConfig(release, user, settingCache)
  <1> SUFFICES ASSUME Inputs, ~Fails
               PROVE  Config = ClusterConfig(release, user, settingCache)
    OBVIOUS
  <1> DEFINE x == <<release, user, settingCache>>
  <1>1. x \in Releases \X (Users \cup {None}) \X Settings
    BY DEF Inputs
  <1>2. x[1] = release /\ x[2] = user /\ x[3] = settingCache
    OBVIOUS
  <1>3. x \in Computable
    BY <1>1, <1>2 DEF Computable, Fails
  <1> HIDE DEF x
  <1> DEFINE chosen == CHOOSE c \in Computations : c.from = x
  <1>4. chosen \in Computations /\ chosen.from = x
    <2> DEFINE c == [from |-> x, config |-> ClusterConfig(x[1], x[2], x[3])]
    <2>1. c \in Computations /\ c.from = x
      BY <1>3 DEF Computations
    <2>2. QED
      BY <2>1
  <1>5. chosen.config = ClusterConfig(x[1], x[2], x[3])
    <2> HIDE DEF chosen
    <2>1. PICK y \in Computable :
            chosen = [from |-> y, config |-> ClusterConfig(y[1], y[2], y[3])]
      BY <1>4 DEF Computations
    <2>2. chosen.from = y /\ chosen.config = ClusterConfig(y[1], y[2], y[3])
      BY <2>1
    <2>3. QED
      BY <1>4, <2>2
  <1>6. Config = chosen.config
    BY DEF Config, ConfigOf, x
  <1>7. QED
    BY <1>2, <1>5, <1>6

\* What a release embeds and what a user writes.
LEMMA Sorts ==
  ASSUME NEW r \in Releases, NEW u \in Users \cup {None}
  PROVE  /\ Embedded[r].providers \in Seq(Entries)
         /\ Embedded[r].images \in Repositories
         /\ Embedded[r].useDefaultRegistry \in BOOLEAN
         /\ Overrides(u).providers \in Seq(Entries)
         /\ Overrides(u).images \in Repositories
  <1>1. Embedded[r] \in [providers : Providers, images : Repositories,
                         useDefaultRegistry : BOOLEAN]
    BY ClusterctlConfigAssumption
  <1>2. CASE u = None
    <2>1. NoOverrides.providers = <<>> /\ NoOverrides.images \in Repositories
      BY DEF NoOverrides, Unlisted, Repositories
    <2>2. <<>> \in Seq(Entries)
      OBVIOUS
    <2>3. QED
      BY <1>1, <1>2, <2>1, <2>2 DEF Providers, Overrides, Entries
  <1>3. CASE u # None
    <2>1. u \in Configurations
      BY <1>3, ClusterctlConfigAssumption
    <2>2. QED
      BY <1>1, <1>3, <2>1 DEF Providers, Overrides, Entries, Configurations
  <1>4. QED
    BY <1>2, <1>3

\* The registry goes in front of what is left of a repository without its own.
LEMMA Rewritten ==
  ASSUME NEW repository \in Seq(Parts), repository # <<>>, NEW registry \in Parts
  PROVE  LET image == <<registry>> \o Namespace(repository)
         IN  /\ image \in Seq(Parts) /\ image # <<>>
             /\ Head(image) = registry
  <1>1. Namespace(repository) \in Seq(Parts)
    BY DEF Namespace
  <1> DEFINE rest == Namespace(repository)
  <1> HIDE DEF rest
  <1>2. rest \in Seq(Parts) /\ <<registry>> \in Seq(Parts) /\ <<registry>>[1] = registry
        /\ Len(<<registry>>) = 1
    BY <1>1 DEF rest
  <1>3. /\ <<registry>> \o rest \in Seq(Parts)
        /\ Len(<<registry>> \o rest) # 0
        /\ (<<registry>> \o rest)[1] = registry
    BY <1>2
  <1>4. QED
    BY <1>3 DEF rest

\* A default registry that is not empty.
IsSet(registry) == registry # ""

\* The repositories ClusterConfig computes.
LEMMA ImagesMerged ==
  ASSUME NEW images \in Repositories, NEW overrides \in Repositories,
         NEW registry, IsSet(registry) => registry \in Parts, NEW m \in Images,
         NEW image, image = MergeImages(images, registry, overrides)[m]
  PROVE  /\ image \in Seq(Parts)
         /\ overrides[m] # Unlisted => image = overrides[m]
         /\ overrides[m] = Unlisted =>
              /\ image = Unlisted <=> images[m] = Unlisted
              /\ IsSet(registry) => image = Unlisted \/ Head(image) = registry
  <1> DEFINE new == <<registry>> \o Namespace(images[m])
  <1>1. images[m] \in Seq(Parts) /\ overrides[m] \in Seq(Parts)
    BY DEF Repositories
  <1>2. image = CASE overrides[m] # Unlisted -> overrides[m]
                  [] overrides[m] = Unlisted /\ images[m] # Unlisted /\ IsSet(registry) -> new
                  [] OTHER -> images[m]
    BY DEF MergeImages, IsSet
  <1>3. images[m] # Unlisted /\ IsSet(registry)
          => new \in Seq(Parts) /\ new # Unlisted /\ Head(new) = registry
    BY <1>1, Rewritten DEF Unlisted
  <1> HIDE DEF new
  <1>4. CASE overrides[m] # Unlisted
    <2>1. image = overrides[m]
      BY <1>2, <1>4
    <2>2. QED
      BY <1>1, <1>4, <2>1
  <1>5. CASE overrides[m] = Unlisted /\ images[m] # Unlisted /\ IsSet(registry)
    <2>1. image = new
      BY <1>2, <1>5
    <2>2. QED
      BY <1>3, <1>5, <2>1
  <1>6. CASE overrides[m] = Unlisted /\ ~(images[m] # Unlisted /\ IsSet(registry))
    <2>1. image = images[m]
      BY <1>2, <1>6
    <2>2. QED
      BY <1>1, <1>6, <2>1
  <1>7. QED
    BY <1>4, <1>5, <1>6

\* The registry a computation uses, where it does not fail.
LEMMA RegistryIs ==
  ASSUME NEW r \in Releases, NEW value \in Settings, ~ConfigFails(r, value)
  PROVE  /\ IsSet(Registry(r, value)) => Registry(r, value) \in Parts
         /\ Embedded[r].useDefaultRegistry /\ value \in Registries
              => Registry(r, value) = value /\ IsSet(value)
  BY ClusterctlConfigAssumption DEF Settings, ConfigFails, Registry, IsSet

\* As the two configurations turtles embeds, config-community.yaml and
\* config-prime.yaml: of a provider embedded twice existingProviders would know
\* the last entry, and GetProviderVersion return the first.
EmbeddedOnce == \A r \in Releases : Once(Embedded[r].providers)

LEMMA OverridesHold ==
  ASSUME EmbeddedOnce
  PROVE  IInv => OverridesWin
  <1> SUFFICES ASSUME IInv, ~Fails PROVE OverridesWin
    BY DEF OverridesWin
  <1> DEFINE embedded == Embedded[release]
             mine == Overrides(user)
             registry == Registry(release, settingCache)
  <1>1. /\ release \in Releases /\ user \in Users \cup {None}
        /\ settingCache \in Settings /\ ~ConfigFails(release, settingCache)
    BY DEF IInv, Inputs, Fails
  <1>2. /\ Config.providers = MergeProviders(embedded.providers, mine.providers)
        /\ Config.images = MergeImages(embedded.images, registry, mine.images)
    BY ConfigIs DEF IInv, ClusterConfig
  <1>3. /\ embedded.providers \in Seq(Entries) /\ mine.providers \in Seq(Entries)
        /\ embedded.images \in Repositories
        /\ mine.images \in Repositories
    BY <1>1, Sorts
  <1>4. mine = IF user = None THEN NoOverrides ELSE user
    BY DEF Overrides
  <1>5. Once(embedded.providers)
    BY <1>1 DEF EmbeddedOnce
  <1>6. /\ IsSet(registry) => registry \in Parts
        /\ embedded.useDefaultRegistry /\ settingCache \in Registries
             => registry = settingCache /\ IsSet(registry)
    BY <1>1, RegistryIs
  <1> HIDE DEF embedded, mine, registry
  <1>7. ASSUME NEW k \in Keys
        PROVE  ProviderVersion(Config, k)
                 = VersionInForce(embedded.providers, mine.providers, k)
    BY <1>2, <1>3, <1>5, MergedVersion
  <1>8. ASSUME NEW m \in Images
        PROVE  LET image == Config.images[m] IN
               IF mine.images[m] # Unlisted THEN image = mine.images[m]
               ELSE /\ image = Unlisted <=> embedded.images[m] = Unlisted
                    /\ embedded.useDefaultRegistry /\ settingCache \in Registries
                         => image = Unlisted \/ Head(image) = settingCache
    <2> DEFINE image == Config.images[m]
    <2>1. image = MergeImages(embedded.images, registry, mine.images)[m]
      BY <1>2
    <2> HIDE DEF image
    <2>2. /\ mine.images[m] # Unlisted => image = mine.images[m]
          /\ mine.images[m] = Unlisted =>
               /\ image = Unlisted <=> embedded.images[m] = Unlisted
               /\ IsSet(registry) => image = Unlisted \/ Head(image) = registry
      <3>1. /\ embedded.images \in Repositories
            /\ mine.images \in Repositories
            /\ IsSet(registry) => registry \in Parts
            /\ m \in Images
        BY <1>3, <1>6
      <3>2. QED
        BY <2>1, <3>1, ImagesMerged
    <2>3. QED
      BY <1>6, <2>2 DEF image
  <1>9. QED
    BY <1>4, <1>7, <1>8 DEF OverridesWin, VersionInForce, embedded

\* Whatever users write and Rancher's setting is, at any moment: where ClusterConfig
\* returns no error, the user's word is in force and every other image comes from
\* the default registry, if the release uses it (ClusterConfig).
THEOREM OverridesSafety ==
  ASSUME EmbeddedOnce
  PROVE  Spec => []OverridesWin
  <1>1. IInv => OverridesWin
    BY OverridesHold
  <1>2. QED
    BY <1>1, Inductive, PTL

-----------------------------------------------------------------------------
(***************************************************************************)
(* Types.  What is computed is a configuration, since merging keeps the    *)
(* lists and the repositories what they are.                               *)
(***************************************************************************)
LEMMA ConfigTyped == Inputs /\ ~Fails => Config \in Configurations
  <1> SUFFICES ASSUME Inputs, ~Fails PROVE Config \in Configurations
    OBVIOUS
  <1> DEFINE embedded == Embedded[release]
             mine == Overrides(user)
             registry == Registry(release, settingCache)
             providers == MergeProviders(embedded.providers, mine.providers)
             images == MergeImages(embedded.images, registry, mine.images)
  <1>1. /\ release \in Releases /\ user \in Users \cup {None}
        /\ settingCache \in Settings /\ ~ConfigFails(release, settingCache)
    BY DEF Inputs, Fails
  <1>2. Config = [providers |-> providers, images |-> images]
    BY ConfigIs DEF ClusterConfig
  <1>3. /\ embedded.providers \in Seq(Entries) /\ mine.providers \in Seq(Entries)
        /\ embedded.images \in Repositories /\ mine.images \in Repositories
        /\ IsSet(registry) => registry \in Parts
    BY <1>1, Sorts, RegistryIs
  <1> HIDE DEF embedded, mine, registry
  <1>4. providers \in Providers
    BY <1>3, MergedIs DEF Providers, Entries
  <1>5. ASSUME NEW m \in Images PROVE images[m] \in Seq(Parts)
    <2> DEFINE image == images[m]
    <2>1. image = MergeImages(embedded.images, registry, mine.images)[m]
      OBVIOUS
    <2> HIDE DEF image, images
    <2>2. image \in Seq(Parts)
      BY <1>3, <2>1, ImagesMerged
    <2>3. QED
      BY <2>2 DEF image
  <1>6. images = [m \in Images |-> images[m]]
    BY DEF MergeImages
  <1> HIDE DEF images, providers
  <1>7. images \in Repositories
    BY <1>5, <1>6 DEF Repositories
  <1>8. QED
    BY <1>2, <1>4, <1>7 DEF Configurations

LEMMA VersionTyped ==
  ASSUME NEW config \in Configurations, NEW k
  PROVE  ProviderVersion(config, k) \in Versions
  <1> DEFINE ps == config.providers
  <1>1. ps \in Seq(Entries)
    BY DEF Configurations, Providers, Entries
  <1> HIDE DEF ps
  <1>2. CASE Listed(ps, k) # {}
    <2> DEFINE i == First(Listed(ps, k))
    <2>1. i \in DOMAIN ps
      BY <1>1, <1>2, FirstListed DEF Listed
    <2> HIDE DEF i
    <2>2. ps[i] \in Entries
      BY <1>1, <2>1
    <2>3. ps[i].version \in Versions
      BY <2>2 DEF Entries
    <2>4. QED
      BY <1>2, <2>3 DEF ProviderVersion, IsKnown, ps, i
  <1>3. CASE Listed(ps, k) = {}
    BY <1>3 DEF ProviderVersion, IsKnown, ps, Versions
  <1>4. QED
    BY <1>2, <1>3

LEMMA SetLatestVersionTyped ==
  ASSUME NEW o \in Provider, NEW version \in Versions, NEW known \in BOOLEAN
  PROVE  SetLatestVersion(o, version, known) \in Provider
  <1> DEFINE latest == IsLatestVersion(version, o.version)
             new == SetLatestVersion(o, version, known)
  <1>1. latest \in BOOLEAN /\ o.auto \in BOOLEAN
    BY DEF IsLatestVersion, Provider
  <1>2. \/ new = [o EXCEPT !.check = "ProviderUnknown"]
        \/ new = [o EXCEPT !.check = "LatestVersionSet", !.version = version]
        \/ new = [o EXCEPT !.check = "UpdateAvailable"]
        \/ new = [o EXCEPT !.check = "VersionUpdated", !.version = version]
    <2> HIDE DEF latest
    <2>1. QED
      BY <1>1 DEF SetLatestVersion, latest
  <1> HIDE DEF new
  <1>3. QED
    BY <1>2 DEF Provider, Reasons, new

LEMMA NoProviderTyped ==
  ASSUME NEW k \in Keys
  PROVE  NoProvider(k) \in Provider
  BY DEF NoProvider, Provider, Reasons

-----------------------------------------------------------------------------
\* The three parts of TypeOK.
ObjectsTyped ==
  /\ configMap \in Contents \cup {None} /\ file \in Contents
  /\ queued \in BOOLEAN
  /\ computed \in Configurations \cup {None}
  /\ mounted \in Contents /\ installed \in Contents \cup {None}
ProvidersTyped == provider \in Provider /\ p \in Provider /\ base \in Provider
StepsTyped == pc \in Steps /\ ops \in 0..MaxOps

LEMMA TypeParts ==
  /\ TypeOK <=> Inputs /\ ObjectsTyped /\ ProvidersTyped /\ StepsTyped
  /\ TypeOK' <=> Inputs' /\ ObjectsTyped' /\ ProvidersTyped' /\ StepsTyped'
  BY DEF TypeOK, Inputs, ObjectsTyped, ProvidersTyped, StepsTyped

LEMMA TypeInit == Init => TypeOK
  <1> SUFFICES ASSUME Init PROVE TypeOK
    OBVIOUS
  <1>1. Inputs /\ ObjectsTyped /\ StepsTyped
    <2>1. Inputs
      BY DEF Init, Inputs, Settings
    <2>2. ObjectsTyped
      <3>1. /\ configMap = NoData /\ file = NoData /\ queued = TRUE /\ computed = None
            /\ mounted = NoData /\ installed = None
        BY DEF Init
      <3>2. NoData \in Contents
        BY DEF Contents
      <3>3. QED
        BY <3>1, <3>2 DEF ObjectsTyped
    <2>3. StepsTyped
      <3>1. pc = "idle" /\ ops = 0
        BY DEF Init
      <3>2. QED
        BY <3>1, ProviderUpdateAssumption DEF StepsTyped, Steps
    <2>4. QED
      BY <2>1, <2>2, <2>3
  <1>2. PICK a \in Asked :
          provider = [NoProvider(a.key) EXCEPT !.ex = TRUE, !.version = a.version,
                                               !.auto = a.auto]
    BY DEF Init
  <1>3. /\ a.key \in Keys /\ a.version \in Versions \cup {Unset}
        /\ a.auto \in BOOLEAN
    BY ProviderUpdateAssumption
  <1>4. provider \in Provider /\ provider.key \in Keys
    BY <1>2, <1>3 DEF NoProvider, Provider, Reasons
  <1>5. ProvidersTyped
    BY <1>4, NoProviderTyped DEF Init, Rest, ProvidersTyped
  <1>6. QED
    BY <1>1, <1>5, TypeParts

\* A reconcile that ends leaves the copies of a provider that is not there.
LEMMA ReturnTyped ==
  ASSUME TypeOK, Return
  PROVE  /\ p' \in Provider /\ base' \in Provider
         /\ mounted' \in Contents /\ pc' \in Steps
  <1>1. provider.key \in Keys
    BY DEF TypeOK, Provider
  <1>2. QED
    BY <1>1, NoProviderTyped DEF Return, Rest, Contents, Steps

LEMMA OpsTyped ==
  ASSUME TypeOK, ops' = ops \/ \E op : Env(op)
  PROVE  ops' \in 0..MaxOps
  BY ProviderUpdateAssumption DEF TypeOK, Env

LEMMA SyncerTyped ==
  TypeOK /\ (Resync \/ DeliverSetting \/ Compute \/ Apply \/ Mount) => TypeOK'
  <1> SUFFICES ASSUME TypeOK, Resync \/ DeliverSetting \/ Compute \/ Apply \/ Mount
               PROVE  TypeOK'
    OBVIOUS
  <1>1. Inputs' /\ ProvidersTyped' /\ pc' \in Steps
    BY DEF TypeOK, Inputs, ProvidersTyped, Resync, DeliverSetting, Compute, Apply, Mount,
       inputs, local
  <1>2. StepsTyped'
    <2>1. ops' = ops \/ \E op : Env(op)
      BY DEF Resync, DeliverSetting, Compute, Apply, Mount
    <2>2. QED
      BY <1>1, <2>1, OpsTyped DEF StepsTyped
  <1>3. ObjectsTyped'
    <2>1. CASE Compute
      BY <2>1, TypeParts, ConfigTyped DEF ObjectsTyped, Compute, local
    <2>2. CASE Apply
      BY <2>2, TypeParts DEF ObjectsTyped, Apply, Applied, Contents, local
    <2>3. CASE Resync \/ DeliverSetting \/ Mount
      BY <2>3, TypeParts DEF ObjectsTyped, Resync, DeliverSetting, Mount, syncer, local
    <2>4. QED
      BY <2>1, <2>2, <2>3
  <1>4. QED
    BY <1>1, <1>2, <1>3, TypeParts

\* A reconcile writes the provider and its own copies.
LEMMA ProviderStepTyped == TypeOK /\ ProviderStep => TypeOK'
  <1> SUFFICES ASSUME TypeOK, ProviderStep PROVE TypeOK'
    OBVIOUS
  <1>1. Inputs'
    BY DEF TypeOK, Inputs, ProviderStep, AddFinalizer, Start, ReadFile, Wait,
       SetProviderSpec, Install, Patch, Delete, inputs
  <1>2. CASE Return
    <2>1. ObjectsTyped'
      BY <1>2, ReturnTyped, TypeParts DEF ObjectsTyped, ProviderStep, AddFinalizer,
         Start, ReadFile, Wait, SetProviderSpec, Install, Patch, Delete, syncer
    <2>2. provider' \in Provider
      <3>1. CASE Patch
        BY <3>1 DEF TypeOK, Patch, Provider
      <3>2. CASE Delete
        <4>1. provider.key \in Keys
          BY DEF TypeOK, Provider
        <4>2. QED
          BY <3>2, <4>1, NoProviderTyped DEF Delete, Rest
      <3>3. CASE AddFinalizer
        BY <3>3 DEF TypeOK, AddFinalizer, Provider
      <3>4. CASE ~Patch /\ ~Delete /\ ~AddFinalizer
        BY <3>4 DEF TypeOK, ProviderStep, Start, ReadFile, Wait, SetProviderSpec,
           Install
      <3>5. QED
        BY <3>1, <3>2, <3>3, <3>4
    <2>3. ops' = ops \/ \E op : Env(op)
      BY DEF ProviderStep, AddFinalizer, Start, ReadFile, Wait, SetProviderSpec,
         Install, Patch, Delete
    <2>4. QED
      BY <1>1, <1>2, <2>1, <2>2, <2>3, ReturnTyped, OpsTyped, TypeParts
         DEF ProvidersTyped, StepsTyped
  <1>3. CASE ~Return /\ SetProviderSpec
    <2>1. /\ ~Fails
          /\ p' = SetLatestVersion(p, Offered, IsKnown(Config, p.key))
          /\ pc' = "install"
          /\ UNCHANGED <<configMap, file, syncer, provider, base, mounted, installed, ops>>
      BY <1>3 DEF SetProviderSpec, Chosen
    <2>2. Offered \in Versions
      BY <2>1, TypeParts, ConfigTyped, VersionTyped DEF Offered
    <2>3. p' \in Provider
      BY <2>1, <2>2, SetLatestVersionTyped DEF TypeOK, IsKnown
    <2>4. QED
      BY <1>1, <2>1, <2>3, TypeParts
         DEF ObjectsTyped, ProvidersTyped, StepsTyped, Steps, syncer
  <1>4. CASE ~Return /\ ~SetProviderSpec
    <2>1. AddFinalizer \/ Start \/ ReadFile \/ Wait \/ Install
      BY <1>4 DEF ProviderStep, Patch, Delete
    <2>2. ObjectsTyped' /\ StepsTyped'
      BY <1>4, <2>1, TypeParts DEF ObjectsTyped, StepsTyped, Steps, Contents, AddFinalizer,
         Start, ReadFile, Wait, Install, syncer, local
    <2>3. ProvidersTyped'
      BY <1>4, <2>1, TypeParts DEF ProvidersTyped, Provider, AddFinalizer, Start,
         ReadFile, Wait, Install, local
    <2>4. QED
      BY <1>1, <2>2, <2>3, TypeParts
  <1>5. QED
    BY <1>2, <1>3, <1>4

LEMMA UserTyped ==
  TypeOK /\ (Configure \/ SetRegistry \/ EditConfigMap \/ EditProvider \/ DeleteProvider)
    => TypeOK'
  <1> SUFFICES ASSUME TypeOK, \/ Configure \/ SetRegistry \/ EditConfigMap
                              \/ EditProvider \/ DeleteProvider
               PROVE  TypeOK'
    OBVIOUS
  <1>1. Inputs'
    BY DEF TypeOK, Inputs, Configure, SetRegistry, EditConfigMap, EditProvider,
       DeleteProvider, inputs
  <1>2. ObjectsTyped'
    BY TypeParts DEF ObjectsTyped, Contents, Configure, SetRegistry, EditConfigMap,
       EditProvider, DeleteProvider, syncer, local
  <1>3. StepsTyped'
    <2>1. pc' = pc /\ \E op : Env(op)
      BY DEF Configure, SetRegistry, EditConfigMap, EditProvider, DeleteProvider, local
    <2>2. QED
      BY <2>1, OpsTyped DEF TypeOK, StepsTyped
  <1>4. provider' \in Provider
    <2>1. CASE EditProvider
      <3>1. PICK v \in Wanted, a \in BOOLEAN :
              provider' = [provider EXCEPT !.version = v, !.auto = a]
        BY <2>1 DEF EditProvider
      <3>2. v \in Versions \cup {Unset}
        BY ProviderUpdateAssumption
      <3>3. QED
        BY <3>1, <3>2 DEF TypeOK, Provider
    <2>2. CASE DeleteProvider
      <3>1. provider.key \in Keys
        BY DEF TypeOK, Provider
      <3>2. Rest \in Provider
        BY <3>1, NoProviderTyped DEF Rest
      <3>3. QED
        BY <2>2, <3>2 DEF DeleteProvider, TypeOK, Provider
    <2>3. CASE Configure \/ SetRegistry \/ EditConfigMap
      BY <2>3 DEF TypeOK, Configure, SetRegistry, EditConfigMap
    <2>4. QED
      BY <2>1, <2>2, <2>3
  <1>5. QED
    BY <1>1, <1>2, <1>3, <1>4, TypeParts DEF ProvidersTyped, Configure, SetRegistry,
       EditConfigMap, EditProvider, DeleteProvider, local

LEMMA RestartTyped == TypeOK /\ (Restart \/ Upgrade) => TypeOK'
  <1> SUFFICES ASSUME TypeOK, Restart \/ Upgrade PROVE TypeOK'
    OBVIOUS
  <1>1. Return /\ UNCHANGED <<provider, installed>> /\ \E op : Env(op)
    BY DEF Restart, Upgrade, StartManager
  <1>2. Inputs'
    BY DEF TypeOK, Inputs, Restart, Upgrade, StartManager
  <1>3. ObjectsTyped'
    BY <1>1, ReturnTyped, TypeParts DEF ObjectsTyped, Contents, Restart, Upgrade,
       StartManager
  <1>4. QED
    BY <1>1, <1>2, <1>3, ReturnTyped, OpsTyped, TypeParts DEF ProvidersTyped, StepsTyped

\* Every configuration computed, applied and mounted is one, and every version a
\* provider is set to is one a configuration may name (ClusterConfig,
\* setLatestVersion).
THEOREM TypeCorrect == Spec => []TypeOK
  <1>1. ASSUME TypeOK, UNCHANGED vars PROVE TypeOK'
    BY <1>1 DEF TypeOK, vars
  <1>2. TypeOK /\ [Next]_vars => TypeOK'
    BY <1>1, SyncerTyped, ProviderStepTyped, UserTyped, RestartTyped DEF Next
  <1>3. QED
    BY TypeInit, <1>2, PTL DEF Spec

-----------------------------------------------------------------------------
(***************************************************************************)
(* Rest: what ConfigConverges and VersionSettles wait for lasts.           *)
(***************************************************************************)
\* ConfigMap and file say what ClusterConfig computes, and nothing else is about
\* to be applied.
ConfigResting ==
  /\ ~Fails /\ settingCache = setting
  /\ configMap = Config /\ file = configMap
  /\ computed \in {None, Config}

SettledFor(config, o) ==
  LET version == ProviderVersion(config, o.key) IN
  IF IsKnown(config, o.key)
  THEN \/ LatestFails(version, o.version)
       \/ o.check = "LatestVersionSet" /\ o.version = version
       \/ /\ o.check = "UpdateAvailable"
          /\ ~o.auto
          /\ o.version \notin Semver \/ o.version < version
  ELSE o.check = "ProviderUnknown"

\* The provider is settled, and so is the copy of a Reconcile that is on its way
\* and has read it as it is.
VersionResting ==
  /\ provider.ex /\ ~provider.del
  /\ VersionSettled
  /\ pc # "delete"
  /\ pc # "idle" => /\ base = provider
                    /\ SettledFor(Config, p)
                    /\ p.key = provider.key /\ p.auto = provider.auto

NobodyConfigures == UNCHANGED <<release, user, setting>> /\ ~EditConfigMap
NobodyEdits == NobodyConfigures /\ ~EditProvider /\ ~DeleteProvider

RestLasts ==
  [][/\ ConfigResting /\ NobodyConfigures => ConfigResting'
     /\ ConfigResting /\ VersionResting /\ NobodyEdits => VersionResting']_vars

LEMMA SettledIs == VersionSettled <=> SettledFor(Config, provider)
  BY DEF VersionSettled, Version0, SettledFor

\* SetLatestVersion keeps what is settled settled; a version that does not parse
\* is an error before.
LEMMA SetLatestVersionSettled ==
  ASSUME NEW o \in Provider, NEW config, NEW version \in Versions,
         version = ProviderVersion(config, o.key),
         ~LatestFails(version, o.version), SettledFor(config, o)
  PROVE  LET new == SetLatestVersion(o, version, IsKnown(config, o.key)) IN
         SettledFor(config, new) /\ new.key = o.key /\ new.auto = o.auto
  <1> DEFINE known == IsKnown(config, o.key)
             latest == IsLatestVersion(version, o.version)
             new == SetLatestVersion(o, version, known)
  <1>0. MaxVersion \in Nat
    BY ClusterctlConfigAssumption
  <1>1. known \in BOOLEAN /\ latest \in BOOLEAN /\ o.auto \in BOOLEAN
    BY DEF IsKnown, IsLatestVersion, Provider
  <1>2. CASE ~known
    <2>1. new = [o EXCEPT !.check = "ProviderUnknown"]
      BY <1>2 DEF SetLatestVersion
    <2>2. QED
      BY <1>2, <2>1 DEF SettledFor, Provider
  <1>3. CASE known /\ latest
    <2>1. new = [o EXCEPT !.check = "LatestVersionSet", !.version = version]
      BY <1>3 DEF SetLatestVersion
    <2>2. QED
      BY <1>3, <2>1 DEF SettledFor, Provider
  <1>4. CASE known /\ ~latest /\ ~o.auto
    <2>1. new = [o EXCEPT !.check = "UpdateAvailable"]
      BY <1>4 DEF SetLatestVersion
    <2>2. o.version \notin Semver \/ o.version < version
      BY <1>0, <1>4 DEF IsLatestVersion, Versions, Semver, Latest, Invalid
    <2>3. QED
      BY <1>4, <2>1, <2>2 DEF SettledFor, Provider
  <1>5. CASE known /\ ~latest /\ o.auto
    <2>1. o.version = version
      BY <1>5 DEF SettledFor
    <2>2. QED
      BY <1>0, <1>5, <2>1 DEF LatestFails, IsLatestVersion, Versions, Semver
  <1>6. QED
    BY <1>1, <1>2, <1>3, <1>4, <1>5

LEMMA ConfigStays ==
  UNCHANGED <<release, user, settingCache>> => Config' = Config /\ Fails' = Fails
  BY DEF Config, Fails, ConfigOf, Computations, Computable

LEMMA ConfigRests ==
  ConfigResting /\ [Next]_vars /\ NobodyConfigures
    => ConfigResting' /\ UNCHANGED <<release, user, settingCache>>
  <1> SUFFICES ASSUME ConfigResting, [Next]_vars, NobodyConfigures
               PROVE  ConfigResting' /\ UNCHANGED <<release, user, settingCache>>
    OBVIOUS
  <1>1. CASE \/ Resync \/ DeliverSetting \/ Compute \/ Apply \/ Mount \/ UNCHANGED vars
    <2>1. UNCHANGED <<release, user, settingCache>>
      BY <1>1 DEF ConfigResting, Resync, DeliverSetting, Compute, Apply, Mount,
         inputs, vars
    <2>2. /\ configMap' = Config /\ file' = Config
          /\ computed' \in {None, Config}
      BY <1>1 DEF ConfigResting, Resync, DeliverSetting, Compute, Apply, Applied,
         Mount, syncer, vars
    <2>3. QED
      BY <2>1, <2>2, ConfigStays DEF ConfigResting, NobodyConfigures
  <1>2. CASE ProviderStep \/ EditProvider \/ DeleteProvider
    <2>1. UNCHANGED <<release, user, settingCache, configMap, file, computed>>
      BY <1>2 DEF ProviderStep, AddFinalizer, Start, ReadFile, Wait, SetProviderSpec,
         Install, Patch, Delete, EditProvider, DeleteProvider, inputs, syncer
    <2>2. QED
      BY <2>1, ConfigStays DEF ConfigResting, NobodyConfigures
  <1>3. CASE Restart
    <2>1. /\ UNCHANGED <<release, user, settingCache, configMap, file>>
          /\ computed' = None
      BY <1>3 DEF ConfigResting, Restart, StartManager
    <2>2. QED
      BY <2>1, ConfigStays DEF ConfigResting, NobodyConfigures
  <1>4. ~Configure /\ ~SetRegistry /\ ~EditConfigMap /\ ~Upgrade
    BY DEF NobodyConfigures, Configure, SetRegistry, Upgrade
  <1>5. QED
    BY <1>1, <1>2, <1>3, <1>4 DEF Next

LEMMA VersionRests ==
  TypeOK /\ ConfigResting /\ VersionResting /\ [Next]_vars /\ NobodyEdits
    => VersionResting'
  <1> SUFFICES ASSUME TypeOK, ConfigResting, VersionResting, [Next]_vars, NobodyEdits
               PROVE  VersionResting'
    OBVIOUS
  <1>1. UNCHANGED <<release, user, settingCache>> /\ Config' = Config
    BY ConfigRests, ConfigStays DEF NobodyEdits
  <1>2. SettledFor(Config, provider)
    BY SettledIs DEF VersionResting
  <1>3. VersionSettled' <=> SettledFor(Config, provider')
    BY <1>1 DEF VersionSettled, Version0, SettledFor
  <1>4. provider' = provider /\ UNCHANGED <<pc, p, base>> => VersionResting'
    BY <1>1, <1>2, <1>3 DEF VersionResting
  <1>5. provider' = provider /\ pc' = "idle" => VersionResting'
    BY <1>2, <1>3 DEF VersionResting
  <1>6. CASE AddFinalizer
    <2>1. /\ provider' = [provider EXCEPT !.fin = TRUE]
          /\ pc' = "idle"
      BY <1>6 DEF AddFinalizer, local
    <2>2. SettledFor(Config, provider')
      BY <1>2, <2>1 DEF SettledFor, TypeOK, Provider
    <2>3. QED
      BY <1>3, <2>1, <2>2 DEF VersionResting, TypeOK, Provider
  <1>7. CASE Start
    BY <1>1, <1>2, <1>3, <1>7 DEF Start, VersionResting
  <1>8. CASE ReadFile \/ Wait
    <2>1. UNCHANGED provider /\ (pc' = "idle" \/ UNCHANGED <<p, base>>)
      BY <1>8 DEF ReadFile, Wait, Return
    <2>2. pc # "idle" /\ pc' # "delete"
      BY <1>8 DEF ReadFile, Wait, Return, VersionResting
    <2>3. QED
      BY <1>1, <1>2, <1>3, <1>5, <2>1, <2>2 DEF VersionResting
  <1>9. CASE SetProviderSpec
    <2>1. CASE Return
      BY <1>5, <1>9, <2>1 DEF SetProviderSpec, Return
    <2>2. CASE ~Return
      <3>1. /\ Chosen
            /\ p' = SetLatestVersion(p, Offered, IsKnown(Config, p.key))
            /\ pc = "setSpec" /\ pc' = "install"
            /\ UNCHANGED <<provider, base>>
        BY <1>9, <2>2 DEF SetProviderSpec
      <3>2. p \in Provider /\ SettledFor(Config, p)
        BY <3>1 DEF VersionResting, TypeOK
      <3>3. Offered \in Versions
        BY <3>1, TypeParts, ConfigTyped, VersionTyped DEF Offered, Chosen
      <3>4. SettledFor(Config, p') /\ p'.key = p.key /\ p'.auto = p.auto
        BY <3>1, <3>2, <3>3, SetLatestVersionSettled DEF Offered, Chosen
      <3>5. QED
        BY <1>1, <1>2, <1>3, <3>1, <3>4 DEF VersionResting
    <2>3. QED
      BY <2>1, <2>2
  <1>10. CASE Install
    BY <1>1, <1>2, <1>3, <1>10 DEF Install, VersionResting
  <1>11. CASE Patch
    <2>1. pc' = "idle"
      BY <1>11 DEF Patch, Return
    <2>2. CASE UNCHANGED provider
      BY <1>5, <2>1, <2>2
    <2>3. CASE ~UNCHANGED provider
      <3>1. /\ provider' = [provider EXCEPT
                  !.version = IF p.version = base.version THEN @ ELSE p.version,
                  !.check = IF p.check = base.check THEN @ ELSE p.check]
            /\ base = provider /\ SettledFor(Config, p)
            /\ p.key = provider.key /\ p.auto = provider.auto
        BY <1>11, <2>3 DEF Patch, VersionResting
      <3>2. /\ provider'.version = p.version /\ provider'.check = p.check
            /\ provider'.key = p.key /\ provider'.auto = p.auto
            /\ provider'.ex = provider.ex /\ provider'.del = provider.del
        BY <3>1 DEF TypeOK, Provider
      <3>3. SettledFor(Config, provider')
        BY <3>1, <3>2 DEF SettledFor
      <3>4. QED
        BY <1>3, <2>1, <3>2, <3>3 DEF VersionResting
    <2>4. QED
      BY <2>2, <2>3
  <1>12. ~Delete
    BY DEF VersionResting, Delete
  <1>13. CASE Restart
    BY <1>5, <1>13 DEF Restart, StartManager, Return
  <1>14. CASE \/ Resync \/ DeliverSetting \/ Compute \/ Apply \/ Mount \/ UNCHANGED vars
    BY <1>4, <1>14 DEF Resync, DeliverSetting, Compute, Apply, Mount, local, vars
  <1>15. ~Configure /\ ~SetRegistry /\ ~EditConfigMap /\ ~Upgrade
         /\ ~EditProvider /\ ~DeleteProvider
    BY DEF NobodyEdits, NobodyConfigures, Configure, SetRegistry, Upgrade
  <1>16. QED
    BY <1>6, <1>7, <1>8, <1>9, <1>10, <1>11, <1>12, <1>13, <1>14, <1>15
       DEF Next, ProviderStep

\* What ConfigConverges and VersionSettles wait for is rest: once ConfigMap and
\* file say what is computed, and the provider has the version this allows,
\* nothing turtles does, no failed call and no restart disturbs either, until
\* someone edits something or turtles is upgraded (SyncConfigMap,
\* setLatestVersion).
THEOREM RestSafety == Spec => RestLasts
  <1>1. TypeOK /\ [Next]_vars
          => [/\ ConfigResting /\ NobodyConfigures => ConfigResting'
              /\ ConfigResting /\ VersionResting /\ NobodyEdits => VersionResting']_vars
    BY ConfigRests, VersionRests
  <1>2. QED
    BY <1>1, TypeCorrect, PTL DEF Spec, RestLasts
=============================================================================
