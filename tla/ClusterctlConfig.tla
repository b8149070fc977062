---------------------------- MODULE ClusterctlConfig ----------------------------
(***************************************************************************)
(* The configuration clusterctl works with (clusterctl/config.go): what is *)
(* embedded in a release of turtles, overlaid with the ClusterctlConfig of *)
(* the user and with Rancher's default registry, and what it says about    *)
(* the version of a provider.                                              *)
(***************************************************************************)
EXTENDS Integers, Sequences

CONSTANTS
  Keys,        \* providers, by name and type
  Images,      \* names of images
  Parts,       \* components of a repository: registry.k8s.io/capi is two
  MaxVersion,  \* semantic versions are numbered in their order
  Releases,    \* releases of turtles
  Embedded,    \* the configuration each release embeds
  Users,       \* the ClusterctlConfigs users write
  Registries,  \* registries Rancher may be set to
  None         \* no such object

\* A version is the last but one component of a URL: a semantic version, the
\* word latest, or something that does not parse.  A provider may leave it out.
Semver == 1..MaxVersion
Latest == 0
Unset == -1
Invalid == -2
Versions == Semver \cup {Latest, Invalid}

\* The order of the list counts.  A name without an entry has no repository;
\* tags are left out, they go where the repository goes.
Providers == Seq([key : Keys, version : Versions])
Repositories == [Images -> Seq(Parts)]
Unlisted == <<>>
Configurations == [providers : Providers, images : Repositories]

ASSUME ClusterctlConfigAssumption ==
  /\ MaxVersion \in Nat
  /\ Embedded \in [Releases -> [providers : Providers, images : Repositories,
                                useDefaultRegistry : BOOLEAN]]
  /\ Users \subseteq Configurations
  /\ Registries \subseteq Parts
  /\ None \notin Users /\ None \notin Registries \cup {""}
  /\ "" \notin Registries

Listed(ps, k) == {i \in DOMAIN ps : ps[i].key = k}
First(is) == CHOOSE i \in is : \A j \in is : i <= j
Last(is) == CHOOSE i \in is : \A j \in is : j <= i

\* The providers loop: overrides of providers that are not embedded are appended,
\* all of them, since existingProviders does not learn of them.
Appended(ps, overrides) ==
  LET appended[n \in 0..Len(overrides)] ==
        IF n = 0 THEN <<>>
        ELSE IF Listed(ps, overrides[n].key) # {} THEN appended[n - 1]
        ELSE Append(appended[n - 1], overrides[n])
  IN  appended[Len(overrides)]

\* An override replaces the entry existingProviders names, where a later entry
\* displaces an earlier one.
MergeFirstOverride(ps, overrides) ==
  [i \in DOMAIN ps |->
     LET os == Listed(overrides, ps[i].key)
     IN  IF os # {} THEN overrides[First(os)] ELSE ps[i]]
  \o Appended(ps, overrides)
MergeProviders(ps, overrides) ==
  [i \in DOMAIN ps |->
     LET os == Listed(overrides, ps[i].key)
     IN  IF os # {} /\ i = Last(Listed(ps, ps[i].key))
         THEN overrides[Last(os)]
         ELSE ps[i]]
  \o Appended(ps, overrides)

\* extractNamespace drops the registry, if there is one.
Namespace(repository) == IF Len(repository) > 1 THEN Tail(repository)
                                                ELSE repository

\* The default registry rewrites the embedded images, the user's come last.
MergeImages(images, registry, overrides) ==
  [m \in Images |->
     CASE overrides[m] # Unlisted -> overrides[m]
       [] overrides[m] = Unlisted /\ images[m] # Unlisted /\ registry # "" ->
            <<registry>> \o Namespace(images[m])
       [] OTHER -> images[m]]

NoOverrides == [providers |-> <<>>, images |-> [m \in Images |-> Unlisted]]

\* The setting is needed only with the feature UseRancherDefaultRegistry.
FailsNever(r, value) == FALSE
ConfigFails(r, value) ==
  Embedded[r].useDefaultRegistry /\ value = None

Overrides(u) == IF u = None THEN NoOverrides ELSE u
Registry(r, value) ==
  IF Embedded[r].useDefaultRegistry THEN value ELSE ""

ClusterConfig(r, u, value) ==
  [providers |-> MergeProviders(Embedded[r].providers,
                                Overrides(u).providers),
   images |-> MergeImages(Embedded[r].images, Registry(r, value),
                          Overrides(u).images)]

\* GetProviderVersion and collectVersion.
IsKnown(config, k) == Listed(config.providers, k) # {}
ProviderVersion(config, k) ==
  IF IsKnown(config, k)
  THEN config.providers[First(Listed(config.providers, k))].version
  ELSE Latest

\* IsLatestVersion: an error, or whether the provider must be set to the
\* version.  A newer version than the configured one must, an older one may.
LatestFails(version, expected) ==
  \/ version = Invalid
  \/ version # Latest /\ expected = Invalid
IsOlderVersion(version, expected) ==
  \/ version = Latest
  \/ expected \in Semver /\ version < expected
IsLatestVersion(version, expected) ==
  \/ version = Latest
  \/ expected \in Semver /\ version <= expected
=============================================================================
