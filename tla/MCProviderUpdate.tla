--------------------------- MODULE MCProviderUpdate ---------------------------
(***************************************************************************)
(* Instances of ProviderUpdate for TLC: a release without the registry     *)
(* feature and one with it, a provider turtles ships and one it does not.  *)
(***************************************************************************)
EXTENDS ProviderUpdate, TLC

CONSTANTS shipped, other, core, extra, host, org, mirror

Entry(k, v) == [key |-> k, version |-> v]
Pulled(c, e) == (core :> c @@ extra :> e)

MCEmbedded == <<
  [providers |-> <<Entry(shipped, 1)>>,
   images |-> Pulled(<<org>>, Unlisted), useDefaultRegistry |-> FALSE],
  [providers |-> <<Entry(shipped, 2)>>,
   images |-> Pulled(<<host, org>>, Unlisted), useDefaultRegistry |-> TRUE] >>

\* Two words on a shipped provider, two on another one, and a URL that names no
\* version.
MCUsers == {
  [providers |-> <<Entry(shipped, 2), Entry(shipped, 1), Entry(other, 2),
                   Entry(other, 1)>>,
   images |-> Pulled(Unlisted, <<host, org>>)],
  [providers |-> <<Entry(shipped, Latest), Entry(other, Invalid)>>,
   images |-> Pulled(<<host, org>>, Unlisted)] }

Ask(k, v, a) == [key |-> k, version |-> v, auto |-> a]
MCAsked == {Ask(shipped, Unset, FALSE), Ask(shipped, 1, FALSE),
            Ask(shipped, 1, TRUE), Ask(other, 2, FALSE)}
MCWanted == {Unset, 1, 2}
=============================================================================
