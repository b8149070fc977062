------------------------ MODULE MCProviderCertificates ------------------------
(***************************************************************************)
(* Instances of ProviderCertificates for TLC: manifests in which webhooks  *)
(* share a Service or a Certificate, and two that cannot be patched.       *)
(***************************************************************************)
EXTENDS ProviderCertificates, TLC

CONSTANTS a, b, x, y, s, t

Make(ofA, ofB, injects, uses) ==
  [secretName |-> (a :> ofA @@ b :> ofB), inject |-> injects, services |-> uses]
Injects(crd, first, second) == (0 :> crd @@ 1 :> first @@ 2 :> second)

MCManifests ==
  { Make(x, None, Injects(a, a, None), <<{s}, {t}>>),
    Make(x, y, Injects(None, a, b), <<{s}, {s, t}>>),
    Make(x, None, Injects(None, a, b), <<{s}, {t}>>),
    Make(x, Unnamed, Injects(b, a, b), <<{s}, {t}>>) }
=============================================================================
