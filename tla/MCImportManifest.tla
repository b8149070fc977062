--------------------------- MODULE MCImportManifest ---------------------------
(***************************************************************************)
(* Instances of ImportManifest for TLC: a role, the namespace of the agent *)
(* and the agent in it.                                                    *)
(***************************************************************************)
EXTENDS ImportManifest

\* One for each certificate Rancher may have.  Where one follows the other the
\* cache also holds a mistake for a while: strict mode without certificates.
MCSettings == {[mode |-> "", cacerts |-> FALSE], [mode |-> "strict", cacerts |-> TRUE]}
=============================================================================
