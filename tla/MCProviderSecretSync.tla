------------------------ MODULE MCProviderSecretSync ------------------------
(***************************************************************************)
(* Instances of ProviderSecretSync for TLC.                                *)
(***************************************************************************)
EXTENDS ProviderSecretSync, TLC
=============================================================================
