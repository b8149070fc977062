----------------------- MODULE MCCredentialTranslation -----------------------
(***************************************************************************)
(* TLC instances of CredentialTranslation: one credential, its constants   *)
(* given by the configurations.                                            *)
(***************************************************************************)
EXTENDS CredentialTranslation
=============================================================================
