------------------------- MODULE MCProductionKeyStore -------------------------
(***************************************************************************)
(* A small instance of ProductionKeyStore: two requests at once, and every *)
(* setting of the environment.                                             *)
(***************************************************************************)
EXTENDS ProductionKeyStore

MCEnvironments ==
  [KEY_BACKEND : {"", "auto", "vault", "gcp-kms", "memory", "other"},
   vaultEnabled : BOOLEAN, vaultConfigured : BOOLEAN, kmsEnabled : BOOLEAN]
=============================================================================
