--------------------------- MODULE MCComposeStack ---------------------------
(* Small instances of ComposeStack for TLC.                                *)
EXTENDS ComposeStack

\* The calls for the gateway and the database, whose owners differ.
TwoCalls == <<CreateSecrets[1], CreateSecrets[4]>>
=============================================================================
