--------------------------- MODULE MCEtwLifecycle ---------------------------
(***************************************************************************)
(* Small instances of EtwLifecycle for TLC.                                *)
(***************************************************************************)
EXTENDS EtwLifecycle

=============================================================================
