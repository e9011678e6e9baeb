---------------------------- MODULE MCEspHttpClient ----------------------------
(* Small instances of EspHttpClient for TLC.                                *)
EXTENDS EspHttpClient, TLC
=============================================================================
