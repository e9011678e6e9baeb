--------------------------- MODULE MCHostHttpClient ---------------------------
(* Small instances of HostHttpClient for TLC.                               *)
EXTENDS HostHttpClient, TLC
=============================================================================
