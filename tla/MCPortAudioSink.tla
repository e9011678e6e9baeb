--------------------------- MODULE MCPortAudioSink ---------------------------
(* Small instances of PortAudioSink for TLC.                                *)
EXTENDS PortAudioSink, TLC
=============================================================================
