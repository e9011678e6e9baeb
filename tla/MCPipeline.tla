----------------------------- MODULE MCPipeline -----------------------------
(* A small instance of Pipeline for TLC: the rows of INTEGRATION.md's table *)
(* with texts that only resemble them, and URLs that mislead.               *)
EXTENDS Pipeline, TLC

NamedTypes ==
  << >> :> NONE
  @@ <<"word">> :> NONE
  @@ <<"audio/x-flac">> :> "FLAC"
  @@ <<"audio/mpeg">> :> "MP3"
  @@ <<"audio/mpeg", "word">> :> "MP3"
  @@ <<"audio/mpeg", "url">> :> NONE
  @@ <<"audio/mpeg", "ts">> :> NONE
  @@ <<"audio/opus">> :> "OPUS"
  @@ <<"audio/ogg", "sep", "opus">> :> "OPUS"
  @@ <<"audio/ogg", "sep", "word", "opus">> :> "VORBIS"
  @@ <<"application/ogg">> :> "VORBIS"
  @@ <<"audio/vorbis">> :> "VORBIS"
  @@ <<"audio/wav", "word">> :> "WAV"

ExtensionTypes ==
  <<"word">> :> NONE
  @@ <<"word", ".", "mp3">> :> "MP3"
  @@ <<"word", ".", "ogg">> :> "VORBIS"
  @@ <<"word", ".", "flac", "?", "word", ".", "mp3">> :> "FLAC"
  @@ <<"word", "?", "word", ".", "wav">> :> NONE
  @@ <<"word", ".", "mp3", ".", "opus">> :> "OPUS"
  @@ <<"word", ".", "wav", "word">> :> NONE

TypesNamed == DOMAIN NamedTypes
UrlsGiven == DOMAIN ExtensionTypes

(* Everything, one codec left out, one alone. *)
BuildsTried ==
  {AllTypes} \cup {AllTypes \ {type} : type \in AllTypes} \cup {{"FLAC"}}
=============================================================================
