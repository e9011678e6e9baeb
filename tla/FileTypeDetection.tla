-------------------------- MODULE FileTypeDetection --------------------------
(***************************************************************************)
(* detect_audio_file_type() (src/src/types.cpp).  A Content-Type and a URL *)
(* are sequences of lexemes, compared without regard to case.  Of a        *)
(* Content-Type these are the MIME types searched for, "opus", "url" and   *)
(* "ts" (text beginning so), "word" (any other text of letters and digits) *)
(* and "sep" (text of neither); of a URL ".", "?", the extensions and      *)
(* "word".  No MIME type searched for is hidden in another lexeme, or in   *)
(* two that follow each other.                                             *)
(*                                                                         *)
(* codecs are the codecs compiled in.                                      *)
(***************************************************************************)
EXTENDS Integers, Sequences

AllTypes == {"FLAC", "MP3", "OPUS", "VORBIS", "WAV"}
NONE == "NONE"

Contains(text, needle) == \E i \in DOMAIN text : text[i] = needle
ContainsAny(text, needles) == \E needle \in needles : Contains(text, needle)

(* Bounded by text of neither letters nor digits, or by the ends.          *)
ContainsToken(text, needle) ==
  \E i \in DOMAIN text :
    /\ text[i] = needle
    /\ i > 1 => text[i - 1] = "sep"
    /\ i < Len(text) => text[i + 1] = "sep"

(* audio/mpegurl is a playlist and audio/mpegts a container.               *)
ContainsMpegAudioType(text, needle) ==
  \E i \in DOMAIN text :
    /\ text[i] = needle
    /\ i < Len(text) => text[i + 1] \notin {"url", "ts"}

NamesMp3(text) ==
  \E needle \in {"audio/mpeg", "audio/mp3", "audio/x-mpeg"} :
    ContainsMpegAudioType(text, needle)

NamesOgg(text) == ContainsAny(text, {"audio/ogg", "application/ogg"})

NamesOpus(text) ==
  \/ Contains(text, "audio/opus")
  \/ NamesOgg(text) /\ ContainsToken(text, "opus")

IfBuilt(type, codecs) == IF type \in codecs THEN type ELSE NONE

TypeFromContentType(text, codecs) ==
  IF "FLAC" \in codecs /\ ContainsAny(text, {"audio/flac", "audio/x-flac"})
  THEN "FLAC"
  ELSE IF "MP3" \in codecs /\ NamesMp3(text) THEN "MP3"
  ELSE IF NamesOpus(text) THEN IfBuilt("OPUS", codecs)
  ELSE IF NamesOgg(text) \/ Contains(text, "audio/vorbis")
  THEN IfBuilt("VORBIS", codecs)
  ELSE IF ContainsAny(text, {"audio/wav", "audio/x-wav"})
  THEN IfBuilt("WAV", codecs)
  ELSE NONE

-----------------------------------------------------------------------------
(* The URL up to its query.                                                *)
Path(url) ==
  LET queries == {i \in DOMAIN url : url[i] = "?"}
  IN  IF queries = {} THEN url
      ELSE SubSeq(url, 1, (CHOOSE i \in queries : \A j \in queries : i <= j) - 1)

(* What follows the last dot of the path.                                  *)
Extension(url) ==
  LET path == Path(url)
      dots == {i \in DOMAIN path : path[i] = "."}
  IN  IF dots = {} THEN <<>>
      ELSE SubSeq(path, 1 + CHOOSE i \in dots : \A j \in dots : i >= j, Len(path))

TypeOfExtension ==
  [flac |-> "FLAC", mp3 |-> "MP3", opus |-> "OPUS", ogg |-> "VORBIS", wav |-> "WAV"]

TypeFromUrlExtension(url, codecs) ==
  LET ext == Extension(url)
  IN  IF Len(ext) = 1 /\ ext[1] \in DOMAIN TypeOfExtension
      THEN IfBuilt(TypeOfExtension[ext[1]], codecs)
      ELSE NONE

(* The Content-Type first, then the extension.                             *)
DetectAudioFileType(content_type, url, codecs) ==
  LET type == TypeFromContentType(content_type, codecs)
  IN  IF type # NONE THEN type ELSE TypeFromUrlExtension(url, codecs)
=============================================================================
