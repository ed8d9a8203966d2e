------------------------- MODULE MCTranscriptWriter -------------------------
(* Small instances of TranscriptWriter for TLC.  Entries are numbered and  *)
(* turns are ordered, so nothing is symmetric.                             *)
EXTENDS TranscriptWriter
=============================================================================
