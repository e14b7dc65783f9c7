----------------------------- MODULE MCAssFilter -----------------------------
(***************************************************************************)
(* Instances of AssFilter for TLC: two ASS streams (one with a matrix that *)
(* SetMediaType does not know), an SRT and a PGS stream, and three media   *)
(* files with external subtitles, one of them with none.                   *)
(***************************************************************************)
EXTENDS AssFilter

MCStreamType ==
  [s \in Streams |->
     CASE s \in {"assStream", "pcStream"} -> "ASS" [] s = "srtStream" -> "SRT" [] s = "pgsStream" -> "PGS"]
MCStreamMatrix ==
  [s \in Streams |->
     CASE s = "assStream" -> "TV.709" [] s = "pcStream" -> "PC.601" [] OTHER -> "absent"]

MCFileType == [assFile |-> "ASS", srtFile |-> "SRT", otherFile |-> "ASS"]
MCFileMatrix == [assFile |-> "PC.601", srtFile |-> "absent", otherFile |-> "absent"]
MCMediaFiles ==
  [md \in Media |->
     CASE md = "film" -> <<"srtFile", "assFile">>
       [] md = "series" -> <<"otherFile">>
       [] md = "clip" -> <<>>]

=============================================================================
