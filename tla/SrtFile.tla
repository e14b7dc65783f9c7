------------------------------- MODULE SrtFile -------------------------------
(***************************************************************************)
(* srt_read_file: an SRT file is read line by line from a standard stream  *)
(* and turned into the events of a libass track.                           *)
(*                                                                         *)
(* A line is known by its place in the file and its kind.  "time" lines    *)
(* are those sscanf_s reads two time codes from; the number above them and *)
(* the subtitle itself are "text".  A "long" line does not fit the buffer  *)
(* it is read into.  A "wide" one does, but not the 1024 bytes the line of *)
(* the track is written into, behind its times and tags.  In a subtitle    *)
(* with a "fatal" line ParseSrtLine does not return (see SrtLine): it goes *)
(* on for ever or throws.  What else ParseSrtLine and the conversion to    *)
(* UTF-8 change in a subtitle is not part of this module.                  *)
(***************************************************************************)
EXTENDS Integers, SequencesExt

CONSTANTS
  Capacity,  \* the lines of ordinary text that fit the line of the track
  MaxLines   \* bound: the lines of a file

ASSUME FileAssumption == Capacity \in Nat /\ MaxLines \in Nat

LongKinds == {"longTime", "longText"}
Kinds == {"blank", "time", "text", "wide", "fatal"} \cup LongKinds
TimeKinds == {"time", "longTime"}

VARIABLES
  opened,      \* could the file be opened?
  file,        \* the kinds of its lines
  terminated,  \* does its last line end with a newline?
  read,        \* the lines read
  eof, fail,   \* the stream's eofbit and failbit
  inBuffer,    \* what the last getline stored: "" for nothing
  loop,        \* the loop: "outer" (looks for a time line), "inner", "done", or
               \* "stuck" in ParseSrtLine or left by what that "threw"
  block,       \* the block being read: its time line and its text lines
  events       \* the track: the blocks given to ass_process_data

fileVars == <<opened, file, terminated>>
streamVars == <<read, eof, fail, inBuffer>>
readerVars == <<fileVars, streamVars, loop, block, events>>

\* The stream of a file that cannot be opened has failed from the start.
FileInit ==
  /\ opened \in BOOLEAN
  /\ file \in SeqOf(Kinds, MaxLines)
  /\ terminated \in BOOLEAN
  /\ ~terminated => file # <<>> /\ Last(file) # "blank"
  /\ read = 0
  /\ eof = FALSE
  /\ fail = ~opened
  /\ inBuffer = ""
  /\ loop = "outer"
  /\ block = [start |-> 0, text |-> <<>>]
  /\ events = <<>>

-----------------------------------------------------------------------------

Content(kind) ==
  CASE kind = "blank" -> ""
    [] kind \in TimeKinds -> "time"
    [] OTHER -> "text"

\* The line to be read next is the last one and ends with the file.
EndsAtUnterminatedLine == read + 1 = Len(file) /\ ~terminated

\* istream::getline.  A stream that is not good stores the empty string and
\* fails; so does one with nothing left, which also ends.  A line that is too
\* long is cut and the stream fails, without having ended.
GetLineLongIsEof ==
  IF eof \/ fail
  THEN fail' = TRUE /\ inBuffer' = "" /\ UNCHANGED <<read, eof>>
  ELSE IF read = Len(file)
  THEN eof' = TRUE /\ fail' = TRUE /\ inBuffer' = "" /\ UNCHANGED read
  ELSE /\ read' = read + 1
       /\ inBuffer' = Content(file[read + 1])
       /\ fail' = FALSE
       /\ eof' = (EndsAtUnterminatedLine \/ file[read + 1] \in LongKinds)

GetLineNeverEof ==
  IF eof \/ fail \/ read = Len(file)
  THEN fail' = TRUE /\ inBuffer' = "" /\ UNCHANGED <<read, eof>>
  ELSE /\ read' = read + 1
       /\ inBuffer' = Content(file[read + 1])
       /\ fail' = (file[read + 1] \in LongKinds)
       /\ UNCHANGED eof

GetLine ==
  IF eof \/ fail
  THEN fail' = TRUE /\ inBuffer' = "" /\ UNCHANGED <<read, eof>>
  ELSE IF read = Len(file)
  THEN eof' = TRUE /\ fail' = TRUE /\ inBuffer' = "" /\ UNCHANGED read
  ELSE /\ read' = read + 1
       /\ inBuffer' = Content(file[read + 1])
       /\ fail' = (file[read + 1] \in LongKinds)
       /\ eof' = (EndsAtUnterminatedLine /\ file[read + 1] \notin LongKinds)

\* The outer loop: it ends at the end of the file, and skips every line but a
\* time line.
EndOfFile ==
  /\ loop = "outer"
  /\ eof
  /\ loop' = "done"
  /\ UNCHANGED <<fileVars, streamVars, block, events>>

SkipLine ==
  /\ loop = "outer"
  /\ ~eof
  /\ GetLine
  /\ inBuffer' # "time"
  /\ UNCHANGED <<fileVars, loop, block, events>>

TimeLine ==
  /\ loop = "outer"
  /\ ~eof
  /\ GetLine
  /\ inBuffer' = "time"
  /\ loop' = "inner"
  /\ block' = [start |-> read', text |-> <<>>]
  /\ UNCHANGED <<fileVars, events>>

\* The inner loop: every line up to the next empty one is text of the block.
TextLine ==
  /\ loop = "inner"
  /\ GetLine
  /\ inBuffer' # ""
  /\ block' = [block EXCEPT !.text = Append(@, read')]
  /\ UNCHANGED <<fileVars, loop, events>>

HasFatalLine == \E i \in 1 .. Len(block.text) : file[block.text[i]] = "fatal"

\* The line written for a block is cut where the buffer is full: what it has is
\* the text in front of the first line that does not fit, and a part of that line,
\* which is not kept here (_TRUNCATE).
Written ==
  LET whole == {n \in 0 .. Len(block.text) :
                  /\ n <= Capacity
                  /\ \A i \in 1 .. n : file[block.text[i]] # "wide"}
  IN  [block EXCEPT !.text = SubSeq(@, 1, Max(whole))]

\* At an empty line, and when the stream has nothing more, the block is over.
EndBlockAtBlank ==
  /\ loop = "inner"
  /\ ~HasFatalLine
  /\ GetLine
  /\ inBuffer' = ""
  /\ loop' = "outer"
  /\ events' = IF fail' THEN events ELSE Append(events, Written)
  /\ UNCHANGED <<fileVars, block>>

EndBlock ==
  /\ loop = "inner"
  /\ ~HasFatalLine
  /\ GetLine
  /\ inBuffer' = ""
  /\ loop' = "outer"
  /\ events' = Append(events, Written)
  /\ UNCHANGED <<fileVars, block>>

ParseFails ==
  /\ loop = "inner"
  /\ HasFatalLine
  /\ GetLine
  /\ inBuffer' = ""
  /\ loop' \in {"stuck", "threw"}
  /\ UNCHANGED <<fileVars, block, events>>

FileNext == EndOfFile \/ SkipLine \/ TimeLine \/ TextLine \/ EndBlock \/ ParseFails

FileSpec == FileInit /\ [][FileNext]_readerVars

\* The function runs to its end on the thread that called it.
FairFileSpec == FileSpec /\ WF_readerVars(FileNext)

-----------------------------------------------------------------------------
(* Properties.                                                             *)

\* The reference: a block starts at a time line with no other time line
\* between it and the blank line before it, and has the lines up to the next
\* blank one.
BlockStarts ==
  {i \in 1 .. Len(file) :
     /\ file[i] \in TimeKinds
     /\ \A j \in 1 .. i - 1 :
          file[j] \in TimeKinds => \E k \in j .. i : file[k] = "blank"}

\* The text of the block that starts at line i, up to a line of the file.
TextOf(i, line) ==
  {j \in i + 1 .. line : \A k \in i .. j : file[k] # "blank"}

\* What the buffer holds of a text: its first lines, none of them wide.
Fitting(i, text) ==
  {j \in text : j <= i + Capacity /\ \A k \in i .. j : file[k] # "wide"}

HasFatalText ==
  \E i \in BlockStarts : \E j \in TextOf(i, Len(file)) : file[j] = "fatal"

Readable == opened /\ ToSet(file) \cap LongKinds = {} /\ ~HasFatalText

\* Every block of the part of the file that was read is an event, once and in
\* the order of the file, with the text that was read of it up to the first
\* line that does not fit: also the last block of a file that does not end with
\* a blank line or a newline, and one with no text (Tools.cpp:587-624).
EventsAreBlocks ==
  loop \in {"outer", "done"} =>
    /\ {events[n].start : n \in 1 .. Len(events)} = {i \in BlockStarts : i <= read}
    /\ \A n \in 1 .. Len(events) :
         LET start == events[n].start
             kept == Fitting(start, TextOf(start, read))
         IN  ToSet(events[n].text) = kept /\ Len(events[n].text) = Cardinality(kept)
    /\ \A m, n \in 1 .. Len(events) : m < n => events[m].start < events[n].start

\* A call that returns has read the whole of a file whose lines all fit the
\* buffer and that has no subtitle ParseSrtLine fails in: every other outcome of
\* the stream keeps it in the outer loop, which asks only for the end of the file
\* (Tools.cpp:587), for ever.
ReturnsWhenAllRead == loop = "done" => Readable /\ read = Len(file)

\* The call returns for every such file, whatever else its lines are and however
\* the last one ends.
ReadableFileEnds == Readable ~> loop = "done"

=============================================================================
