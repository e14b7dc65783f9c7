------------------------------ MODULE AssFilter ------------------------------
(***************************************************************************)
(* The filter object: its life in filter graphs, its input pin, the        *)
(* samples it parses into a libass track, the external subtitle files it   *)
(* loads, and its connection to the subtitle consumer (a video renderer).  *)
(*                                                                         *)
(* Threads: the application (graph control), the upstream filter's         *)
(* streaming thread, the consumer's render thread and the tray thread.     *)
(* Every handler takes the filter's lock, so a handler is one action; the  *)
(* exception is Receive, which tests two flags before it takes the lock    *)
(* and so is ReceiveCheck followed by ReceiveLocked.                       *)
(*                                                                         *)
(* Indices into the two vectors of external subtitles count from 1 here,   *)
(* from 0 in the code; 0 here is SIZE_MAX there.                           *)
(***************************************************************************)
EXTENDS ReadOrder, Sequences

CONSTANTS
  Streams,          \* embedded subtitle streams the pin may be given
  StreamType,       \* Streams -> SubTypes
  StreamMatrix,     \* Streams -> Headers: the "YCbCr Matrix" of an ASS header
  Files,            \* external subtitle files
  FileType,         \* Files -> TextTypes
  FileMatrix,       \* Files -> Headers, as far as ExtractYuvMatrix looks
  Media,            \* media files that are played
  MediaFiles,       \* Media -> Seq(Files): what LoadExternalFile finds
  GraphNames,       \* the names the filter is added to a graph under
  Fatal,            \* SRT texts that Receive does not survive
  TrayIcon,         \* m_settings.TrayIcon
  UpstreamDrains,   \* TRUE: upstream has no sample under way at a disconnect
  InBandTypeChange, \* TRUE: upstream may change the type with a sample
  MaxJoins,         \* bound: lives in a graph
  MaxFrames,        \* bound: frames requested per consumer connection
  None

TextTypes == {"SRT", "ASS"}
Unsupported == {"VOBSUB", "PGS"}
SubTypes == TextTypes \cup Unsupported
\* "PC.601" stands for every matrix but the two that SetMediaType knows.
Matrices == {"None", "TV.601", "TV.709", "PC.601"}
Headers == Matrices \cup {"absent"}
AutoLoadName == "AssFilterMod(AutoLoad)"

ASSUME FilterAssumption ==
  /\ StreamType \in [Streams -> SubTypes]
  /\ StreamMatrix \in [Streams -> Headers]
  /\ FileType \in [Files -> TextTypes]
  /\ FileMatrix \in [Files -> Headers]
  /\ MediaFiles \in [Media -> Seq(Files)]
  /\ Fatal \subseteq Texts
  /\ TrayIcon \in BOOLEAN
  /\ UpstreamDrains \in BOOLEAN
  /\ InBandTypeChange \in BOOLEAN
  /\ MaxJoins \in Nat
  /\ MaxFrames \in Nat

VARIABLES
  \* the filter in its graph
  media,            \* what the graph plays; None when in no graph
  m_bActive,        \* m_State is Paused or Running
  m_bNotFirstPause,
  m_bNoExtFile,
  m_bExternalFile,
  joins,            \* bound: how often a graph was joined
  \* the input pin and the streaming thread
  m_pin,            \* the stream the pin is connected for, or None
  upstream,         \* the stream upstream sends samples of, or None
  inFlight,         \* the sample between the flag test and the lock, or None
  m_bUnsupportedSub,
  \* the embedded track
  m_track,          \* a Track or None
  m_bSrtHeaderDone,
  mapSubLine,
  received,         \* history: the samples parsed into m_track
  \* the external subtitles
  m_ExtSubFiles,
  m_extSubTrack,    \* the loaded files; None for a null track
  m_iCurExtSubTrack,
  \* what the filter tells about itself
  m_wsSubType,
  options,          \* m_stringOptions["yuvMatrix"], m_boolOptions["isMovable"]
  trayFiles,        \* the tray icon's copy of m_ExtSubFiles, or None
  \* the consumer
  m_consumer,       \* is m_consumer set?
  m_consumerLastId,
  renderer,         \* the consumer's side: "absent", "free", "taken", "ours"
  cache,            \* the frames it holds: [id, source]
  \* what happened when libass was given a null track, embedded or external, or
  \* Receive a text it does not survive
  crashed           \* "no", "embedded", "external", "sample"

lifeVars == <<media, m_bActive, m_bNotFirstPause, m_bNoExtFile, joins>>
sampleVars == <<upstream, inFlight>>
trackVars == <<m_track, m_bSrtHeaderDone, mapSubLine, received>>
extVars == <<m_ExtSubFiles, m_extSubTrack, m_iCurExtSubTrack>>
infoVars == <<m_wsSubType, options>>
consumerVars == <<m_consumer, m_consumerLastId, renderer, cache>>

vars == <<lifeVars, m_bExternalFile, m_pin, sampleVars, m_bUnsupportedSub,
          trackVars, extVars, infoVars, trayFiles, consumerVars, crashed>>

Sample == [stream : Streams, line : Line]
Track == [stream : Streams, header : BOOLEAN, events : SUBSET Event]
ExtSub == [file : Files, yuvMatrix : Matrices, vecPos : Nat]
Frame == [id : Nat, source : Streams \cup Files]

\* None stands for a null pointer, a missing stream and a missing sample.
ASSUME NoneAssumption ==
  /\ None \notin Streams \cup Files \cup Media
  /\ None \notin Track
  /\ None \notin Sample
  /\ None \notin Seq(ExtSub)

-----------------------------------------------------------------------------

Init ==
  /\ media = None
  /\ m_bActive = FALSE
  /\ m_bNotFirstPause = FALSE
  /\ m_bNoExtFile = FALSE
  /\ m_bExternalFile = FALSE
  /\ joins = 0
  /\ m_pin = None
  /\ upstream = None
  /\ inFlight = None
  /\ m_bUnsupportedSub = FALSE
  /\ m_track = None
  /\ m_bSrtHeaderDone = FALSE
  /\ mapSubLine = {}
  /\ received = {}
  /\ m_ExtSubFiles = <<>>
  /\ m_extSubTrack = <<>>
  /\ m_iCurExtSubTrack = 1
  /\ m_wsSubType = "none"
  /\ options = [yuvMatrix |-> "None", isMovable |-> FALSE]
  /\ trayFiles = None
  /\ m_consumer = FALSE
  /\ m_consumerLastId = 0
  /\ renderer = "absent"
  /\ cache = {}
  /\ crashed = "no"

-----------------------------------------------------------------------------
(* Joining and leaving a graph.                                            *)

JoinFilterGraph(name, md, rend) ==
  /\ media = None
  /\ joins < MaxJoins
  /\ joins' = joins + 1
  /\ media' = md
  /\ m_bExternalFile' = (m_bExternalFile \/ name = AutoLoadName)
  /\ renderer' = rend
  /\ UNCHANGED <<m_bActive, m_bNotFirstPause, m_bNoExtFile, m_pin, sampleVars,
                 m_bUnsupportedSub, trackVars, extVars, infoVars, trayFiles,
                 m_consumer, m_consumerLastId, cache, crashed>>

\* The graph manager stops a filter and disconnects its pins before it removes
\* it.  The consumer, told to disconnect, releases its frames.
LeaveFilterGraph ==
  /\ media # None
  /\ ~m_bActive
  /\ m_pin = None
  /\ inFlight = None
  /\ media' = None
  /\ m_consumer' = FALSE
  /\ cache' = {}
  /\ renderer' = "absent"
  /\ m_bNotFirstPause' = FALSE
  /\ trayFiles' = None
  /\ UNCHANGED <<m_bActive, m_bNoExtFile, joins, m_bExternalFile, m_pin,
                 sampleVars, m_bUnsupportedSub, trackVars, extVars, infoVars,
                 m_consumerLastId, crashed>>

-----------------------------------------------------------------------------
(* The input pin.                                                          *)

\* The consumer is told to drop its frames, and the libass cache and the map
\* are flushed, when there is a track and a consumer to flush.
FlushKeepsFrames ==
  /\ mapSubLine' = IF m_track # None /\ m_consumer THEN {} ELSE mapSubLine
  /\ UNCHANGED cache

Flush ==
  IF m_track # None /\ m_consumer
  THEN mapSubLine' = {} /\ cache' = {}
  ELSE UNCHANGED <<mapSubLine, cache>>

\* Every media type gets a track of its own; only an ASS media type carries a
\* libass header.
NewTrackOnce(s) ==
  IF m_track = None
  THEN /\ m_track' = [stream |-> s, header |-> StreamType[s] = "ASS", events |-> {}]
       /\ received' = {}
  ELSE UNCHANGED <<m_track, received>>

NewTrack(s) ==
  /\ m_track' = [stream |-> s, header |-> StreamType[s] = "ASS", events |-> {}]
  /\ received' = {}

\* An SRT track needs its generated header again.
KeepSrtHeader(s) == UNCHANGED m_bSrtHeaderDone

ResetSrtHeader(s) ==
  m_bSrtHeaderDone' = (m_bSrtHeaderDone /\ StreamType[s] # "SRT")

\* The header of an ASS stream is searched for two matrices, any other is taken
\* for none.  Only the text types set isMovable.
FoundInHeader(s) ==
  IF StreamMatrix[s] \in {"TV.601", "TV.709"} THEN StreamMatrix[s] ELSE "None"

MediaOptionsOldMatrix(s) ==
  [yuvMatrix |-> IF StreamType[s] = "ASS" THEN FoundInHeader(s) ELSE options.yuvMatrix,
   isMovable |-> StreamType[s] = "SRT"]

MediaOptions(s) ==
  [yuvMatrix |-> IF StreamType[s] = "ASS" THEN FoundInHeader(s) ELSE "None",
   isMovable |-> IF StreamType[s] \in TextTypes THEN StreamType[s] = "SRT"
                                                ELSE options.isMovable]

\* The icon gets a copy of the list of files; there is one icon at a time.
CreateTrayIconFirst(files) ==
  trayFiles' = IF TrayIcon /\ trayFiles = None THEN m_ExtSubFiles ELSE trayFiles

CreateTrayIcon(files) ==
  trayFiles' = IF TrayIcon /\ trayFiles = None THEN files ELSE trayFiles

\* AssFilter::SetMediaType.
SetMediaType(s) ==
  /\ m_bExternalFile' = FALSE
  /\ m_bUnsupportedSub' = (StreamType[s] \in Unsupported)
  /\ Flush
  /\ CreateTrayIcon(m_ExtSubFiles)
  /\ NewTrack(s)
  /\ ResetSrtHeader(s)
  /\ m_wsSubType' = StreamType[s]
  /\ options' = MediaOptions(s)

\* The pin is there only while the filter is not in external mode, and it can
\* be connected only while the filter is stopped.
ReceiveConnection(s) ==
  /\ media # None
  /\ ~m_bExternalFile
  /\ ~m_bActive
  /\ m_pin = None
  /\ m_pin' = s
  /\ upstream' = s
  /\ SetMediaType(s)
  /\ UNCHANGED <<lifeVars, inFlight, extVars, m_consumer, m_consumerLastId,
                 renderer, crashed>>

DisconnectPin ==
  /\ m_pin # None
  /\ ~m_bActive
  /\ UpstreamDrains => inFlight = None
  /\ m_pin' = None
  /\ upstream' = None
  /\ UNCHANGED <<lifeVars, m_bExternalFile, inFlight, m_bUnsupportedSub,
                 trackVars, extVars, infoVars, trayFiles, consumerVars, crashed>>

\* Upstream attaches a new media type to its next sample.  The pin accepts it
\* (QueryAccept and CBaseInputPin::Receive ask CheckMediaType, which takes all
\* of SubTypes) and the filter does nothing about it.
ChangeTypeInBand(s) ==
  /\ InBandTypeChange
  /\ m_pin # None
  /\ m_bActive
  /\ upstream' = s
  /\ UNCHANGED <<lifeVars, m_bExternalFile, m_pin, inFlight, m_bUnsupportedSub,
                 trackVars, extVars, infoVars, trayFiles, consumerVars, crashed>>

-----------------------------------------------------------------------------
(* Samples.                                                                *)

\* AssPin::Receive and the unlocked test at the top of AssFilter::Receive.
ReceiveCheck(line) ==
  /\ m_pin # None
  /\ m_bActive
  /\ inFlight = None
  /\ ~m_bExternalFile
  /\ ~m_bUnsupportedSub
  /\ inFlight' = [stream |-> upstream, line |-> line]
  /\ UNCHANGED <<lifeVars, m_bExternalFile, m_pin, upstream, m_bUnsupportedSub,
                 trackVars, extVars, infoVars, trayFiles, consumerVars, crashed>>

\* libass drops a chunk for a track that has no header yet.
Process(header, ro, text) ==
  m_track' = [m_track EXCEPT
                !.header = header,
                !.events = IF header THEN ProcessChunk(@, ro, text) ELSE @]

\* The ReadOrder of an SRT line is its start time in milliseconds; the line's
\* readOrder field stands for that time.  A text is Fatal when it fills the
\* buffer of strncpy_s, which ends the process, or is one that ParseSrtLine
\* does not come back from (see SrtLine); the header is sent before.
ReceiveSrt(line) ==
  /\ m_bSrtHeaderDone' = TRUE
  /\ UNCHANGED mapSubLine
  /\ IF line.text \in Fatal
     THEN /\ m_track' = [m_track EXCEPT !.header = @ \/ ~m_bSrtHeaderDone]
          /\ crashed' = "sample"
          /\ UNCHANGED received
     ELSE /\ Process(m_track.header \/ ~m_bSrtHeaderDone, line.readOrder, line.text)
          /\ received' = received \cup {inFlight}
          /\ UNCHANGED crashed

ReceiveAss(line) ==
  /\ IF Known(mapSubLine, line)
     THEN UNCHANGED <<m_track, mapSubLine>>
     ELSE LET entry == EntryOf(mapSubLine, line)
          IN  /\ Process(m_track.header, entry.readOrder, entry.text)
              /\ mapSubLine' = mapSubLine \cup {entry}
  /\ received' = received \cup {inFlight}
  /\ UNCHANGED <<m_bSrtHeaderDone, crashed>>

\* The rest of AssFilter::Receive, under the lock.
ReceiveLocked ==
  /\ inFlight # None
  /\ IF m_wsSubType = "SRT" THEN ReceiveSrt(inFlight.line) ELSE ReceiveAss(inFlight.line)
  /\ inFlight' = None
  /\ UNCHANGED <<lifeVars, m_bExternalFile, m_pin, upstream, m_bUnsupportedSub,
                 extVars, infoVars, trayFiles, consumerVars>>

-----------------------------------------------------------------------------
(* External subtitles.                                                     *)

\* ExtractYuvMatrix looks into ASS files only, and takes what it finds in the
\* first 30 lines; in a file that cannot be opened it finds nothing.
MatrixRead(sub, readable) ==
  IF FileType[sub.file] # "ASS" THEN sub.yuvMatrix
  ELSE IF readable /\ FileMatrix[sub.file] # "absent" THEN FileMatrix[sub.file]
  ELSE "None"

\* The list of files after file i was read into the next track.
LoadedOneOff(files, i, readable) ==
  [files EXCEPT ![i] = [file |-> @.file,
                        yuvMatrix |-> MatrixRead(@, readable),
                        vecPos |-> Len(m_extSubTrack)]]

LoadedNoMatrix(files, i, readable) ==
  [files EXCEPT ![i] = [file |-> @.file,
                        yuvMatrix |-> @.yuvMatrix,
                        vecPos |-> Len(m_extSubTrack) + 1]]

Loaded(files, i, readable) ==
  [files EXCEPT ![i] = [file |-> @.file,
                        yuvMatrix |-> MatrixRead(@, readable),
                        vecPos |-> Len(m_extSubTrack) + 1]]

\* A file is read into m_track, which is moved to the vector of tracks and then
\* reset.  ass_read_file returns null for a file it cannot read.
TrackReadReset(file, readable) == None

TrackRead(file, readable) ==
  IF FileType[file] = "ASS" /\ ~readable THEN None ELSE file

\* SetCurExternalSub(i) on the list of files, without its notification: a file
\* shown for the first time is read.  srt_read_file does not return for one that
\* cannot be opened or read to its end (see SrtFile), so there is no step.
SelectExternalSub(files, i, readable) ==
  LET file == files[i].file
      isAss == FileType[file] = "ASS"
  IN  /\ m_iCurExtSubTrack' = i
      /\ IF files[i].vecPos = 0
         THEN /\ isAss \/ readable
              /\ m_extSubTrack' =
                   Append(m_extSubTrack, TrackRead(file, readable))
              /\ m_ExtSubFiles' = Loaded(files, i, readable)
              /\ m_track' = None
              /\ received' = {}
         ELSE /\ m_ExtSubFiles' = files
              /\ UNCHANGED <<m_extSubTrack, m_track, received>>
      /\ options' = [yuvMatrix |-> m_ExtSubFiles'[i].yuvMatrix, isMovable |-> ~isAss]
      /\ m_wsSubType' = FileType[file]
      /\ UNCHANGED <<m_bSrtHeaderDone, mapSubLine>>

\* The files found for the media in the graph, none of them loaded.
FoundFiles ==
  [k \in 1 .. Len(MediaFiles[media]) |->
     [file |-> MediaFiles[media][k], yuvMatrix |-> "None", vecPos |-> 0]]

LoadExternalFileNoSelect(readable) ==
  /\ m_ExtSubFiles' = m_ExtSubFiles \o FoundFiles
  /\ UNCHANGED <<m_extSubTrack, m_iCurExtSubTrack, trackVars, infoVars>>

LoadExternalFile(readable) ==
  SelectExternalSub(m_ExtSubFiles \o FoundFiles, m_iCurExtSubTrack, readable)

\* A switch of the external subtitle, by the tray menu or by an application.
SetCurExternalSubNoClear(i, readable) ==
  /\ i \in 1 .. Len(m_ExtSubFiles)
  /\ SelectExternalSub(m_ExtSubFiles, i, readable)
  /\ UNCHANGED <<lifeVars, m_bExternalFile, m_pin, sampleVars, m_bUnsupportedSub,
                 trayFiles, consumerVars, crashed>>

SetCurExternalSub(i, readable) ==
  /\ i \in 1 .. Len(m_ExtSubFiles)
  /\ SelectExternalSub(m_ExtSubFiles, i, readable)
  /\ cache' = IF m_consumer THEN {} ELSE cache
  /\ UNCHANGED <<lifeVars, m_bExternalFile, m_pin, sampleVars, m_bUnsupportedSub,
                 trayFiles, m_consumer, m_consumerLastId, renderer, crashed>>

-----------------------------------------------------------------------------
(* Activation and the consumer.                                            *)

\* A consumer that has another provider refuses; the filter then goes on
\* without one and does not ask again.
ConnectToConsumer ==
  IF renderer = "free"
  THEN /\ m_consumer' = TRUE
       /\ m_consumerLastId' = 0
       /\ renderer' = "ours"
       /\ UNCHANGED cache
  ELSE UNCHANGED consumerVars

\* AssFilter::Pause for the first time in a graph.
FirstPause(readable) ==
  /\ ~m_bNotFirstPause
  /\ m_bNotFirstPause' = TRUE
  /\ IF m_bExternalFile /\ MediaFiles[media] # <<>>
     THEN LoadExternalFile(readable)
     ELSE UNCHANGED <<trackVars, extVars, infoVars>>
  /\ m_bNoExtFile' = (m_bNoExtFile \/ (m_bExternalFile /\ MediaFiles[media] = <<>>))
  /\ IF m_bExternalFile THEN CreateTrayIcon(m_ExtSubFiles') ELSE UNCHANGED trayFiles
  /\ IF m_bNoExtFile' THEN UNCHANGED consumerVars ELSE ConnectToConsumer

\* Run calls Pause when the filter is stopped, and the difference between
\* paused and running is never read, so Run is this action too.
Pause(readable) ==
  /\ media # None
  /\ m_bActive' = TRUE
  /\ \/ FirstPause(readable)
     \/ /\ m_bNotFirstPause
        /\ UNCHANGED <<m_bNotFirstPause, m_bNoExtFile, trackVars, extVars,
                       infoVars, trayFiles, consumerVars>>
  /\ UNCHANGED <<media, joins, m_bExternalFile, m_pin, sampleVars,
                 m_bUnsupportedSub, crashed>>

Stop ==
  /\ media # None
  /\ m_bActive' = FALSE
  /\ UNCHANGED <<media, m_bNotFirstPause, m_bNoExtFile, joins, m_bExternalFile,
                 m_pin, sampleVars, m_bUnsupportedSub, trackVars, extVars,
                 infoVars, trayFiles, consumerVars, crashed>>

\* The track RequestFrame renders: the name of its source, None for a null
\* track.
RenderedSource ==
  IF m_bExternalFile
  THEN m_extSubTrack[m_ExtSubFiles[m_iCurExtSubTrack].vecPos]
  ELSE IF m_track = None THEN None ELSE m_track.stream

\* The consumer asks for a frame and gets it before the call returns.  Without
\* m_consumer the call fails and changes nothing.
RequestFrame ==
  /\ m_consumer
  /\ m_consumerLastId < MaxFrames
  /\ m_consumerLastId' = m_consumerLastId + 1
  /\ IF RenderedSource = None
     THEN /\ crashed' = IF m_bExternalFile THEN "external" ELSE "embedded"
          /\ UNCHANGED cache
     ELSE /\ cache' = cache \cup {[id |-> m_consumerLastId, source |-> RenderedSource]}
          /\ UNCHANGED crashed
  /\ UNCHANGED <<lifeVars, m_bExternalFile, m_pin, sampleVars, m_bUnsupportedSub,
                 trackVars, extVars, infoVars, trayFiles, m_consumer, renderer>>

\* ISubRenderProvider::Disconnect, called by the consumer.
Disconnect ==
  /\ renderer = "ours"
  /\ m_consumer' = FALSE
  /\ renderer' = "free"
  /\ cache' = {}
  /\ UNCHANGED <<lifeVars, m_bExternalFile, m_pin, sampleVars, m_bUnsupportedSub,
                 trackVars, extVars, infoVars, trayFiles, m_consumerLastId, crashed>>

-----------------------------------------------------------------------------

\* A null track given to libass and a Fatal text are the end of the process, or
\* of the filter's lock; the model goes on, and nothing is claimed of what follows.
Next ==
  \/ \E name \in GraphNames, md \in Media, rend \in {"absent", "free", "taken"} :
       JoinFilterGraph(name, md, rend)
  \/ LeaveFilterGraph
  \/ \E s \in Streams : ReceiveConnection(s) \/ ChangeTypeInBand(s)
  \/ DisconnectPin
  \/ \E line \in Line : ReceiveCheck(line)
  \/ ReceiveLocked
  \/ \E readable \in BOOLEAN : Pause(readable)
  \/ Stop
  \/ \E i \in 1 .. Len(m_ExtSubFiles), readable \in BOOLEAN :
       SetCurExternalSub(i, readable)
  \/ RequestFrame
  \/ Disconnect

Spec == Init /\ [][Next]_vars

-----------------------------------------------------------------------------
(* Properties.                                                             *)

\* Type invariant.
TypeOK ==
  /\ media \in Media \cup {None}
  /\ m_bActive \in BOOLEAN
  /\ m_bNotFirstPause \in BOOLEAN
  /\ m_bNoExtFile \in BOOLEAN
  /\ m_bExternalFile \in BOOLEAN
  /\ joins \in Nat
  /\ m_pin \in Streams \cup {None}
  /\ upstream \in Streams \cup {None}
  /\ inFlight \in Sample \cup {None}
  /\ m_bUnsupportedSub \in BOOLEAN
  /\ m_track \in Track \cup {None}
  /\ m_bSrtHeaderDone \in BOOLEAN
  /\ mapSubLine \subseteq Entry
  /\ IsFiniteSet(mapSubLine)
  /\ received \subseteq Sample
  /\ m_ExtSubFiles \in Seq(ExtSub)
  /\ m_extSubTrack \in Seq(Files \cup {None})
  /\ m_iCurExtSubTrack \in Nat \ {0}
  /\ m_wsSubType \in SubTypes \cup {"none"}
  /\ options \in [yuvMatrix : Matrices, isMovable : BOOLEAN]
  /\ trayFiles \in Seq(ExtSub) \cup {None}
  /\ m_consumer \in BOOLEAN
  /\ m_consumerLastId \in Nat
  /\ renderer \in {"absent", "free", "taken", "ours"}
  /\ cache \subseteq Frame
  /\ crashed \in {"no", "embedded", "external", "sample"}

\* The two vectors of external subtitles agree: a file that was loaded names a
\* track of its own, read from that very file, also after lists of several
\* graphs were appended (AssFilter.cpp:731-747).
LoadedTrackIsOfItsFile ==
  \A i \in 1 .. Len(m_ExtSubFiles) :
    LET pos == m_ExtSubFiles[i].vecPos
    IN  pos # 0 =>
          /\ pos \in 1 .. Len(m_extSubTrack)
          /\ m_extSubTrack[pos] \in {m_ExtSubFiles[i].file, None}
          /\ \A j \in 1 .. Len(m_ExtSubFiles) :
               m_ExtSubFiles[j].vecPos = pos => j = i

\* The two unchecked subscripts of RequestFrame (AssFilter.cpp:524) are in
\* range whenever a consumer may ask for a frame of an external subtitle.
ExternalRenderable ==
  m_consumer /\ m_bExternalFile =>
    /\ m_iCurExtSubTrack \in 1 .. Len(m_ExtSubFiles)
    /\ m_ExtSubFiles[m_iCurExtSubTrack].vecPos \in 1 .. Len(m_extSubTrack)

\* A sample, and an embedded track, are there only while the filter is in a
\* graph and not in external mode: no handler that parses a sample meets the
\* null track an external subtitle leaves behind (AssFilter.cpp:745).
PinInv ==
  /\ media = None => m_pin = None /\ inFlight = None /\ ~m_consumer
  /\ m_pin # None => ~m_bExternalFile /\ upstream \in Streams /\ m_track \in Track
  /\ inFlight # None => ~m_bExternalFile /\ m_track \in Track

\* Once there are external files the filter stays in external mode, and the
\* current one is loaded before a consumer can be connected.
ExtInv ==
  /\ m_ExtSubFiles = <<>> => m_iCurExtSubTrack = 1
  /\ m_ExtSubFiles # <<>> =>
       /\ m_bExternalFile
       /\ m_iCurExtSubTrack \in 1 .. Len(m_ExtSubFiles)
       /\ m_ExtSubFiles[m_iCurExtSubTrack].vecPos # 0
  /\ m_consumer => m_bNotFirstPause
  /\ m_consumer /\ m_bExternalFile => m_ExtSubFiles # <<>>

\* The inductive invariant: the types, and that the consumer's subscripts are in
\* range, hold only together.
IInv ==
  /\ TypeOK
  /\ PinInv
  /\ ExtInv
  /\ LoadedTrackIsOfItsFile

\* Clear is called for every change of what RequestFrame renders: a frame the
\* consumer still holds was rendered from the current track
\* (SubRenderIntf.h:304-308).
NoStaleFrames ==
  \A f \in cache : f.source = RenderedSource

\* A null track is given to libass for one reason only, an ASS file that could
\* not be read (AssFilter.cpp:733), and never as an embedded track while the
\* pin is connected (AssFilter.cpp:524).
NullTrackHasCause ==
  m_consumer /\ RenderedSource = None =>
    IF m_bExternalFile THEN FileType[m_ExtSubFiles[m_iCurExtSubTrack].file] = "ASS"
                       ELSE m_pin = None

\* SubRenderIntf.h:89-98: None for native RGB, for ASS the matrix of the header,
\* and TV.601 when it has none.
MatrixPromised(type, header) ==
  CASE type # "ASS" -> "None"
    [] type = "ASS" /\ header = "absent" -> "TV.601"
    [] OTHER -> header

\* Where the code breaks that promise: it says None for a header without a matrix,
\* and for one in an embedded stream that is not TV.601 or TV.709.
MatrixMissed(header) ==
  header = "absent" \/ (~m_bExternalFile /\ header \notin {"TV.601", "TV.709"})

\* The matrix and isMovable the consumer is told are those promised for the track
\* it is given frames of, however often subtitles were loaded and switched, but
\* for the matrices the code misses.
OptionsMatchTrack ==
  m_consumer /\ RenderedSource # None =>
    LET type == IF m_bExternalFile THEN FileType[RenderedSource] ELSE StreamType[RenderedSource]
        header == IF m_bExternalFile THEN FileMatrix[RenderedSource]
                                     ELSE StreamMatrix[RenderedSource]
    IN  /\ type \in TextTypes => options.isMovable = (type = "SRT")
        /\ \/ options.yuvMatrix = MatrixPromised(type, header)
           \/ options.yuvMatrix = "None" /\ MatrixMissed(header)

\* The samples parsed into a track that was not made for their stream.
Strays == {r \in received : m_track = None \/ r.stream # m_track.stream}

\* Receive tests its flags before it takes the lock (AssFilter.cpp:205), so the
\* sample that is under way while the pin is reconnected is parsed into the next
\* track: that one and no other, and none if upstream waits for it.
LinesOfTheirStream ==
  /\ \A r, q \in Strays : r = q
  /\ UpstreamDrains => Strays = {}

\* The comment at AssFilter.cpp:271-273: an SRT line is lost only to another
\* line with the same start time.  A track without its generated header would
\* lose every line.
SrtLinesKept ==
  m_track # None /\ m_wsSubType = "SRT" =>
    \A r \in received : \E e \in m_track.events : e.readOrder = r.line.readOrder

\* The i-th item of the tray menu names the i-th file SetCurExternalSub takes,
\* though the menu works on a copy made when the icon was created.
TrayMenuNamesFiles ==
  trayFiles # None /\ m_bExternalFile =>
    /\ Len(trayFiles) = Len(m_ExtSubFiles)
    /\ \A i \in 1 .. Len(trayFiles) : trayFiles[i].file = m_ExtSubFiles[i].file

-----------------------------------------------------------------------------
(* What documents say of the filter and the code does not keep.            *)

\* The comment at AssFilter.cpp:289-292: a new line is made valid.  Every ASS
\* line received for the current track is one of its events while a consumer
\* is there to ask for it.
AssLinesKept ==
  m_consumer /\ m_track # None /\ m_wsSubType = "ASS" =>
    \A r \in received : \E e \in m_track.events : e.text = r.line.text

=============================================================================
