CONSTANTS
  Stride = 3
  StreamType <- MCStreamType
  StreamMatrix <- MCStreamMatrix
  Files = {"assFile", "srtFile", "otherFile"}
  FileType <- MCFileType
  FileMatrix <- MCFileMatrix
  Media = {"clip"}
  MediaFiles <- MCMediaFiles
  Streams = {"assStream", "srtStream", "pgsStream"}
  None = None
  ReadOrders = {0, 1}
  Texts = {a, b}
  Fatal = {b}
  GraphNames = {"AssFilterMod"}
  TrayIcon = TRUE
  UpstreamDrains = FALSE
  InBandTypeChange = FALSE
  MaxJoins = 2
  MaxFrames = 2
SPECIFICATION Spec
INVARIANT TypeOK
INVARIANT NoStaleFrames
INVARIANT OptionsMatchTrack
INVARIANT LinesOfTheirStream
INVARIANT SrtLinesKept
CHECK_DEADLOCK FALSE
