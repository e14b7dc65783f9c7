CONSTANTS
  Stride = 3
  StreamType <- MCStreamType
  StreamMatrix <- MCStreamMatrix
  Files = {"assFile", "srtFile", "otherFile"}
  FileType <- MCFileType
  FileMatrix <- MCFileMatrix
  Media = {"clip"}
  MediaFiles <- MCMediaFiles
  Streams = {"assStream"}
  None = None
  ReadOrders = {0, 1}
  Texts = {a, b}
  Fatal = {}
  GraphNames = {"AssFilterMod"}
  TrayIcon = TRUE
  UpstreamDrains = TRUE
  InBandTypeChange = FALSE
  MaxJoins = 2
  MaxFrames = 2
SPECIFICATION Spec
INVARIANT AssLinesKept
CHECK_DEADLOCK FALSE
