CONSTANTS
  Stride = 3
  StreamType <- MCStreamType
  StreamMatrix <- MCStreamMatrix
  Files = {"assFile", "srtFile", "otherFile"}
  FileType <- MCFileType
  FileMatrix <- MCFileMatrix
  Media = {"film", "series", "clip"}
  MediaFiles <- MCMediaFiles
  Streams = {"assStream", "pcStream", "srtStream"}
  None = None
  ReadOrders = {0}
  Texts = {a}
  Fatal = {}
  GraphNames = {"AssFilterMod", "AssFilterMod(AutoLoad)"}
  TrayIcon = TRUE
  UpstreamDrains = FALSE
  InBandTypeChange = TRUE
  MaxJoins = 3
  MaxFrames = 1
SPECIFICATION Spec
INVARIANT LoadedTrackIsOfItsFile
INVARIANT ExternalRenderable
 
INVARIANT NoStaleFrames
INVARIANT OptionsMatchTrack
INVARIANT TrayMenuNamesFiles
CHECK_DEADLOCK FALSE
