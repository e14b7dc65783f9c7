CONSTANTS
  o1 = o1
  o2 = o2
  Outputs = {o1, o2}
  Inputs = {loader, f1, f2, f3, f4}
  Loader = loader
  NoPin = NoPin
  Types <- MCTypes
  NoType = NoType
  Media <- MCMedia
  Keys = {"none", "absent", "off", "on"}
SPECIFICATION MCSpec
INVARIANTS
  ConnectionAgrees
  OneAutoLoaded
  AutoLoadedWhenDue
  OneProvider
