CONSTANTS
  Queries = {none, q1, q2}
  Empty = none
  MaxRequests = 3
  MaxUploads = 1
  Ids = {1, 2, 3}
  Names = {1, 2, 3}
  NewNames = {2}
  Items = {1}
  Calls = {c1, c2}
  MaxChanges = 2
  ListLimit = 2
  NoList = NoList
  NoCall = NoCall
  MirrorFaults = {"error", "garbled", "elsewhere"}
  MaxSubmits = 4
  MaxCommands = 4
  Files = {f1, f2}
  Edited = {f1}
  MaxEdits = 1
  UploadFaults = {"net", "server"}
SPECIFICATION ClientSpec
INVARIANTS ShowsNewestAnswer SearchesLastText ShowsUploads MirrorAgrees HandlersAwait StoredWasPicked TeardownSafe
PROPERTIES RefreshServed LoginEnds PickedIsStored SpinnerEnds
CHECK_DEADLOCK FALSE
