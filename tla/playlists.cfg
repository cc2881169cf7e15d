CONSTANTS
  a = a
  A = A
  Users = {u1, u2}
  Playlists = {p1, p2}
  Videos = {v1, v2}
  Names = {a, A, b}
  Fold <- TwoCases
  Thumbnailed = {v1, v2}
  MaxPlaylists = 1
  MaxItems = 2
  MaxCovers = 1
  NoUser = NoUser
  NoName = NoName
  NoRow = NoRow
  NoPlaylist = NoPlaylist
  Slots = {s1, s2}
  MaxStamp = 3
  Ops = {"create", "rename", "delete", "add", "remove"}
  Overlap = {"add"}
  Faults = {"error", "crash"}
SPECIFICATION PartsSpec
SYMMETRY Symmetry
INVARIANTS TypeOK NameIsReserved ItemsIndexed Agree NoGhosts
CHECK_DEADLOCK FALSE
